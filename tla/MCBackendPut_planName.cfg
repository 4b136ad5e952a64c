CONSTANTS
    p1 = p1
    p2 = p2
    p3 = p3
    e1 = e1
    e2 = e2
    e1plan = e1plan
    e2plan = e2plan
    Default = default
    Nobody = nobody
    Puts = {p1, p2}
    Envs = {e1, e2}
    PlanName <- CollidingPlanName
    Requests <- CollidingRequests
    MaxActive = 1
    MaxFaults = 0
    MaxKills = 0
SPECIFICATION Spec
PROPERTIES
    EnvIsolation
