CONSTANTS
    p1 = p1
    p2 = p2
    p3 = p3
    e1 = e1
    e2 = e2
    e1plan = e1plan
    e2plan = e2plan
    Default = default
    Nobody = nobody
    Puts = {p1, p2}
    Envs = {e1}
    PlanName <- OneEnvPlanName
    Requests <- OneEnvRequests
    MaxActive = 2
    MaxFaults = 1
    MaxKills = 0
SYMMETRY PutSymmetry
SPECIFICATION Spec
INVARIANTS
    SuccessNamesEnv
