CONSTANTS
    p1 = p1
    p2 = p2
    p3 = p3
    e1 = e1
    e1plan = e1plan
    Default = default
    Nobody = nobody
    Puts = {p1, p2}
    Envs = {e1}
    PlanName <- OneEnvPlanName
    Requests <- NextPutRequests
    MaxActive = 1
    MaxFaults = 1
    MaxKills = 0
SYMMETRY PutSymmetry
SPECIFICATION MigratedSpec
INVARIANTS
    NextPutMigrates
