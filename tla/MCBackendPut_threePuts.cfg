CONSTANTS
    p1 = p1
    p2 = p2
    p3 = p3
    e1 = e1
    e2 = e2
    e1plan = e1plan
    e2plan = e2plan
    Default = default
    Nobody = nobody
    Puts = {p1, p2, p3}
    Envs = {e1}
    PlanName <- OneEnvPlanName
    Requests <- ThreePutsRequests
    MaxActive = 2
    MaxFaults = 1
    MaxKills = 1
SYMMETRY PutSymmetry
CONSTRAINT OneMishap
SPECIFICATION Spec
INVARIANTS
    StoredPlanConsumed
    RetrySucceeds
