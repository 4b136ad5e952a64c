CONSTANTS
    p1 = p1
    p2 = p2
    e1 = e1
    e1plan = e1plan
    r1 = r1
    Default = default
    Nobody = nobody
    Puts = {p1, p2}
    Envs = {e1}
    Readers = {r1}
    CheckedEnv = e1
    PlanName <- OneEnvPlanName
    LastModified <- OneTime
    Requests <- ReaderRequests
    MaxActive = 1
    MaxFaults = 1
    MaxKills = 0
SYMMETRY PutSymmetry
SPECIFICATION ReaderSpec
INVARIANTS
    ReaderTypeOK
    VersionCoversFiles
    GetNeverStale
    CheckMissesNothing
PROPERTIES
    ImplementsSerialStore
