CONSTANTS
    p1 = p1
    p2 = p2
    Existing = existing
    Nobody = nobody
    Puts = {p1, p2}
    Requests <- LifecycleRequests
    MaxActive = 2
    MaxFaults = 2
    MaxKills = 1
SPECIFICATION MCFairSpec
INVARIANTS
    LegacyTypeOK
    FailuresForgetNothing
    AbortsForgetInWindows
    OneStateFile
    DestroysOneStateFile
PROPERTIES
    LegacyPutReturns
