CONSTANTS
    p1 = p1
    p2 = p2
    none = none
    None = none
    Puts = {p1}
    Names = {"", "n1", "n2", "n3"}
    RandomNames = {"n1", "n2", "n3"}
    Workspaces = {"n1"}
    StateFiles = {"n2"}
    TaintedFiles = {}
    BadKey = "bad key"
    Cleaned <- MCCleaned
    Requests <- LockTimeoutRequests
    MaxSignals = 0
    MaxFaults = 0
SPECIFICATION Spec
INVARIANTS
    LockTimeoutGiven
