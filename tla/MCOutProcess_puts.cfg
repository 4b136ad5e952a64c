CONSTANTS
    p1 = p1
    p2 = p2
    none = none
    None = none
    Puts = {p1, p2}
    Names = {"", "n1", "n2", "n3"}
    RandomNames = {"n1", "n2", "n3"}
    Workspaces = {"n1"}
    StateFiles = {"n2"}
    TaintedFiles = {}
    BadKey = "bad key"
    Cleaned <- MCCleaned
    Requests <- EveryRequest
    MaxSignals = 1
    MaxFaults = 1
SPECIFICATION MCSpec
SYMMETRY Symmetric
INVARIANTS
    OutTypeOK
    NoChildOutlives
    AgentServesCommands
    NothingLeft
    RandomNameIsNew
    VariablePrecedence
