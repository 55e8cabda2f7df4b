SPECIFICATION Spec
CONSTANTS
    DPSize = 2
    FrontEnds = {f1}
    MaxRequests = 2
    Abortable = {1}
    MaxPasses = 1
    SyncInterval = 1
    PauseModes = {"abort"}
    MaxPauses = 1
    MaxCalls = 3
INVARIANT
    RequestWakesAllRanks
CHECK_DEADLOCK FALSE
