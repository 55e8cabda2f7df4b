SPECIFICATION Spec
CONSTANTS
    DPSize = 2
    FrontEnds = {f1}
    MaxRequests = 2
    Abortable = {1}
    MaxPasses = 1
    SyncInterval = 2
    PauseModes = {"keep", "abort"}
    MaxPauses = 1
    MaxCalls = 2
INVARIANTS
    CollectivesMatch
    SameWaveAtSync
    PauseHolds
    IdleIsKnown
PROPERTIES
    EngineSettles
CHECK_DEADLOCK FALSE
