CONSTANTS
    Readers = {r1, r2}
    MaxChunks = 2
    MaxMessages = 4
    Oversized = {2, 3}
    Impatient = {r2}
SPECIFICATION Spec
INVARIANTS
    TypeOK
    NoWriteUnderReader
    DequeuesInOrder
PROPERTIES
    ImplementsBroadcastQueue
    EveryMessageArrives
    EnqueueReturns
    ShutdownEndsReader
CHECK_DEADLOCK FALSE
