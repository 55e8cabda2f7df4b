CONSTANTS
    NumBlocks = 3
    BlockSize = 2
    Requests = {r1, r2, r3}
    Tokens = {1, 2}
    Prompt <- MCSamePrompt
    AsyncSchedulings = {TRUE, FALSE}
    EnableChunkedPrefill = TRUE
    ReserveFullISL = TRUE
    MaxNumRunningReqs = 2
    MaxNumScheduledTokens = 3
    MaxModelLen = 6
    MaxTokens <- MCThreeTokens
    StopTokens = {2}
    UsePowerSMC = FALSE
    KVCow = TRUE
    ParticleIdx <- MCParticleIdx
    NumParticles = 2
    SMCBlockSize = 2
    AlphaFinal = 2
    AlphaRampTokens = 1
    BaseLogp <- MCBaseLogp
    ProposalLogq <- MCProposalLogq
    AbortableRequests = {r1}
    MaxResets = 2
SPECIFICATION Spec
INVARIANTS
    TypeOK
    QueuesMatchStatus
    PoolConsistent
    ForcedResetSucceeds
    PlaceholdersMatchFrames
    AcceptedTokensContinueTheRequest
    ComputedKVIsOwn
    CachedBlocksHoldTheirPrefix
PROPERTIES
    EveryRequestFinishes
CHECK_DEADLOCK FALSE
