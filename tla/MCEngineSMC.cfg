CONSTANTS
    NumBlocks = 4
    BlockSize = 2
    Requests = {r1, r2}
    Tokens = {1, 2}
    Prompt <- MCShortPrompt
    AsyncSchedulings = {TRUE, FALSE}
    EnableChunkedPrefill = TRUE
    ReserveFullISL = TRUE
    MaxNumRunningReqs = 2
    MaxNumScheduledTokens = 8
    MaxModelLen = 6
    MaxTokens <- MCFourTokens
    StopTokens = {}
    UsePowerSMC = TRUE
    KVCow = TRUE
    ParticleIdx <- MCParticleIdx
    NumParticles = 2
    SMCBlockSize = 2
    AlphaFinal = 2
    AlphaRampTokens = 1
    BaseLogp <- MCBaseLogp
    ProposalLogq <- MCProposalLogq
    AbortableRequests = {r1}
    MaxResets = 1
SPECIFICATION Spec
INVARIANTS
    QueuesMatchStatus
    PoolConsistent
    OutputIsParticle
CHECK_DEADLOCK FALSE
