CONSTANTS
    NumBlocks = 4
    BlockSize = 1
    Requests = {r1, r2}
    Tokens = {1, 2}
    Prompt <- MCShortPrompt
    AsyncSchedulings = {FALSE}
    EnableChunkedPrefill = TRUE
    ReserveFullISL = TRUE
    MaxNumRunningReqs = 2
    MaxNumScheduledTokens = 8
    MaxModelLen = 4
    MaxTokens <- MCThreeTokens
    StopTokens = {}
    UsePowerSMC = TRUE
    KVCow = TRUE
    ParticleIdx <- MCParticleIdx
    NumParticles = 2
    SMCBlockSize = 2
    AlphaFinal = 2
    AlphaRampTokens = 1
    BaseLogp <- MCBaseLogp
    ProposalLogq <- MCProposalLogq
    AbortableRequests = {}
    MaxResets = 0
SPECIFICATION Spec
INVARIANT IdleEngineAdmits
CHECK_DEADLOCK FALSE
