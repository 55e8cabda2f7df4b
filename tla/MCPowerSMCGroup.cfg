CONSTANTS
    NumParticles = 2
    SMCBlockSize = 2
    AlphaFinal = 3
    AlphaRampTokens = 3
    Tokens = {1, 2}
    BaseLogp <- MCBaseLogp
    ProposalLogq <- MCProposalLogq
    MaxOutputTokens = 5
SPECIFICATION Spec
INVARIANTS TypeOK BoundaryStateAvailable NoParticleBehindLastCheck WeightTelescopes
PROPERTIES ResampleOnlyCopiesPrefixes DoneParticleIsFrozen
CHECK_DEADLOCK FALSE
