CONSTANTS
    NumBlocks = 3
    BlockSize = 2
    Requests = {r1, r2}
    Tokens = {1, 2}
    Prompt <- MCPrompt
    MaxSeqLen = 4
    ResampleLengths = {3}
    EvictableBlocks = {1}
SPECIFICATION Spec
INVARIANTS PoolConsistent CachedBlocksHoldTheirPrefix ComputedKVIsOwn
PROPERTY ImplementsKVBlocks
SYMMETRY MCSymmetry
VIEW MCView
