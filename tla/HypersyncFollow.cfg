\* A query without to_block: the stream follows the head of the chain.
CONSTANTS
    From = 0
    ToBlock = None
    None = None
    StopOnHead = FALSE
    Offset = 2
    Depth = 2
    Prefetch = 1
    MaxHeight = 5
    MaxEpoch = 1
SPECIFICATION FairSpec
INVARIANT Contiguous
INVARIANT ReorgSafe
PROPERTY KeepsUp
