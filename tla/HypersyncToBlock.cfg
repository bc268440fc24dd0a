\* Whether to_block is exclusive, as its documentation says.
CONSTANTS
    From = 1
    ToBlock = 2
    None = None
    StopOnHead = FALSE
    Offset = 1
    Depth = 1
    Prefetch = 1
    MaxHeight = 4
    MaxEpoch = 0
SPECIFICATION FairSpec
INVARIANT ToBlockExclusive
