\* stop_on_head: the bulk phase only.
CONSTANTS
    From = 1
    ToBlock = 4
    None = None
    StopOnHead = TRUE
    Offset = 1
    Depth = 1
    Prefetch = 2
    MaxHeight = 6
    MaxEpoch = 2
SPECIFICATION FairSpec
INVARIANT CompleteToHead
INVARIANT InductiveInv
