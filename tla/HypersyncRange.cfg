\* A bounded query that outlives the archive: bulk phase, then the head.
CONSTANTS
    From = 1
    ToBlock = 3
    None = None
    StopOnHead = FALSE
    Offset = 2
    Depth = 2
    Prefetch = 2
    MaxHeight = 6
    MaxEpoch = 2
SPECIFICATION FairSpec
INVARIANT TypeOK
INVARIANT Contiguous
INVARIANT ReorgSafe
INVARIANT Complete
PROPERTY NeverBack
PROPERTY StreamEnds
PROPERTY DropNoticed
PROPERTY ImplementsProviderStream
