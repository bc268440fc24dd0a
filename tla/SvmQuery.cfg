CONSTANTS
    Null = Null
    Providers = {"sqd", "rpc"}
    Chain <- MCChain
    SvmQueries <- MCSvmQueries
SPECIFICATION Spec
INVARIANT PushdownComplete
INVARIANT PushdownSound
INVARIANT FailsOnlyByD3
INVARIANT LastBlockIsHighest
INVARIANT ColumnsServed
