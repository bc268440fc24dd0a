CONSTANTS
    Null = Null
    Providers = {"hypersync", "sqd", "rpc"}
    Chain <- MCChain
    EvmQueries <- MCEvmQueries
SPECIFICATION Spec
INVARIANT PushdownComplete
INVARIANT PushdownSound
INVARIANT RejectsOnlyFutile
INVARIANT FailsOnlyByDeployment
