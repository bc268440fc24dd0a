CONSTANTS
    Null = Null
    Datasets <- MCDatasets
    Queries <- MCQueries
SPECIFICATION Spec
INVARIANT Sound
INVARIANT CompleteButNulls
INVARIANT FailsByInput
