SPECIFICATION CallSpec
CONSTANTS
    Null = Null
    Fail = Fail
    Base = 4
    Word = 4
    Half = 2
    Batches <- SlicedBatches
    Maps <- CastMaps
    Retypes <- CastRetypes
    MaxCalls = 1
PROPERTY NullsFollowParent
