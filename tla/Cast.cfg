SPECIFICATION CallSpec
CONSTANTS
    Null = Null
    Fail = Fail
    Base = 4
    Word = 4
    Half = 2
    Batches <- AllBatches
    Maps <- CastMaps
    Retypes <- CastRetypes
    MaxCalls = 4
INVARIANT ValuesPreserved
INVARIANT SchemasAgree
PROPERTY NullsOnlyWhereCastFails
PROPERTY ValuesFlattened
PROPERTY FlattenedSchema
