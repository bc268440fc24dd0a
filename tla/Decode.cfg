CONSTANTS
    Null = Null
    Fail = Fail
    Bad = Bad
    Base = 4
    Word = 4
    Half = 3
    Natives = {2, 3}
    HalfBits = 6
    MaxTopics = 3
    Jobs <- EvmAll
    LenSize = 2
    Direct = 2
SPECIFICATION DecodeSpec
INVARIANT EvmRowsFaithful
INVARIANT EvmSchemaPredicted
INVARIANT EvmFailsByRowOrShape
INVARIANT SvmRowsFaithful
INVARIANT SvmSchemaPredicted
INVARIANT SvmFailsByRowOrShape
