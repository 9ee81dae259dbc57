SPECIFICATION EvaluationSpec
CONSTANTS
    Texts <- MCTexts
    Empty = ""
    Blank <- MCBlank
    NumberIn <- MCNumberIn
    VersionIn <- MCVersionIn
    DateIn <- MCDateIn
    StartsWith <- MCStartsWith
    EndsWith <- MCEndsWith
    Spelling <- MCSpelling
    BooleanIn <- MCBooleanIn
    JsonIn <- MCJsonIn
    JsonTextOf <- MCJsonTextOf
    UnsafeIntegers <- MCUnsafeIntegers
    KindTexts <- MCKindTexts
    Inputs <- MCInputs
    Buckets = 4
INVARIANTS
    ServesFirstServing
    OnlyUsedSegmentsMatter
    CutsAreExact
    ValuesAreKept
CHECK_DEADLOCK FALSE
