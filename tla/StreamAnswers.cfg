SPECIFICATION Spec
CONSTANTS
    I64Max = 5
    U64Max = 11
    SizeMax = 3
    FileSize = 7
    GenericCode = 5
    UnsupportedCode = 4
    LoadingFailedCode = 3
    MaxCalls = 5
INVARIANTS
    ReadStaysInBuffer
    AnswersTrue
    Contiguous
    StreamOwned
CHECK_DEADLOCK FALSE
