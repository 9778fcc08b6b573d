SPECIFICATION CodecSpec
CONSTANTS
    CIntSize = 8
    Contents = {"text", "nul"}
    WithNul = {"nul"}
    MaxItems = 2
    MaxDepth = 2
    MaxLong = 9
    Trees <- MCTrees
INVARIANTS
    PointersOwned
    LengthsBounded
    NulRefused
    RoundTrip
CHECK_DEADLOCK FALSE
