SPECIFICATION Spec
CONSTANTS
    Word = 16
    I32Max = 5
    PixelSizes = {3, 4}
INVARIANTS
    WritesInside
    OnlyInvalidRefused
CHECK_DEADLOCK FALSE
