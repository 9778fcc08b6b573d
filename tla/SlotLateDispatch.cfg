SPECIFICATION Spec
CONSTANTS
    Users = {u1, u2}
    Dispatchers = {d1, d2}
    Closures = {c1, c2, c3}
    None = None
    DispatchLock = FALSE
SYMMETRY Symmetry
INVARIANTS
    SlotMemoryValid
    NoUseAfterRelease
    NothingLeaks
    UserCodeUnlocked
PROPERTY CellSpec
CHECK_DEADLOCK FALSE
