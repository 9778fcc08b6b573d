SPECIFICATION FairSpec
CONSTANTS
    Users = {u1, u2}
    Dispatcher = d
    Closure = w
    Clients = {c1}
    Contexts = {x1, x2}
    OpenFns = {f1}
    Protocols = {p1}
    Streams = {s1}
    None = None
    MayForget = TRUE
INVARIANTS
    ClosuresOutliveUse
    HandlesValid
    GoneBeforeCore
    NothingLeaks
PROPERTY TerminationEnds
CHECK_DEADLOCK FALSE
