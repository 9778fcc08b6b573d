SPECIFICATION Spec
CONSTANTS
    Users = {u1}
    Dispatcher = d
    Closure = w
    Clients = {c1}
    Contexts = {x1}
    OpenFns = {f1}
    Protocols = {p1}
    Streams = {s1}
    None = None
    MayForget = TRUE
INVARIANT ContextFreedFirst
CHECK_DEADLOCK FALSE
