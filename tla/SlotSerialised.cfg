SPECIFICATION FairSpec
CONSTANTS
    Users = {u1, u2, u3}
    Dispatchers = {d1, d2}
    Closures = {c1, c2, c3}
    None = None
    DispatchLock = TRUE
INVARIANTS
    TypeOK
    RegisteredAgrees
    SyncDispatchSeesNew
    PromisedClosure
    TeardownDestroysFirst
    NoCircularWait
PROPERTY OpsReturn
CHECK_DEADLOCK FALSE
