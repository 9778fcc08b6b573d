SPECIFICATION LoopFairSpec
CONSTANTS
    Users = {u1, u2}
    Dispatchers = {d1, d2}
    Closures = {c1, c2}
    None = None
    DispatchLock = TRUE
    MaxPosts = 3
INVARIANT NoLostWakeup
PROPERTY QueueDrained
CHECK_DEADLOCK FALSE
