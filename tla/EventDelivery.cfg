SPECIFICATION FairSpec
CONSTANTS
    Threads = {t1, t2, t3}
    None = None
    Capacity = 1
    MaxPosts = 3
INVARIANTS
    DecodeReadsLive
    OneWaiter
PROPERTIES
    StreamSpec
    CallsEnd
CHECK_DEADLOCK FALSE
