SPECIFICATION SpecOwed
CONSTANTS
    Threads = {t1, t2}
    None = None
    Capacity = 1
    MaxPosts = 1
PROPERTY WakeupInterruptsWait
CHECK_DEADLOCK FALSE
