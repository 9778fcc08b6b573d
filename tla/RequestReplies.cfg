SPECIFICATION FairSpec
CONSTANTS
    Threads = {t1, t2}
    Requests = {r1, r2}
    UserData = {n1, n2}
    Formats = {"string", "node"}
    Failures = {1, 99}
    None = None
INVARIANTS
    ResultsOwned
    AnswersTrue
    OneReply
    RepliesTrue
PROPERTIES
    CallsReturn
    RepliesArrive
CHECK_DEADLOCK FALSE
