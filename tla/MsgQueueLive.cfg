CONSTANTS
    q1 = q1
    q2 = q2
    q3 = q3
    Queues = {q1, q2}
    Chans = {c1}
    Producers = {p1, p2}
    Src <- OneSource
    ClosingAttempts <- ProducersClose
    PanicOnTimeout = {q1, q2}
    BufLen = 1
    MaxMsgs = 2
    LateSubscribe = FALSE
SPECIFICATION SendSpec
CHECK_DEADLOCK FALSE
INVARIANTS
    TypeOK
    NoSendAfterClose
PROPERTIES
    BlockedSendEnds
    CloseReachesSubscribers
