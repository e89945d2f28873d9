CONSTANTS
    q1 = q1
    q2 = q2
    q3 = q3
    Queues = {q1}
    Chans = {c1, c2}
    Producers = {p1}
    Src <- OneSource
    ClosingAttempts <- ProducersClose
    PanicOnTimeout = {q1}
    BufLen = 1
    MaxMsgs = 2
    LateSubscribe = FALSE
SPECIFICATION SendSpec
CHECK_DEADLOCK FALSE
PROPERTIES
    BlockedSendEnds
