CONSTANTS
    q1 = q1
    q2 = q2
    q3 = q3
    Queues = {q1, q2, q3}
    Chans = {c1, c2}
    Producers = {p1}
    Src <- OneSource
    ClosingAttempts <- OneCloser
    PanicOnTimeout = {q1}
    BufLen = 1
    MaxMsgs = 2
    LateSubscribe = TRUE
SPECIFICATION Spec
CHECK_DEADLOCK FALSE
SYMMETRY ChanSymmetry
INVARIANTS
    GroupsAreConnected
    RoutingCoherent
    SubscribedOnce
    OrderedOnce
    DeliversToAll
