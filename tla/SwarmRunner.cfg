CONSTANTS
    N = 3
    CancelTimeout = TRUE
SPECIFICATION FairSpec
CHECK_DEADLOCK FALSE
INVARIANTS
    TypeOK
    AllOrNothing
    DoneMeansStopped
    NoSendOnClosed
PROPERTIES
    DoneAnswers
    DoneCloses
