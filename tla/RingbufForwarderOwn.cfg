CONSTANTS
    NRecords = 3
    Ignored = {2}
    BatchLength = 2
    BatchTimeout = TRUE
    Shared = FALSE
    Closes = TRUE
    OutCap = 1
    Cancels = TRUE
SPECIFICATION Spec
CHECK_DEADLOCK FALSE
INVARIANTS
    TypeOK
    SlotsConserved
    NothingLost
PROPERTIES
    ImplementsStream
