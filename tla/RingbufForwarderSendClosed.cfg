CONSTANTS
    NRecords = 1
    Ignored = {}
    BatchLength = 1
    BatchTimeout = TRUE
    Shared = FALSE
    Closes = TRUE
    OutCap = 1
    Cancels = TRUE
SPECIFICATION Spec
CHECK_DEADLOCK FALSE
INVARIANTS
    NoSendAfterClose
