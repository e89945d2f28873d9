CONSTANTS
    NRecords = 1
    Ignored = {}
    BatchLength = 2
    BatchTimeout = TRUE
    Shared = TRUE
    Closes = FALSE
    OutCap = 1
    Cancels = TRUE
SPECIFICATION FairSpec
CHECK_DEADLOCK FALSE
INVARIANTS
    ReaderOpenWhenUsed
    ClosedOnReturn
PROPERTIES
    EventuallyForwarded
    ShutdownCompletes
