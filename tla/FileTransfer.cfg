SPECIFICATION FairTransferSpec
CONSTANTS
    show = show
    t1 = t1
    t2 = t2
    Paths <- OnePath
    Operations <- OperationsOf
    Transfers <- TwoTransfers
    Starts <- StartsOf
    Chunks = 2
    Sessions = {0}
    SeqModulus = 16
    MaxRetries = 1
    MaxRequests = 1
    MaxReplies = 1
    MaxConcurrent = 2
    Absent = Absent
INVARIANTS
    TransferTypeOK
PROPERTIES
    TransferIsTrue
    EveryTransferEnds
CHECK_DEADLOCK FALSE
