\* Two commands of up to two clients, with queues small enough to overflow.
SPECIFICATION FairSpec
CONSTANTS
    Receipts = {r1, r2}
    Clients = {c1, c2}
    OutboxCapacity = 2
    ExecutorCapacity = 1
    MaxReports = 1
INVARIANTS
    TypeOK
    ReceiptBeforeReports
    AtMostOneVerdict
    OnlySuspendedEntriesLinger
PROPERTIES
    CancelIsSilent
    ImplementsPromise
    EveryEntrySettles
    CancelStopsTheTask
CHECK_DEADLOCK FALSE
