SPECIFICATION FairSpec
CONSTANTS
    long = long
    short = short
    Logs <- TwoLogs
    Size <- Sizes
    MaxBlocks = 4
    MaxRange = 3
    QueueCapacity = 2
    Retries = 1
    None = None
INVARIANTS
    TypeOK
    ResultIsTrue
PROPERTIES
    RequestsWhatIsMissing
    EveryDownloadEnds
CHECK_DEADLOCK FALSE
