SPECIFICATION FairSpec
CONSTANTS
    Connections = {x1}
    Clients = {k1}
    States = {"connected", "disconnected", "connecting"}
    RequestCapacity = 2
    OutboxCapacity = 1
    MaxChanges = 4
    None = None
INVARIANTS
    TypeOK
    LastReportIsTrue
    EveryoneIsTold
PROPERTIES
    ClientsLearn
CHECK_DEADLOCK FALSE
