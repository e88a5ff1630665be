SPECIFICATION FairSpec
CONSTANTS
    Drones = {d1}
    StartTimes = {2}
    Methods = {"AUTO", "RC"}
    Individual = TRUE
    LimiterCapacity = 1
    QueueCapacity = 1
    Cooldown = 2
    MaxChanges = 4
    None = None
INVARIANTS
    TypeOK
    UpdatesAreTracked
PROPERTIES
    DronesFollow
CHECK_DEADLOCK FALSE
