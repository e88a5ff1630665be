SPECIFICATION Spec
CONSTANTS
    MaxTime = 7
    MaxChanges = 4
    NoReturn = 2
    Lead = 4
    Period = 2
    Recheck = 2
    EventCapacity = 1
    StartTimes = {2, 6}
    Timecodes = {0, 1}
    None = None
INVARIANTS
    TypeOK
PROPERTIES
    NoFalseStart
    StartsOnTime
    DronesWaitForShow
CHECK_DEADLOCK FALSE
