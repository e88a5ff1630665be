\* Two missions whose notifications compete for room in the queue.
SPECIFICATION FairSpec
CONSTANTS
    Missions = {m1, m2}
    Parameters = {p1}
    NotifyCapacity = 1
    MaxTime = 2
    None = None
INVARIANTS
    TypeOK
    JobFollowsMission
    ShownOrPending
PROPERTIES
    LifeCycle
    CancelledMissionEnds
CHECK_DEADLOCK FALSE
