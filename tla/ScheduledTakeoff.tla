--------------------------- MODULE ScheduledTakeoff ---------------------------
(***************************************************************************)
(* The scheduled takeoff manager of a MAVLink network: once a second it    *)
(* broadcasts the authorization and the start time of the show to the      *)
(* drones, and it configures those drones one by one whose status packets  *)
(* tell that the broadcast has not reached them.                           *)
(*                                                                         *)
(* Time is counted in seconds, by the periods of the manager; start times  *)
(* are instants in half seconds that a client has chosen and that pass at  *)
(* some moment.  Packets may be lost; what a packet does to a drone is     *)
(* modelled from the parameters that the server sets (external).           *)
(***************************************************************************)
EXTENDS Integers, Sequences, FiniteSets, FiniteSetsExt, SequencesExt

CONSTANTS
    Drones,             \* drones of the network that support scheduled takeoff
    StartTimes,         \* start times of the show, in half seconds
    Methods,            \* start methods of the show: AUTO, RC
    Individual,         \* use_individual_setup
    LimiterCapacity,    \* drones that are configured at the same time (5)
    QueueCapacity,      \* size of the queue of drones (1024)
    Cooldown,           \* seconds between attempts to configure a drone (3)
    MaxChanges,         \* bound: changes of the configuration and of the start time
    None                \* no configuration, no start time

ASSUME TakeoffAssumption ==
    /\ IsFiniteSet(Drones)
    /\ StartTimes \subseteq Nat \ {0}
    /\ Methods \subseteq {"AUTO", "RC"}
    /\ Individual \in BOOLEAN
    /\ {LimiterCapacity, QueueCapacity, Cooldown} \subseteq Nat \ {0}
    /\ MaxChanges \in Nat
    /\ None \notin Int

VARIABLES
    config,     \* the show configuration, None before the first
    startTime,  \* start time of the show clock
    passed,     \* start times that are in the past
    changes,    \* number of changes so far
    loop,       \* the main loop of the manager and the configuration it works with
    queue,      \* drones scheduled for an update
    toUpdate,   \* _uavs_to_update
    task,       \* the update of each drone, with the configuration it works with
    cooling,    \* seconds until the cooldown of each drone is over
    drone,      \* external: the parameters of each drone
    known       \* what the last status packet of each drone told

showVars == <<config, startTime, passed, changes>>
managerVars == <<loop, queue, toUpdate, task, cooling>>
vars == <<showVars, managerVars, drone, known>>

Scopes == {"NONE", "LIVE"}
Configurations == [method : Methods, scope : Scopes]
Takeoffs == [scope : Scopes, update : BOOLEAN, time : StartTimes \cup {None}]

\* SHOW_START_TIME and SHOW_START_MSEC, and the time that the server computes
\* from the former.
WholeSecond(t) == IF t = None THEN None ELSE t - (t % 2)
Whole == {WholeSecond(t) : t \in StartTimes \cup {None}}
Parameters == [scope : Scopes, second : Whole, half : 0..1]
Status == [scope : Scopes, msec : Nat \cup {None}]

TypeOK ==
    /\ config \in Configurations \cup {None}
    /\ startTime \in StartTimes \cup {None}
    /\ passed \subseteq StartTimes
    /\ changes \in 0..MaxChanges
    /\ loop \in [at : {"idle", "due", "parked"}, cfg : {None}]
            \cup [at : {"broadcasting"}, cfg : Takeoffs]
    /\ queue \in Seq(Drones) /\ Len(queue) <= QueueCapacity
    /\ toUpdate \subseteq Drones
    /\ task \in [Drones -> [at : {"none", "spawned"}, cfg : {None}]
                      \cup [at : {"second", "half", "scope"}, cfg : Takeoffs]]
    /\ cooling \in [Drones -> 0..Cooldown]
    /\ drone \in [Drones -> Parameters]
    /\ known \in [Drones -> Status]

NoTask == [at |-> "none", cfg |-> None]
Resting(place) == [at |-> place, cfg |-> None]

-----------------------------------------------------------------------------
(* Configurations.                                                         *)

\* from_show_config(): with the RC as start method, an authorized show leaves
\* the start time to the one who holds the RC.
TakeoffOf(c, t) ==
    CASE c.method = "AUTO" -> [scope |-> c.scope, update |-> TRUE, time |-> t]
      [] c.method = "RC" -> [scope |-> c.scope, update |-> c.scope = "NONE", time |-> None]

Desired == TakeoffOf(config, startTime)

\* The manager broadcasts start times in the future and the absence of one.
WorthBroadcasting(cfg) == cfg.time = None \/ cfg.time \notin passed

TimeOf(p) == IF p.second = None THEN None ELSE p.second + p.half

\* Does drone d do what cfg asks for?
Follows(d, cfg) ==
    /\ drone[d].scope = cfg.scope
    /\ cfg.update => TimeOf(drone[d]) = cfg.time

\* handle_message_drone_show_status(): the milliseconds are computed as seconds.
ReportedTime(t) == IF t = None THEN None ELSE t \div 2

StatusOf(d) == [scope |-> drone[d].scope, msec |-> ReportedTime(TimeOf(drone[d]))]

\* Broken: a drone that has the start time has the authorization as well.
NeedsUpdateOfTime(d, cfg) == cfg.update /\ known[d].msec # cfg.time

\* uav_needs_update()
NeedsUpdate(d, cfg) ==
    \/ known[d].scope # cfg.scope
    \/ cfg.update /\ known[d].msec # cfg.time

\* What a broadcast packet does to the parameters p of a drone.
Broadcasted(p, cfg) ==
    IF ~cfg.update THEN [p EXCEPT !.scope = cfg.scope]
    ELSE [scope |-> cfg.scope, second |-> WholeSecond(cfg.time),
          half |-> IF cfg.time = None THEN 0 ELSE cfg.time % 2]

\* The drones may have been configured for another show.
Init ==
    /\ config = None
    /\ startTime = None
    /\ passed = {}
    /\ changes = 0
    /\ loop = Resting("due")
    /\ queue = <<>>
    /\ toUpdate = {}
    /\ task = [d \in Drones |-> NoTask]
    /\ cooling = [d \in Drones |-> 0]
    /\ \E p \in Parameters : /\ p.second = None => p.half = 0
                             /\ drone = [d \in Drones |-> p]
    /\ known = [d \in Drones |-> StatusOf(d)]

-----------------------------------------------------------------------------
(* The show.                                                               *)

\* _trigger_uav_updates_soon()
TriggerUpdates ==
    /\ cooling' = [d \in Drones |-> 0]
    /\ UNCHANGED task

\* notify_config_changed()
ChangeConfiguration(c) ==
    /\ changes < MaxChanges
    /\ c # config
    /\ changes' = changes + 1
    /\ config' = c
    /\ loop' = IF loop.at = "parked" THEN Resting("idle") ELSE loop
    /\ TriggerUpdates
    /\ UNCHANGED <<startTime, passed, queue, toUpdate, drone, known>>

\* notify_start_time_changed()
ChangeStartTime(t) ==
    /\ changes < MaxChanges
    /\ t # startTime
    /\ changes' = changes + 1
    /\ startTime' = t
    /\ TriggerUpdates
    /\ UNCHANGED <<config, passed, loop, queue, toUpdate, drone, known>>

StartTimePasses(t) ==
    /\ t \notin passed
    /\ passed' = passed \cup {t}
    /\ UNCHANGED <<config, startTime, changes, managerVars, drone, known>>

\* A second goes by.
Tick ==
    /\ loop.at = "idle" \/ \E d \in Drones : cooling[d] > 0
    /\ loop' = IF loop.at = "idle" THEN Resting("due") ELSE loop
    /\ cooling' = [d \in Drones |-> IF cooling[d] > 0 THEN cooling[d] - 1 ELSE 0]
    /\ UNCHANGED <<showVars, queue, toUpdate, task, drone, known>>

-----------------------------------------------------------------------------
(* The main loop.                                                          *)

WaitForConfiguration ==
    /\ loop.at = "due" /\ config = None
    /\ loop' = Resting("parked")
    /\ UNCHANGED <<showVars, queue, toUpdate, task, cooling, drone, known>>

\* Broken: a drone may be scheduled while it is being updated.
CandidatesTwice(cfg) ==
    {d \in Drones : Individual /\ NeedsUpdate(d, cfg) /\ cooling[d] = 0}

\* The drones to be updated, by what the last status packets tell.
Candidates(cfg) ==
    {d \in Drones : /\ Individual
                    /\ d \notin toUpdate
                    /\ NeedsUpdate(d, cfg)
                    /\ cooling[d] = 0}

\* The scan puts them into the queue as long as there is room.
Scan(cfg) ==
    /\ \E new \in SetToAllKPermutations(Candidates(cfg)) :
          /\ Len(new) = Min({Cardinality(Candidates(cfg)), QueueCapacity - Len(queue)})
          /\ queue' = queue \o new
          /\ toUpdate' = toUpdate \cup ToSet(new)
    /\ loop' = Resting("idle")

\* The desired configuration is computed, and broadcast unless the start time
\* is in the past ...
BeginRound ==
    /\ loop.at = "due" /\ config # None
    /\ IF WorthBroadcasting(Desired)
       THEN loop' = [at |-> "broadcasting", cfg |-> Desired] /\ UNCHANGED <<queue, toUpdate>>
       ELSE Scan(Desired)
    /\ UNCHANGED <<showVars, task, cooling, drone, known>>

\* ... which takes time.  The broadcast reaches the drones in S.
FinishRound(S) ==
    /\ loop.at = "broadcasting"
    /\ drone' = [d \in Drones |-> IF d \in S THEN Broadcasted(drone[d], loop.cfg) ELSE drone[d]]
    /\ Scan(loop.cfg)
    /\ UNCHANGED <<showVars, task, cooling, known>>

-----------------------------------------------------------------------------
(* The updates of drones one by one.                                       *)

SpawnUpdate ==
    /\ queue # <<>>
    /\ queue' = Tail(queue)
    /\ task' = [task EXCEPT ![Head(queue)] = [NoTask EXCEPT !.at = "spawned"]]
    /\ UNCHANGED <<showVars, loop, toUpdate, cooling, drone, known>>

Configuring == {d \in Drones : task[d].at \in {"second", "half", "scope"}}

Done(d) ==
    /\ task' = [task EXCEPT ![d] = NoTask]
    /\ toUpdate' = toUpdate \ {d}
    /\ cooling' = [cooling EXCEPT ![d] = Cooldown]

Proceed(d, place) ==
    /\ task' = [task EXCEPT ![d].at = place]
    /\ UNCHANGED <<toUpdate, cooling>>

\* The task gets its turn, and works with the configuration of that moment.
BeginUpdate(d) ==
    /\ task[d].at = "spawned"
    /\ Cardinality(Configuring) < LimiterCapacity
    /\ IF ~Desired.update /\ Desired.scope = known[d].scope THEN Done(d)
       ELSE /\ task' = [task EXCEPT ![d] =
                           [at |-> IF Desired.update THEN "second" ELSE "scope",
                            cfg |-> Desired]]
            /\ UNCHANGED <<toUpdate, cooling>>
    /\ UNCHANGED <<showVars, loop, queue, drone, known>>

\* Broken: quotient and remainder of divmod() are swapped.
RequestedSwapped(d) ==
    LET t == task[d].cfg.time IN
    CASE task[d].at = "second" -> [drone[d] EXCEPT !.second = IF t = None THEN None ELSE t % 2]
      [] task[d].at = "half"   -> [drone[d] EXCEPT !.half = IF t = None THEN 0 ELSE WholeSecond(t)]
      [] task[d].at = "scope"  -> [drone[d] EXCEPT !.scope = task[d].cfg.scope]

\* The parameters of drone d after the request that its update is waiting for:
\* SHOW_START_TIME, SHOW_START_MSEC, which is set to the integer part of the
\* fraction of a second, and SHOW_START_AUTH.
Requested(d) ==
    CASE task[d].at = "second" -> [drone[d] EXCEPT !.second = WholeSecond(task[d].cfg.time)]
      [] task[d].at = "half"   -> [drone[d] EXCEPT !.half = 0]
      [] task[d].at = "scope"  -> [drone[d] EXCEPT !.scope = task[d].cfg.scope]

\* The request is acknowledged, and update_uav() goes on.
RequestSucceeds(d) ==
    /\ d \in Configuring
    /\ drone' = [drone EXCEPT ![d] = Requested(d)]
    /\ CASE task[d].at = "second" -> Proceed(d, "half")
         [] task[d].at = "half"   -> IF task[d].cfg.scope # known[d].scope
                                     THEN Proceed(d, "scope") ELSE Done(d)
         [] task[d].at = "scope"  -> Done(d)
    /\ UNCHANGED <<showVars, loop, queue, known>>

\* TooSlowError: the request was lost, or its acknowledgment was.
RequestTimesOut(d) ==
    /\ d \in Configuring
    /\ drone' \in {drone, [drone EXCEPT ![d] = Requested(d)]}
    /\ Done(d)
    /\ UNCHANGED <<showVars, loop, queue, known>>

\* A status packet from a drone.
ReceiveStatus(d) ==
    /\ known[d] # StatusOf(d)
    /\ known' = [known EXCEPT ![d] = StatusOf(d)]
    /\ UNCHANGED <<showVars, managerVars, drone>>

Next ==
    \/ \E c \in Configurations : ChangeConfiguration(c)
    \/ \E t \in StartTimes \cup {None} : ChangeStartTime(t)
    \/ \E t \in StartTimes : StartTimePasses(t)
    \/ Tick
    \/ WaitForConfiguration
    \/ BeginRound
    \/ \E S \in SUBSET Drones : FinishRound(S)
    \/ SpawnUpdate
    \/ \E d \in Drones : BeginUpdate(d) \/ RequestSucceeds(d) \/ RequestTimesOut(d)
    \/ \E d \in Drones : ReceiveStatus(d)

Spec == Init /\ [][Next]_vars

\* trio runs its tasks, its limiter serves those who wait in turn, and time goes
\* by; a drone whose link does not lose everything acknowledges some request
\* of those that are repeated, and sends its status.  No broadcast need arrive.
Fairness ==
    /\ WF_vars(Tick) /\ WF_vars(WaitForConfiguration)
    /\ WF_vars(BeginRound) /\ WF_vars(\E S \in SUBSET Drones : FinishRound(S))
    /\ WF_vars(SpawnUpdate)
    /\ \A d \in Drones :
        /\ SF_vars(BeginUpdate(d))
        /\ WF_vars(RequestSucceeds(d) \/ RequestTimesOut(d))
        /\ \A place \in {"second", "half", "scope"} :
                SF_vars(task[d].at = place /\ RequestSucceeds(d))
        /\ WF_vars(ReceiveStatus(d))

FairSpec == Spec /\ Fairness

-----------------------------------------------------------------------------
\* No drone is configured by two tasks at a time, and none is forgotten: the
\* drones that the scan passes over are those in the queue or being updated.
UpdatesAreTracked ==
    LET queued == ToSet(queue)
        busy == {d \in Drones : task[d].at # "none"}
    IN /\ toUpdate = queued \cup busy
       /\ queued \cap busy = {}
       /\ Cardinality(queued) = Len(queue)

\* In the end every drone does what the show wants, even if it never receives
\* a broadcast, if old updates finish after new ones have begun, and if the
\* start time has passed.
DronesFollow == \A d \in Drones : <>[](config = None \/ Follows(d, Desired))
=============================================================================
