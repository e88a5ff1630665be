------------------------------ MODULE Missions ------------------------------
(***************************************************************************)
(* The missions extension: the life of a mission as the X-MSN- requests of *)
(* clients change it, the scheduler task that keeps a job for every        *)
(* mission that is due to start, and the notifier task that tells the      *)
(* clients about changes.                                                  *)
(*                                                                         *)
(* Signals are synchronous: a handler runs to its end, with the scheduler  *)
(* task and the notifier task updated at every signal it sends.  The       *)
(* scheduler itself is a library: it starts a job when its time has come,  *)
(* refuses late jobs unless told otherwise, and a cancelled job does not   *)
(* start or gets a Cancelled exception.  Time is counted in steps.         *)
(***************************************************************************)
EXTENDS Naturals, Sequences

CONSTANTS
    Missions,        \* mission identifiers
    Parameters,      \* parameters that a mission can be given
    NotifyCapacity,  \* room in the queue of the notifier (16)
    MaxTime,         \* bound: the last instant
    None             \* a model value: no start time, no parameters

ASSUME ConstantsAssumption ==
    /\ NotifyCapacity \in Nat
    /\ MaxTime \in Nat
    /\ None \notin Nat

VARIABLES
    now,       \* current time
    mission,   \* the attributes of each mission
    job,       \* what _missions_to_jobs and the scheduler hold for each mission
    runner,    \* the task that executes the mission
    pending,   \* queue of the notifier: missions that have changed
    outdated,  \* missions that changed since an MSN-INF notification showed them
    missed,    \* history: a notification of the mission found the queue full
    meddled    \* history: a cancelled mission was revoked or rescheduled

vars == <<now, mission, job, runner, pending, outdated, missed, meddled>>

-----------------------------------------------------------------------------
Finished == {"cancelled", "successful", "failed"}
States == {"new", "authorized", "ongoing"} \cup Finished
StartTimes == 0..MaxTime \cup {None}

NoJob == [due |-> None]
NewMission == [state |-> "new", parameters |-> None, startsAt |-> None, late |-> FALSE,
               cancelRequested |-> FALSE]

NotStartedYet(m) == mission[m].state \in {"new", "authorized"}
Started(x) == x.state = "ongoing" \/ x.state \in Finished

\* The part of a mission that its JSON representation shows.
Visible(x) == [state |-> x.state, parameters |-> x.parameters, startsAt |-> x.startsAt]

Init ==
    /\ now = 0
    /\ mission = [m \in Missions |-> NewMission]
    /\ job = [m \in Missions |-> NoJob]
    /\ runner = [m \in Missions |-> "none"]
    /\ pending = <<>>
    /\ outdated = {} /\ missed = {} /\ meddled = {}

-----------------------------------------------------------------------------
(* What happens when a mission sends its signals.                          *)

\* Broken: a queue without bounds.
NotifyUpdatedUnbounded(m, n) ==
    /\ pending' = pending \o [i \in 1..n |-> m]
    /\ UNCHANGED missed

\* notify_updated() of mission m, n times.
NotifyUpdated(m, n) ==
    LET room == NotifyCapacity - Len(pending) IN
    /\ pending' = pending \o [i \in 1..(IF n <= room THEN n ELSE room) |-> m]
    /\ missed' = IF n > room THEN missed \cup {m} ELSE missed

\* The scheduler refuses a job whose start time is over.
IsLate(x) == x.startsAt < now /\ ~x.late

\* Broken: leaves the job alone if there is one.
UpdatedJobOnce(x, j) ==
    IF j # NoJob THEN j
    ELSE IF x.state # "authorized" \/ x.startsAt = None \/ IsLate(x) THEN NoJob
    ELSE [due |-> x.startsAt]

\* Broken: does not cancel the job of a running mission.
UpdatedJobWhileRunning(x, j) ==
    IF x.state \in Finished \/ x.state = "new" \/ x.startsAt = None THEN NoJob
    ELSE IF x.state = "ongoing" THEN j
    ELSE IF IsLate(x) THEN NoJob
    ELSE [due |-> x.startsAt]

\* _update_mission_in_scheduler(): the job of a mission with attributes x.
UpdatedJob(x, j) ==
    IF x.state \in Finished \/ x.state = "new" \/ x.startsAt = None THEN NoJob
    ELSE IF x.state = "ongoing" THEN (IF x.cancelRequested THEN NoJob ELSE j)
    ELSE IF IsLate(x) THEN NoJob
    ELSE [due |-> x.startsAt]

\* A handler leaves mission m with attributes x and job j, having sent n
\* on_updated signals.
Becomes(m, x, j, n) ==
    /\ mission' = [mission EXCEPT ![m] = x]
    /\ job' = [job EXCEPT ![m] = j]
    /\ outdated' = IF Visible(x) = Visible(mission[m]) THEN outdated ELSE outdated \cup {m}
    /\ NotifyUpdated(m, n)

Authorized(x) == [x EXCEPT !.state = "authorized"]

\* start_now() of mission m when cancelRequested is c: the start time is the
\* current one, which differs from every earlier one, and the authorization is
\* a second change unless there is one already.
StartNow(m, c) ==
    LET x == [mission[m] EXCEPT !.late = TRUE, !.startsAt = now, !.cancelRequested = c]
    IN  Becomes(m, Authorized(x), UpdatedJob(Authorized(x), job[m]),
                IF x.state = "new" THEN 2 ELSE 1)

-----------------------------------------------------------------------------
(* Requests of clients.                                                    *)

\* X-MSN-PARAM
UpdateParameters(m, p) ==
    /\ mission[m].state = "new"
    /\ Becomes(m, [mission[m] EXCEPT !.parameters = p], job[m], 1)
    /\ UNCHANGED <<now, runner, meddled>>

\* X-MSN-AUTH
Authorize(m) ==
    /\ NotStartedYet(m)
    /\ IF mission[m].state = "new"
       THEN LET x == Authorized(mission[m]) IN Becomes(m, x, UpdatedJob(x, job[m]), 1)
       ELSE UNCHANGED <<mission, job, pending, outdated, missed>>
    /\ UNCHANGED <<now, runner, meddled>>

Revoke(m) ==
    /\ NotStartedYet(m)
    /\ IF mission[m].state = "authorized"
       THEN LET x == [mission[m] EXCEPT !.state = "new"]
            IN  Becomes(m, x, UpdatedJob(x, job[m]), 1)
       ELSE UNCHANGED <<mission, job, pending, outdated, missed>>
    /\ meddled' = IF mission[m].cancelRequested THEN meddled \cup {m} ELSE meddled
    /\ UNCHANGED <<now, runner>>

\* X-MSN-SCHED
Schedule(m, t) ==
    /\ NotStartedYet(m)
    /\ IF mission[m].startsAt # t
       THEN LET x == [mission[m] EXCEPT !.startsAt = t] IN Becomes(m, x, UpdatedJob(x, job[m]), 1)
       ELSE UNCHANGED <<mission, job, pending, outdated, missed>>
    /\ meddled' = IF mission[m].cancelRequested THEN meddled \cup {m} ELSE meddled
    /\ UNCHANGED <<now, runner>>

\* X-MSN-START
Start(m) ==
    /\ NotStartedYet(m)
    /\ StartNow(m, mission[m].cancelRequested)
    /\ UNCHANGED <<now, runner, meddled>>

\* X-MSN-CANCEL: a mission that has not started is started, to end at once.
Cancel(m) ==
    /\ ~mission[m].cancelRequested
    /\ \/ /\ NotStartedYet(m)
          /\ StartNow(m, TRUE)
          /\ UNCHANGED runner
       \/ /\ Started(mission[m])
          /\ LET x == [mission[m] EXCEPT !.cancelRequested = TRUE]
             IN  Becomes(m, x, UpdatedJob(x, job[m]), 0)
          /\ runner' = IF runner[m] = "running" /\ job'[m] = NoJob
                       THEN [runner EXCEPT ![m] = "interrupted"]
                       ELSE runner
    /\ UNCHANGED <<now, meddled>>

-----------------------------------------------------------------------------
(* The scheduler and the task of a mission.                                *)

\* Broken: runs a mission that was cancelled before it could start.
RunMissionRegardless(m) ==
    /\ job[m] # NoJob
    /\ runner[m] = "none"
    /\ job[m].due <= now
    /\ mission[m].state = "authorized"
    /\ Becomes(m, [mission[m] EXCEPT !.state = "ongoing"], job[m], 1)
    /\ runner' = [runner EXCEPT ![m] = "running"]
    /\ UNCHANGED <<now, meddled>>

\* Mission.run() up to the first checkpoint of _run(), or to the end if the
\* mission was cancelled before.
RunMission(m) ==
    /\ job[m] # NoJob
    /\ runner[m] = "none"
    /\ job[m].due <= now
    /\ mission[m].state = "authorized"
    /\ \/ /\ ~mission[m].cancelRequested
          /\ Becomes(m, [mission[m] EXCEPT !.state = "ongoing"], job[m], 1)
          /\ runner' = [runner EXCEPT ![m] = "running"]
       \/ /\ mission[m].cancelRequested
          /\ Becomes(m, [mission[m] EXCEPT !.state = "cancelled"], job[m], 1)
          /\ runner' = [runner EXCEPT ![m] = "over"]
    /\ UNCHANGED <<now, meddled>>

\* _run() returns or raises an error.
RunEnds(m) ==
    /\ runner[m] \in {"running", "interrupted"}
    /\ runner' = [runner EXCEPT ![m] = "over"]
    /\ \E end \in {IF mission[m].cancelRequested THEN "cancelled" ELSE "successful", "failed"} :
          Becomes(m, [mission[m] EXCEPT !.state = end], job[m], 1)
    /\ UNCHANGED <<now, meddled>>

\* Broken: does not tell anybody.
RunIsCancelledSilently(m) ==
    /\ runner[m] = "interrupted"
    /\ runner' = [runner EXCEPT ![m] = "over"]
    /\ Becomes(m, [mission[m] EXCEPT !.state = "cancelled"], job[m], 0)
    /\ UNCHANGED <<now, meddled>>

\* Cancelled is raised where _run() waits.
RunIsCancelled(m) ==
    /\ runner[m] = "interrupted"
    /\ runner' = [runner EXCEPT ![m] = "over"]
    /\ Becomes(m, [mission[m] EXCEPT !.state = "cancelled"], job[m], 1)
    /\ UNCHANGED <<now, meddled>>

\* The notifier broadcasts what the mission is like by now.
BroadcastUpdate ==
    /\ pending # <<>>
    /\ pending' = Tail(pending)
    /\ LET m == Head(pending) IN
       /\ outdated' = outdated \ {m}
       /\ missed' = missed \ {m}
    /\ UNCHANGED <<now, mission, job, runner, meddled>>

Tick ==
    /\ now < MaxTime
    /\ now' = now + 1
    /\ UNCHANGED <<mission, job, runner, pending, outdated, missed, meddled>>

Next ==
    \/ \E m \in Missions :
          \/ Authorize(m) \/ Revoke(m) \/ Start(m) \/ Cancel(m)
          \/ \E t \in StartTimes : Schedule(m, t)
          \/ \E p \in Parameters : UpdateParameters(m, p)
          \/ RunMission(m) \/ RunEnds(m) \/ RunIsCancelled(m)
    \/ BroadcastUpdate
    \/ Tick

Spec == Init /\ [][Next]_vars

\* Time passes, the scheduler starts the jobs that are due and delivers
\* cancellations.  Nothing is assumed of clients and of the code of missions.
Fairness ==
    /\ WF_vars(Tick)
    /\ \A m \in Missions : WF_vars(RunMission(m)) /\ WF_vars(RunIsCancelled(m))

FairSpec == Spec /\ Fairness

-----------------------------------------------------------------------------
(* Properties.                                                             *)

TypeOK ==
    /\ now \in 0..MaxTime
    /\ mission \in [Missions -> [state : States, parameters : Parameters \cup {None},
                                startsAt : StartTimes, late : BOOLEAN, cancelRequested : BOOLEAN]]
    /\ job \in [Missions -> [due : StartTimes]]
    /\ runner \in [Missions -> {"none", "running", "interrupted", "over"}]
    /\ pending \in Seq(Missions) /\ Len(pending) <= NotifyCapacity
    /\ outdated \subseteq Missions /\ missed \subseteq Missions /\ meddled \subseteq Missions

\* The scheduler agrees with the missions: a job that waits belongs to a
\* mission that is authorized, and is due when that mission says, and a mission
\* that is authorized to start later on has a job.
JobFollowsMission ==
    \A m \in Missions : runner[m] = "none" =>
        /\ job[m] # NoJob => mission[m].state = "authorized" /\ job[m].due = mission[m].startsAt
        /\ (mission[m].state = "authorized" /\ mission[m].startsAt \in now..MaxTime) => job[m] # NoJob

\* Clients have been shown what a mission is like, or a notification is on
\* its way, or one was dropped because the queue of the notifier was full.
ShownOrPending ==
    \A m \in outdated : m \in missed \/ \E i \in DOMAIN pending : pending[i] = m

\* A mission starts once, never before the start time that it was last given,
\* with the parameters it was authorized with, and never after a request to
\* cancel it; how it ended is not changed any more.
LifeCycle ==
    [][\A m \in Missions :
          LET x == mission[m] y == mission'[m] IN
          /\ x.state # "ongoing" /\ y.state = "ongoing" =>
                x.state = "authorized" /\ ~x.cancelRequested /\ x.startsAt <= now
          /\ x.parameters # y.parameters => x.state = "new" /\ y.state = "new"
          /\ x.state \in Finished => Visible(x) = Visible(y)
          /\ x.cancelRequested => y.cancelRequested]_vars

\* A cancelled mission ends, whether it had started or not, if nobody changes
\* its authorization or start time after the cancellation.
CancelledMissionEnds ==
    \A m \in Missions :
        mission[m].cancelRequested ~> (mission[m].state \in Finished \/ m \in meddled)
=============================================================================
