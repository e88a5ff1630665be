----------------------------- MODULE MissionsProofs -----------------------------
(***************************************************************************)
(* Safety of the missions extension for any set of missions, any capacity  *)
(* of the queue of the notifier and any number of instants.                *)
(***************************************************************************)
EXTENDS Missions, SequenceTheorems, TLAPS

(* The inductive invariant.                                                *)

Attributes == [state : States, parameters : Parameters \cup {None}, startsAt : StartTimes,
               late : BOOLEAN, cancelRequested : BOOLEAN]
Jobs == [due : StartTimes]
Runners == {"none", "running", "interrupted", "over"}

\* The task of a mission with attributes x is what its state says: this is
\* what keeps an ended mission as it is.
RunnerFits(x, r) ==
    /\ r = "none" <=> x.state \in {"new", "authorized"}
    /\ r = "over" <=> x.state \in Finished

\* A job j that waits is wanted, and a job that is wanted is there.
JobFits(x, j, r) ==
    r = "none" =>
        /\ j # NoJob => x.state = "authorized" /\ j.due = x.startsAt
        /\ (x.state = "authorized" /\ x.startsAt \in now..MaxTime) => j # NoJob

MissionFits(x, j, r) ==
    /\ x \in Attributes /\ j \in Jobs /\ r \in Runners
    /\ RunnerFits(x, r) /\ JobFits(x, j, r)

Tables ==
    /\ mission \in [Missions -> Attributes]
    /\ job \in [Missions -> Jobs]
    /\ runner \in [Missions -> Runners]

IInv ==
    /\ TypeOK
    /\ \A m \in Missions : RunnerFits(mission[m], runner[m])
    /\ JobFollowsMission
    /\ ShownOrPending

-----------------------------------------------------------------------------
LEMMA TypesAsTables == TypeOK <=> /\ Tables
                                  /\ now \in 0..MaxTime
                                  /\ pending \in Seq(Missions) /\ Len(pending) <= NotifyCapacity
                                  /\ outdated \subseteq Missions /\ missed \subseteq Missions
                                  /\ meddled \subseteq Missions
BY DEF TypeOK, Tables, Attributes, Jobs, Runners

LEMMA EveryMissionFits ==
    ASSUME IInv, NEW m \in Missions
    PROVE  MissionFits(mission[m], job[m], runner[m])
BY TypesAsTables DEF IInv, Tables, MissionFits, JobFits, JobFollowsMission

\* notify_updated() leaves a notification of m behind, or takes down that one
\* was dropped; the others stay.
LEMMA NotifyEffect ==
    ASSUME NEW m \in Missions, NEW n \in Nat, NotifyUpdated(m, n),
           pending \in Seq(Missions), Len(pending) <= NotifyCapacity, missed \subseteq Missions
    PROVE  /\ pending' \in Seq(Missions) /\ Len(pending') <= NotifyCapacity
           /\ missed' \subseteq Missions /\ missed \subseteq missed'
           /\ \A i \in DOMAIN pending : i \in DOMAIN pending' /\ pending'[i] = pending[i]
           /\ n >= 1 => m \in missed' \/ \E i \in DOMAIN pending' : pending'[i] = m
<1> DEFINE room == NotifyCapacity - Len(pending)
           k == IF n <= room THEN n ELSE room
           new == [i \in 1..k |-> m]
<1>1. Len(pending) \in Nat /\ room \in Nat /\ k \in Nat /\ k <= room
    BY ConstantsAssumption
<1>2. new \in Seq(Missions) /\ Len(new) = k
    BY <1>1
<1>3. pending' = pending \o new /\ missed' = IF n > room THEN missed \cup {m} ELSE missed
    BY DEF NotifyUpdated
<1> HIDE DEF new, k
<1>4. /\ pending' \in Seq(Missions)
      /\ Len(pending') = Len(pending) + k
      /\ \A i \in 1 .. Len(pending') :
            pending'[i] = IF i <= Len(pending) THEN pending[i] ELSE new[i - Len(pending)]
    BY <1>1, <1>2, <1>3, ConcatProperties
<1>5. ASSUME n >= 1, n <= room
      PROVE  \E i \in DOMAIN pending' : pending'[i] = m
    <2>1. k = n
        BY <1>5 DEF k
    <2>2. Len(pending) + 1 \in DOMAIN pending'
        BY <1>1, <1>4, <1>5, <2>1
    <2>3. new[1] = m
        BY <1>5, <2>1 DEF new
    <2>4. pending'[Len(pending) + 1] = new[1]
        BY <1>1, <1>4, <2>2
    <2> QED BY <2>2, <2>3, <2>4
<1>6. \A i \in DOMAIN pending : i \in DOMAIN pending' /\ pending'[i] = pending[i]
    BY <1>1, <1>4
<1> QED BY <1>1, <1>3, <1>4, <1>5, <1>6, ConstantsAssumption

\* A handler or the task of a mission m leaves it with the attributes x, the
\* job j and the task r, and tells the clients if they can see the change.
LEMMA ChangeKeepsInv ==
    ASSUME IInv, NEW m \in Missions, NEW x, NEW j, NEW r, NEW n \in Nat,
           MissionFits(x, j, r),
           Becomes(m, x, j, n),
           runner' = [runner EXCEPT ![m] = r],
           n >= 1 \/ Visible(x) = Visible(mission[m]),
           now' = now, meddled' \subseteq Missions
    PROVE  IInv'
<1>1. /\ Tables /\ pending \in Seq(Missions) /\ Len(pending) <= NotifyCapacity
      /\ outdated \subseteq Missions /\ missed \subseteq Missions /\ now \in 0..MaxTime
    BY TypesAsTables DEF IInv
<1>2. /\ mission' = [mission EXCEPT ![m] = x] /\ job' = [job EXCEPT ![m] = j]
      /\ outdated' \subseteq outdated \cup {m}
      /\ n < 1 => outdated' = outdated
      /\ NotifyUpdated(m, n)
    BY DEF Becomes
<1>3. /\ pending' \in Seq(Missions) /\ Len(pending') <= NotifyCapacity
      /\ missed' \subseteq Missions /\ missed \subseteq missed'
      /\ \A i \in DOMAIN pending : i \in DOMAIN pending' /\ pending'[i] = pending[i]
      /\ n >= 1 => m \in missed' \/ \E i \in DOMAIN pending' : pending'[i] = m
    BY <1>1, <1>2, NotifyEffect
<1>4. Tables'
    BY <1>1, <1>2 DEF Tables, MissionFits
<1>5. TypeOK'
    <2>1. outdated' \subseteq Missions
        BY <1>1, <1>2
    <2> QED BY <1>1, <1>3, <1>4, <2>1 DEF TypeOK, Tables, Attributes, Jobs, Runners
<1>6. \A o \in Missions : RunnerFits(mission'[o], runner'[o])
    BY <1>1, <1>2 DEF IInv, Tables, MissionFits
<1>7. JobFollowsMission'
    BY <1>1, <1>2 DEF IInv, Tables, MissionFits, JobFits, JobFollowsMission
<1>8. ShownOrPending'
    <2> SUFFICES ASSUME NEW o \in outdated'
                 PROVE  o \in missed' \/ \E i \in DOMAIN pending' : pending'[i] = o
        BY DEF ShownOrPending
    <2>1. CASE o \in outdated
        BY <2>1, <1>3 DEF IInv, ShownOrPending
    <2>2. CASE o \notin outdated
        BY <2>2, <1>2, <1>3
    <2> QED BY <2>1, <2>2
<1> QED BY <1>5, <1>6, <1>7, <1>8 DEF IInv

\* _update_mission_in_scheduler() leaves the right job for a mission that has
\* not started.
LEMMA UpdatedJobFits ==
    ASSUME NEW x \in Attributes, x.state \in {"new", "authorized"}, NEW j \in Jobs,
           now \in 0..MaxTime
    PROVE  MissionFits(x, UpdatedJob(x, j), "none")
<1>1. None \notin 0..MaxTime /\ x.startsAt \in StartTimes
    BY ConstantsAssumption DEF Attributes
<1>2. UpdatedJob(x, j) \in Jobs
    BY <1>1 DEF UpdatedJob, Finished, Jobs, NoJob, StartTimes
<1>3. JobFits(x, UpdatedJob(x, j), "none")
    <2>1. CASE x.state = "new" \/ x.startsAt = None
        BY <2>1, <1>1 DEF UpdatedJob, JobFits, Finished
    <2>2. CASE x.state = "authorized" /\ x.startsAt # None /\ IsLate(x)
        BY <2>2, <1>1, ConstantsAssumption DEF UpdatedJob, JobFits, IsLate, Finished, StartTimes
    <2>3. CASE x.state = "authorized" /\ x.startsAt # None /\ ~IsLate(x)
        BY <2>3, <1>1 DEF UpdatedJob, JobFits, NoJob, Finished
    <2> QED BY <2>1, <2>2, <2>3
<1> QED BY <1>2, <1>3 DEF MissionFits, RunnerFits, Runners, Finished

-----------------------------------------------------------------------------
(* The actions.                                                            *)

\* A request that finds nothing to change.
LEMMA NothingToChange ==
    ASSUME IInv, UNCHANGED <<now, mission, job, runner, pending, outdated, missed>>,
           meddled' \subseteq Missions
    PROVE  IInv'
BY DEF IInv, TypeOK, RunnerFits, JobFollowsMission, ShownOrPending

\* What the records of a mission that has not started have in common.
LEMMA NotStarted ==
    ASSUME IInv, NEW m \in Missions, NotStartedYet(m)
    PROVE  /\ mission[m] \in Attributes /\ job[m] \in Jobs /\ now \in 0..MaxTime
           /\ runner[m] = "none"
           /\ runner = [runner EXCEPT ![m] = "none"]
BY TypesAsTables DEF IInv, Tables, RunnerFits, NotStartedYet

\* A mission that has not started gets new attributes, and its job follows.
LEMMA RequestKeepsInv ==
    ASSUME IInv, NEW m \in Missions, NotStartedYet(m),
           NEW x \in Attributes, x.state \in {"new", "authorized"}, NEW n \in Nat, n >= 1,
           Becomes(m, x, UpdatedJob(x, job[m]), n),
           UNCHANGED <<now, runner>>, meddled' \subseteq Missions
    PROVE  IInv'
BY NotStarted, UpdatedJobFits, ChangeKeepsInv

LEMMA UpdateParametersKeepsInv ==
    ASSUME IInv, NEW m \in Missions, NEW p \in Parameters, UpdateParameters(m, p)
    PROVE  IInv'
<1> DEFINE x == [mission[m] EXCEPT !.parameters = p]
<1>1. NotStartedYet(m) /\ mission[m].state = "new"
    BY DEF UpdateParameters, NotStartedYet
<1>2. MissionFits(mission[m], job[m], runner[m])
    BY EveryMissionFits
<1>3. /\ x \in Attributes /\ x.state = mission[m].state /\ x.startsAt = mission[m].startsAt
    BY <1>2 DEF MissionFits, Attributes
<1>4. MissionFits(x, job[m], "none")
    BY <1>1, <1>2, <1>3, NotStarted DEF MissionFits, RunnerFits, JobFits
<1>5. meddled' \subseteq Missions
    BY DEF UpdateParameters, IInv, TypeOK
<1> HIDE DEF x
<1>6. Becomes(m, x, job[m], 1) /\ UNCHANGED <<now, runner>>
    BY DEF UpdateParameters, x
<1> QED BY <1>1, <1>4, <1>5, <1>6, NotStarted, ChangeKeepsInv

LEMMA AuthorizeKeepsInv ==
    ASSUME IInv, NEW m \in Missions, Authorize(m)
    PROVE  IInv'
<1>1. NotStartedYet(m) /\ UNCHANGED <<now, runner>> /\ meddled' \subseteq Missions
    BY DEF Authorize, IInv, TypeOK
<1>2. CASE mission[m].state = "new"
    <2>1. Authorized(mission[m]) \in Attributes /\ Authorized(mission[m]).state = "authorized"
        BY <1>1, NotStarted DEF Authorized, Attributes, States
    <2>2. Becomes(m, Authorized(mission[m]), UpdatedJob(Authorized(mission[m]), job[m]), 1)
        BY <1>2 DEF Authorize
    <2> QED BY <1>1, <2>1, <2>2, RequestKeepsInv
<1>3. CASE mission[m].state # "new"
    BY <1>1, <1>3, NothingToChange DEF Authorize
<1> QED BY <1>2, <1>3

LEMMA RevokeKeepsInv ==
    ASSUME IInv, NEW m \in Missions, Revoke(m)
    PROVE  IInv'
<1>1. NotStartedYet(m) /\ UNCHANGED <<now, runner>> /\ meddled' \subseteq Missions
    BY DEF Revoke, IInv, TypeOK
<1>2. CASE mission[m].state = "authorized"
    <2> DEFINE x == [mission[m] EXCEPT !.state = "new"]
    <2>1. x \in Attributes /\ x.state = "new"
        BY <1>1, NotStarted DEF Attributes, States
    <2>2. Becomes(m, x, UpdatedJob(x, job[m]), 1)
        BY <1>2 DEF Revoke
    <2> HIDE DEF x
    <2> QED BY <1>1, <2>1, <2>2, RequestKeepsInv
<1>3. CASE mission[m].state # "authorized"
    BY <1>1, <1>3, NothingToChange DEF Revoke
<1> QED BY <1>2, <1>3

LEMMA ScheduleKeepsInv ==
    ASSUME IInv, NEW m \in Missions, NEW t \in StartTimes, Schedule(m, t)
    PROVE  IInv'
<1>1. NotStartedYet(m) /\ UNCHANGED <<now, runner>> /\ meddled' \subseteq Missions
    BY DEF Schedule, IInv, TypeOK
<1>2. CASE mission[m].startsAt # t
    <2> DEFINE x == [mission[m] EXCEPT !.startsAt = t]
    <2>1. x \in Attributes /\ x.state \in {"new", "authorized"}
        BY <1>1, NotStarted DEF Attributes, NotStartedYet
    <2>2. Becomes(m, x, UpdatedJob(x, job[m]), 1)
        BY <1>2 DEF Schedule
    <2> HIDE DEF x
    <2> QED BY <1>1, <2>1, <2>2, RequestKeepsInv
<1>3. CASE mission[m].startsAt = t
    BY <1>1, <1>3, NothingToChange DEF Schedule
<1> QED BY <1>2, <1>3

LEMMA StartNowKeepsInv ==
    ASSUME IInv, NEW m \in Missions, NotStartedYet(m), NEW c \in BOOLEAN, StartNow(m, c),
           UNCHANGED <<now, runner>>, meddled' \subseteq Missions
    PROVE  IInv'
<1> DEFINE x == [mission[m] EXCEPT !.late = TRUE, !.startsAt = now, !.cancelRequested = c]
           n == IF x.state = "new" THEN 2 ELSE 1
<1>1. Authorized(x) \in Attributes /\ Authorized(x).state = "authorized"
    BY NotStarted DEF Authorized, Attributes, States, StartTimes
<1>2. Becomes(m, Authorized(x), UpdatedJob(Authorized(x), job[m]), n)
    BY DEF StartNow
<1>3. n \in Nat /\ n >= 1
    OBVIOUS
<1> HIDE DEF x, n
<1> QED BY <1>1, <1>2, <1>3, RequestKeepsInv

LEMMA StartKeepsInv ==
    ASSUME IInv, NEW m \in Missions, Start(m)
    PROVE  IInv'
<1>1. NotStartedYet(m) /\ UNCHANGED <<now, runner>> /\ meddled' \subseteq Missions
    BY DEF Start, IInv, TypeOK
<1>2. mission[m].cancelRequested \in BOOLEAN
    BY <1>1, NotStarted DEF Attributes
<1> QED BY <1>1, <1>2, StartNowKeepsInv DEF Start

\* A cancelled mission that has started keeps the state it shows.
LEMMA CancelKeepsInv ==
    ASSUME IInv, NEW m \in Missions, Cancel(m)
    PROVE  IInv'
<1>1. UNCHANGED now /\ meddled' \subseteq Missions
    BY DEF Cancel, IInv, TypeOK
<1>2. CASE NotStartedYet(m) /\ StartNow(m, TRUE) /\ UNCHANGED runner
    BY <1>1, <1>2, StartNowKeepsInv
<1>3. CASE ~(NotStartedYet(m) /\ StartNow(m, TRUE) /\ UNCHANGED runner)
    <2> DEFINE x == [mission[m] EXCEPT !.cancelRequested = TRUE]
               j == UpdatedJob(x, job[m])
               r == IF runner[m] = "running" /\ job'[m] = NoJob THEN "interrupted" ELSE runner[m]
    <2>1. MissionFits(mission[m], job[m], runner[m])
        BY EveryMissionFits
    <2>2. /\ Started(mission[m]) /\ Becomes(m, x, j, 0)
          /\ runner' = IF runner[m] = "running" /\ job'[m] = NoJob
                       THEN [runner EXCEPT ![m] = "interrupted"] ELSE runner
        BY <1>3 DEF Cancel
    <2>3. runner \in [Missions -> Runners] /\ runner' = [runner EXCEPT ![m] = r]
        BY <2>2, TypesAsTables DEF IInv, Tables
    <2>4. /\ x \in Attributes /\ x.state = mission[m].state /\ x.startsAt = mission[m].startsAt
          /\ x.parameters = mission[m].parameters
        BY <2>1 DEF MissionFits, Attributes
    <2>5. j \in Jobs
        <3>1. NoJob \in Jobs /\ [due |-> x.startsAt] \in Jobs /\ job[m] \in Jobs
            BY <2>1, <2>4 DEF NoJob, Jobs, StartTimes, MissionFits, Attributes
        <3> HIDE DEF x
        <3> QED BY <3>1 DEF UpdatedJob
    <2>6. RunnerFits(x, r) /\ r \in Runners /\ r # "none"
        BY <2>1, <2>2, <2>4 DEF MissionFits, RunnerFits, Runners, Started, Finished
    <2>7. MissionFits(x, j, r)
        BY <2>4, <2>5, <2>6 DEF MissionFits, JobFits
    <2>8. Visible(x) = Visible(mission[m])
        BY <2>4 DEF Visible
    <2> HIDE DEF x, j, r
    <2> QED BY <1>1, <2>2, <2>3, <2>7, <2>8, ChangeKeepsInv
<1> QED BY <1>2, <1>3

\* The task of a mission starts, or ends, with a state that the clients see.
LEMMA TaskKeepsInv ==
    ASSUME IInv, NEW m \in Missions, NEW state \in States, NEW r \in Runners,
           \/ r = "running" /\ state = "ongoing"
           \/ r = "over" /\ state \in Finished,
           Becomes(m, [mission[m] EXCEPT !.state = state], job[m], 1),
           runner' = [runner EXCEPT ![m] = r],
           UNCHANGED <<now, meddled>>
    PROVE  IInv'
<1> DEFINE x == [mission[m] EXCEPT !.state = state]
<1>1. MissionFits(mission[m], job[m], runner[m])
    BY EveryMissionFits
<1>2. x \in Attributes /\ x.state = state
    BY <1>1 DEF MissionFits, Attributes
<1>3. MissionFits(x, job[m], r)
    BY <1>1, <1>2 DEF MissionFits, JobFits, RunnerFits, Finished
<1>4. meddled' \subseteq Missions
    BY DEF IInv, TypeOK
<1> HIDE DEF x
<1>5. Becomes(m, x, job[m], 1)
    BY DEF x
<1>6. 1 \in Nat /\ 1 >= 1 /\ now' = now
    OBVIOUS
<1> QED BY <1>3, <1>4, <1>5, <1>6, ChangeKeepsInv

LEMMA RunMissionKeepsInv ==
    ASSUME IInv, NEW m \in Missions, RunMission(m)
    PROVE  IInv'
BY TaskKeepsInv DEF RunMission, States, Finished, Runners

LEMMA RunEndsKeepsInv ==
    ASSUME IInv, NEW m \in Missions, RunEnds(m)
    PROVE  IInv'
<1>1. PICK end \in Finished : Becomes(m, [mission[m] EXCEPT !.state = end], job[m], 1)
    BY DEF RunEnds, Finished
<1> QED BY <1>1, TaskKeepsInv DEF RunEnds, States, Runners

LEMMA RunIsCancelledKeepsInv ==
    ASSUME IInv, NEW m \in Missions, RunIsCancelled(m)
    PROVE  IInv'
BY TaskKeepsInv DEF RunIsCancelled, States, Finished, Runners

\* The mission that is shown is not outdated; the others keep their places.
LEMMA BroadcastUpdateKeepsInv ==
    ASSUME IInv, BroadcastUpdate
    PROVE  IInv'
<1>1. /\ pending \in Seq(Missions) /\ pending # <<>> /\ pending' = Tail(pending)
      /\ Len(pending) <= NotifyCapacity
      /\ outdated' = outdated \ {Head(pending)} /\ missed' = missed \ {Head(pending)}
      /\ UNCHANGED <<now, mission, job, runner, meddled>>
    BY DEF BroadcastUpdate, IInv, TypeOK
<1>2. /\ pending' \in Seq(Missions) /\ Len(pending') = Len(pending) - 1
      /\ \A i \in 1 .. Len(pending') : pending'[i] = pending[i + 1]
    BY <1>1, HeadTailProperties
<1>3. ShownOrPending'
    <2> SUFFICES ASSUME NEW o \in outdated', o \notin missed'
                 PROVE  \E i \in DOMAIN pending' : pending'[i] = o
        BY DEF ShownOrPending
    <2>1. o \in outdated /\ o # Head(pending) /\ o \notin missed
        BY <1>1
    <2>2. PICK i \in DOMAIN pending : pending[i] = o
        BY <2>1 DEF IInv, ShownOrPending
    <2>3. i \in 1 .. Len(pending) /\ i # 1
        BY <1>1, <2>1, <2>2
    <2>4. i - 1 \in DOMAIN pending' /\ pending'[i - 1] = pending[(i - 1) + 1]
        BY <1>1, <1>2, <2>3
    <2> QED BY <2>2, <2>3, <2>4
<1>4. TypeOK'
    BY <1>1, <1>2, ConstantsAssumption DEF IInv, TypeOK
<1> QED BY <1>1, <1>3, <1>4 DEF IInv, RunnerFits, JobFollowsMission

\* Missions that are due later are still due.
LEMMA TickKeepsInv ==
    ASSUME IInv, Tick
    PROVE  IInv'
<1>1. now \in 0..MaxTime /\ now' \in 0..MaxTime /\ now'..MaxTime \subseteq now..MaxTime
    BY ConstantsAssumption DEF Tick, IInv, TypeOK
<1>2. JobFollowsMission'
    BY <1>1 DEF Tick, IInv, JobFollowsMission
<1> QED BY <1>1, <1>2 DEF Tick, IInv, TypeOK, RunnerFits, ShownOrPending

LEMMA InitInv == ASSUME Init PROVE IInv
<1>1. NewMission \in Attributes /\ NoJob \in Jobs
    BY DEF NewMission, Attributes, NoJob, Jobs, States, StartTimes
<1>2. TypeOK
    BY <1>1, ConstantsAssumption DEF Init, TypeOK, Attributes, Jobs
<1> QED BY <1>2 DEF Init, IInv, RunnerFits, JobFollowsMission, ShownOrPending, NewMission,
                    NoJob, Finished

LEMMA NextKeepsInv == ASSUME IInv, [Next]_vars PROVE IInv'
<1>1. CASE UNCHANGED vars
    BY <1>1 DEF vars, IInv, TypeOK, RunnerFits, JobFollowsMission, ShownOrPending
<1> QED BY <1>1, AuthorizeKeepsInv, RevokeKeepsInv, StartKeepsInv, CancelKeepsInv,
           ScheduleKeepsInv, UpdateParametersKeepsInv, RunMissionKeepsInv, RunEndsKeepsInv,
           RunIsCancelledKeepsInv, BroadcastUpdateKeepsInv, TickKeepsInv DEF Next

-----------------------------------------------------------------------------
(* The results.                                                            *)

\* The inductive invariant holds in every state of the extension.
THEOREM InvariantHolds == Spec => []IInv
BY InitInv, NextKeepsInv, PTL DEF Spec

\* The attributes, jobs, tasks and queues of missions have their types.
THEOREM TypeCorrect == Spec => []TypeOK
<1>1. IInv => TypeOK
    BY DEF IInv
<1> QED BY <1>1, InvariantHolds, PTL

\* The scheduler agrees with the missions, in whatever order they are
\* authorized, revoked, rescheduled and cancelled
\* (_update_mission_in_scheduler() of ext/missions/tasks.py).
THEOREM JobsFollow == Spec => []JobFollowsMission
<1>1. IInv => JobFollowsMission
    BY DEF IInv
<1> QED BY <1>1, InvariantHolds, PTL

\* No change of a mission goes unseen unless a notification of it was dropped
\* (MissionUpdateNotifierTask of ext/missions/tasks.py).
THEOREM ChangesAreShown == Spec => []ShownOrPending
<1>1. IInv => ShownOrPending
    BY DEF IInv
<1> QED BY <1>1, InvariantHolds, PTL

-----------------------------------------------------------------------------
(* The life of a mission.                                                  *)

\* A mission with attributes x may go on with attributes y.
Legal(x, y) ==
    /\ x.state # "ongoing" /\ y.state = "ongoing" =>
          x.state = "authorized" /\ ~x.cancelRequested /\ x.startsAt <= now
    /\ x.parameters # y.parameters => x.state = "new" /\ y.state = "new"
    /\ x.state \in Finished => Visible(x) = Visible(y)
    /\ x.cancelRequested => y.cancelRequested

EveryStepIsLegal == \A m \in Missions : Legal(mission[m], mission'[m])

\* It is enough to look at the mission that changes.
LEMMA LegalChange ==
    ASSUME IInv, NEW m \in Missions, NEW x, Legal(mission[m], x),
           mission' = [mission EXCEPT ![m] = x]
    PROVE  EveryStepIsLegal
<1> SUFFICES ASSUME NEW o \in Missions
             PROVE  Legal(mission[o], mission'[o])
    BY DEF EveryStepIsLegal
<1>1. mission \in [Missions -> Attributes]
    BY TypesAsTables DEF IInv, Tables
<1>2. CASE o = m
    BY <1>1, <1>2
<1>3. CASE o # m
    BY <1>1, <1>3 DEF Legal
<1> QED BY <1>2, <1>3

\* A request to a mission that has not started.
LEMMA LegalRequest ==
    ASSUME IInv, NEW m \in Missions, NotStartedYet(m), NEW x,
           x.state # "ongoing",
           x.parameters # mission[m].parameters => mission[m].state = "new" /\ x.state = "new",
           mission[m].cancelRequested => x.cancelRequested
    PROVE  Legal(mission[m], x)
BY DEF Legal, NotStartedYet, Finished

LEMMA RequestIsLegal ==
    ASSUME IInv, NEW m \in Missions,
           \/ \E p \in Parameters : UpdateParameters(m, p)
           \/ Authorize(m) \/ Revoke(m)
           \/ \E t \in StartTimes : Schedule(m, t)
           \/ NotStartedYet(m) /\ \E c \in BOOLEAN :
                  (mission[m].cancelRequested => c) /\ StartNow(m, c)
    PROVE  EveryStepIsLegal
<1> DEFINE x == mission[m]
<1>1. NotStartedYet(m)
    BY DEF UpdateParameters, Authorize, Revoke, Schedule, NotStartedYet
<1>2. x \in Attributes /\ x.state \in {"new", "authorized"}
    BY <1>1, NotStarted DEF NotStartedYet
<1>3. CASE mission' = mission
    BY <1>3 DEF EveryStepIsLegal, Legal
<1>4. ASSUME NEW y, mission' = [mission EXCEPT ![m] = y], y.state # "ongoing",
             y.parameters # x.parameters => x.state = "new" /\ y.state = "new",
             x.cancelRequested => y.cancelRequested
      PROVE  EveryStepIsLegal
    BY <1>1, <1>4, LegalRequest, LegalChange
<1>5. ASSUME NEW p \in Parameters, UpdateParameters(m, p)
      PROVE  EveryStepIsLegal
    <2> DEFINE y == [x EXCEPT !.parameters = p]
    <2>1. mission' = [mission EXCEPT ![m] = y] /\ x.state = "new"
        BY <1>5 DEF UpdateParameters, Becomes
    <2>2. y.state = "new" /\ y.cancelRequested = x.cancelRequested
        BY <1>2, <2>1 DEF Attributes
    <2> HIDE DEF y
    <2> QED BY <1>4, <2>1, <2>2
<1>6. CASE Authorize(m)
    <2> DEFINE y == [x EXCEPT !.state = "authorized"]
    <2>1. mission' = mission \/ mission' = [mission EXCEPT ![m] = y]
        BY <1>6 DEF Authorize, Becomes, Authorized
    <2>2. /\ y.state # "ongoing" /\ y.parameters = x.parameters
          /\ y.cancelRequested = x.cancelRequested
        BY <1>2 DEF Attributes
    <2> HIDE DEF y
    <2> QED BY <1>3, <1>4, <2>1, <2>2
<1>7. CASE Revoke(m)
    <2> DEFINE y == [x EXCEPT !.state = "new"]
    <2>1. mission' = mission \/ mission' = [mission EXCEPT ![m] = y]
        BY <1>7 DEF Revoke, Becomes
    <2>2. /\ y.state # "ongoing" /\ y.parameters = x.parameters
          /\ y.cancelRequested = x.cancelRequested
        BY <1>2 DEF Attributes
    <2> HIDE DEF y
    <2> QED BY <1>3, <1>4, <2>1, <2>2
<1>8. ASSUME NEW t \in StartTimes, Schedule(m, t)
      PROVE  EveryStepIsLegal
    <2> DEFINE y == [x EXCEPT !.startsAt = t]
    <2>1. mission' = mission \/ mission' = [mission EXCEPT ![m] = y]
        BY <1>8 DEF Schedule, Becomes
    <2>2. /\ y.state # "ongoing" /\ y.parameters = x.parameters
          /\ y.cancelRequested = x.cancelRequested
        BY <1>2 DEF Attributes
    <2> HIDE DEF y
    <2> QED BY <1>3, <1>4, <2>1, <2>2
<1>9. ASSUME NEW c \in BOOLEAN, x.cancelRequested => c, StartNow(m, c)
      PROVE  EveryStepIsLegal
    <2> DEFINE y == [[x EXCEPT !.late = TRUE, !.startsAt = now, !.cancelRequested = c]
                        EXCEPT !.state = "authorized"]
    <2>1. mission' = [mission EXCEPT ![m] = y]
        BY <1>9 DEF StartNow, Becomes, Authorized
    <2>2. y.state = "authorized" /\ y.parameters = x.parameters /\ y.cancelRequested = c
        BY <1>2 DEF Attributes
    <2> HIDE DEF y
    <2> QED BY <1>4, <1>9, <2>1, <2>2
<1> QED BY <1>5, <1>6, <1>7, <1>8, <1>9

\* A start, the end of a task, and a cancellation of a mission that runs.
LEMMA TaskIsLegal ==
    ASSUME IInv, NEW m \in Missions, RunMission(m) \/ RunEnds(m) \/ RunIsCancelled(m)
    PROVE  EveryStepIsLegal
<1> DEFINE x == mission[m]
<1>1. MissionFits(x, job[m], runner[m])
    BY EveryMissionFits
<1>2. ASSUME NEW state \in States, state # "ongoing", x.state \notin Finished,
             mission' = [mission EXCEPT ![m] = [x EXCEPT !.state = state]], x.state # "new"
      PROVE  EveryStepIsLegal
    <2>1. Legal(x, [x EXCEPT !.state = state])
        BY <1>1, <1>2 DEF Legal, MissionFits, Attributes
    <2> QED BY <1>2, <2>1, LegalChange
<1>3. CASE RunMission(m)
    <2>1. x.state = "authorized" /\ x.startsAt <= now
        BY <1>1, <1>3 DEF RunMission, MissionFits, JobFits
    <2>2. CASE x.cancelRequested
        BY <1>2, <1>3, <2>1, <2>2 DEF RunMission, Becomes, States, Finished
    <2>3. CASE ~x.cancelRequested
        <3>1. mission' = [mission EXCEPT ![m] = [x EXCEPT !.state = "ongoing"]]
            BY <1>3, <2>3 DEF RunMission, Becomes
        <3>2. Legal(x, [x EXCEPT !.state = "ongoing"])
            BY <1>1, <2>1, <2>3 DEF Legal, MissionFits, Attributes, Finished
        <3> QED BY <3>1, <3>2, LegalChange
    <2> QED BY <2>2, <2>3
<1>4. CASE RunEnds(m) \/ RunIsCancelled(m)
    <2>1. x.state = "ongoing"
        BY <1>1, <1>4 DEF RunEnds, RunIsCancelled, MissionFits, RunnerFits, Attributes, States,
                          Finished
    <2>2. PICK end \in Finished : mission' = [mission EXCEPT ![m] = [x EXCEPT !.state = end]]
        BY <1>4 DEF RunEnds, RunIsCancelled, Becomes, Finished
    <2> QED BY <1>2, <2>1, <2>2 DEF States, Finished
<1> QED BY <1>3, <1>4

LEMMA CancelIsLegal ==
    ASSUME IInv, NEW m \in Missions, Cancel(m)
    PROVE  EveryStepIsLegal
<1> DEFINE x == mission[m]
<1>1. MissionFits(x, job[m], runner[m])
    BY EveryMissionFits
<1>2. CASE NotStartedYet(m) /\ StartNow(m, TRUE)
    BY <1>2, RequestIsLegal
<1>3. CASE mission' = [mission EXCEPT ![m] = [x EXCEPT !.cancelRequested = TRUE]]
    <2>1. Legal(x, [x EXCEPT !.cancelRequested = TRUE])
        BY <1>1 DEF Legal, MissionFits, Attributes, Visible
    <2> QED BY <1>3, <2>1, LegalChange
<1> QED BY <1>2, <1>3 DEF Cancel, Becomes

\* A mission starts once, not before its time, with the parameters it was
\* authorized with, and never after it was cancelled; how it ended is not
\* changed any more (Mission of ext/missions/model.py).
THEOREM LivesAreLegal == Spec => LifeCycle
<1>1. IInv /\ [Next]_vars => [EveryStepIsLegal]_vars
    <2> SUFFICES ASSUME IInv, Next
                 PROVE  EveryStepIsLegal
        OBVIOUS
    <2>1. ASSUME NEW m \in Missions, Start(m)
          PROVE  EveryStepIsLegal
        <3>1. NotStartedYet(m) /\ StartNow(m, mission[m].cancelRequested)
            BY <2>1 DEF Start
        <3>2. mission[m].cancelRequested \in BOOLEAN
            BY <3>1, NotStarted DEF Attributes
        <3> QED BY <3>1, <3>2, RequestIsLegal
    <2>2. CASE BroadcastUpdate \/ Tick
        BY <2>2 DEF BroadcastUpdate, Tick, EveryStepIsLegal, Legal
    <2> QED BY <2>1, <2>2, RequestIsLegal, TaskIsLegal, CancelIsLegal DEF Next
<1>2. [EveryStepIsLegal]_vars =>
          [\A m \in Missions :
              LET x == mission[m] y == mission'[m] IN
              /\ x.state # "ongoing" /\ y.state = "ongoing" =>
                    x.state = "authorized" /\ ~x.cancelRequested /\ x.startsAt <= now
              /\ x.parameters # y.parameters => x.state = "new" /\ y.state = "new"
              /\ x.state \in Finished => Visible(x) = Visible(y)
              /\ x.cancelRequested => y.cancelRequested]_vars
    BY DEF EveryStepIsLegal, Legal
<1> QED BY <1>1, <1>2, InvariantHolds, PTL DEF Spec, LifeCycle
=============================================================================
