------------------------------ MODULE ShowStart ------------------------------
(***************************************************************************)
(* The automatic start of a drone show: the show clock, which follows the  *)
(* configured start time or an external timecode up to the point of no     *)
(* return; the starter task, which waits with an edge-triggered alarm for  *)
(* the clock to show zero; and the countdown task, which tells the drones  *)
(* every second when to start.                                             *)
(*                                                                         *)
(* Time advances by half seconds.  "now" is the half second in progress:   *)
(* what happens in it happens in any order, and the true reading of the    *)
(* clock lies between Reading and Reading + 1.  The event loop serves its  *)
(* runnable tasks within the half second, so Tick waits for them.          *)
(* A task runs without interruption up to its next await; a step of a task *)
(* is what it does between two awaits.                                     *)
(***************************************************************************)
EXTENDS Integers, FiniteSets

CONSTANTS
    MaxTime,            \* bound: the last half second that is explored
    MaxChanges,         \* bound: changes of the configuration and of the timecode
    NoReturn,           \* how long before zero the timecode is not followed any more (10 s)
    Lead,               \* how long before zero the countdown begins (11 s)
    Period,             \* how often the countdown tells the drones (1 s)
    Recheck,            \* the longest timed wait of an alarm (60 s)
    EventCapacity,      \* size of the event channel of an alarm (1024)
    StartTimes,         \* the start times that clients configure
    Timecodes,          \* the instants at which the external timecode may be zero
    None                \* no start time, a stopped clock, no timer, no countdown

ASSUME TimeAssumption ==
    /\ {MaxTime, MaxChanges} \subseteq Nat
    /\ NoReturn \in Nat
    /\ {Lead, Period, Recheck, EventCapacity} \subseteq Nat \ {0}
    /\ Period <= NoReturn
    /\ StartTimes \subseteq Int
    /\ Timecodes \subseteq Int
    /\ None \notin Int

VARIABLES
    now,            \* the current half second
    changes,        \* number of changes of the configuration and of the timecode
    config,         \* the start conditions of DroneShowConfiguration
    timecode,       \* when the external timecode is zero, None if it is stopped
    zero,           \* reference_time of the show clock, None if it is stopped
    tasks,          \* the tasks of _show_tasks that have not finished
    told,           \* when the drones will start by what they were last told
    disturbed,      \* was the show reconfigured or its clock stopped in this half second?
    armed,          \* should the starter task start the show when it is due?
    reconfigured    \* was the countdown that told the drones cancelled since or before?

vars == <<now, changes, config, timecode, zero, tasks, told, disturbed, armed, reconfigured>>

Instants == Int \cup {None}

\* "authorized" stands for authorized_to_start with the start method AUTO;
\* "external" for a start time on the timecode instead of the UNIX clock.
Configurations ==
    [authorized: BOOLEAN, start: StartTimes \cup {None}, external: BOOLEAN]

\* Where a task is: not run yet; waiting in the edge-triggered loop of its
\* alarm, in the main loop, or polling; runnable after an event or a timeout;
\* waiting for or at the next iteration of the countdown.
Places == {"spawned", "edge", "edgeWoken", "waiting", "woken", "timer",
           "polling", "counting", "countingDue"}

Tasks ==
    [kind: {"start", "countdown"}, at: Places, running: BOOLEAN,
     events: 0..EventCapacity, wake: Instants, last: Instants, doomed: BOOLEAN]

Spawned(k) ==
    [kind |-> k, at |-> "spawned", running |-> FALSE, events |-> 0,
     wake |-> None, last |-> None, doomed |-> FALSE]

TypeOK ==
    /\ now \in 0..MaxTime
    /\ changes \in 0..MaxChanges
    /\ config \in Configurations
    /\ timecode \in Timecodes \cup {None}
    /\ zero \in Instants
    /\ tasks \subseteq Tasks
    /\ told \in Instants
    /\ {disturbed, armed, reconfigured} \subseteq BOOLEAN

Init ==
    /\ now = 0
    /\ changes = 0
    /\ config = [authorized |-> FALSE, start |-> None, external |-> FALSE]
    /\ timecode \in Timecodes \cup {None}
    /\ zero = None
    /\ tasks = {}
    /\ told = None
    /\ disturbed = FALSE
    /\ armed = FALSE
    /\ reconfigured = FALSE

-----------------------------------------------------------------------------
(* The clocks.                                                             *)

\* clock.seconds: a stopped clock shows zero.
Reading == IF zero = None THEN 0 ELSE now - zero

Target(t) == IF t.kind = "start" THEN 0 ELSE -Lead
Left(t) == Target(t) - Reading

ShouldRunIn(c, z) == c.authorized /\ z # None
ShouldRun == ShouldRunIn(config, zero)

\* The reference time that configuration c asks for under timecode v.
Desired(c, v) ==
    IF c.start = None \/ ~c.external THEN c.start
    ELSE IF v = None THEN None ELSE v + c.start

FollowsTimecode == config.external /\ config.start # None

BeyondPointOfNoReturn == zero # None /\ Reading >= -NoReturn

-----------------------------------------------------------------------------
(* What clock events, timeouts and cancellations do to a task.             *)

\* Broken: an event channel without a limit.
NotifiedUnbounded(t) ==
    CASE t.at = "edge"    -> [t EXCEPT !.at = "edgeWoken"]
      [] t.at = "waiting" -> [t EXCEPT !.at = "woken", !.wake = None]
      [] t.at \in {"edgeWoken", "woken", "timer", "polling"} -> [t EXCEPT !.events = @ + 1]
      [] OTHER -> t

\* _on_clock_event(): the event goes to the waiting receiver or into the channel.
Notified(t) ==
    CASE t.at = "edge"    -> [t EXCEPT !.at = "edgeWoken"]
      [] t.at = "waiting" -> [t EXCEPT !.at = "woken", !.wake = None]
      [] t.at \in {"edgeWoken", "woken", "timer", "polling"} ->
            IF t.events < EventCapacity THEN [t EXCEPT !.events = @ + 1] ELSE t
      [] OTHER -> t

\* The signals started, stopped and changed of the show clock.
Signalled(ts, z) == IF z = zero THEN ts ELSE {Notified(t) : t \in ts}

\* Broken: leaves the old tasks alone.
CancelledNot(ts) == ts

\* cancel_all(): a task that is waiting or timed out ends; one that has an
\* event to process runs up to its next await first, and the countdown runs its
\* finally block.
Cancelled(ts) ==
    {[t EXCEPT !.doomed = TRUE] :
        t \in {u \in ts : u.at \in
            {"spawned", "edgeWoken", "woken", "counting", "countingDue"}}}

-----------------------------------------------------------------------------
(* What clients and the timecode do.                                       *)

Change ==
    /\ changes < MaxChanges
    /\ changes' = changes + 1

CreatedTasks(c, z) ==
    IF ShouldRunIn(c, z) THEN {Spawned("start"), Spawned("countdown")} ELSE {}

\* Broken: creates the new tasks before the old ones are cancelled.
RenewedAndCancelled(ts, c, z) == Cancelled(ts \cup CreatedTasks(c, z))

\* What _on_config_updated() makes of the tasks when the clock is synchronized.
RenewedTasks(ts, c, z) == Cancelled(ts) \cup CreatedTasks(c, z)

\* handle_SHOW_SETCFG() with valid start conditions that differ from the current
\* ones, or with another duration, which makes the clock resynchronize, too.
Configure(c, otherDuration) ==
    /\ c # config \/ otherDuration
    /\ config' = c
    /\ zero' = IF otherDuration \/ c.start # config.start \/ c.external # config.external
                  THEN Desired(c, timecode) ELSE zero
    /\ tasks' = RenewedTasks(Signalled(tasks, zero'), c, zero')
    /\ disturbed' = TRUE
    /\ armed' = ShouldRunIn(c, zero')
    /\ reconfigured' = (told # None)
    /\ Change
    /\ UNCHANGED <<now, timecode, told>>

\* The timecode is started, stopped or adjusted: _on_primary_clock_changed().
TimecodeChanges(v) ==
    /\ v # timecode
    /\ timecode' = v
    /\ zero' = IF FollowsTimecode /\ ~BeyondPointOfNoReturn THEN Desired(config, v) ELSE zero
    /\ tasks' = Signalled(tasks, zero')
    /\ disturbed' = (disturbed \/ (zero # None /\ zero' = None))
    /\ armed' = (armed /\ ~(zero' = None /\ Spawned("start") \in tasks))
    /\ Change
    /\ UNCHANGED <<now, config, told, reconfigured>>

-----------------------------------------------------------------------------
(* The alarm of a task, wait_until().                                      *)

\* Does the alarm know the clock to be running?  It looks when it begins and
\* after each event of the main loop, and trusts what it saw otherwise.
SeesRunning(t) == IF t.at \in {"spawned", "woken"} THEN zero # None ELSE t.running

AtLoopHead(t) == t.at \in {"spawned", "edgeWoken", "woken", "timer", "polling"}

\* Has the alarm left its edge-triggered loop?  The starter stays in it while
\* the clock is past zero; a clock that was stopped shows zero, not more.
PastEdge(t) ==
    \/ t.at \in {"woken", "timer", "polling"}
    \/ t.kind = "countdown"
    \/ SeesRunning(t) /\ (zero = None \/ Left(t) > 0)

\* The alarm of t returns.  That of the countdown returns at once when it is
\* called late, whether the clock runs or not.
Rings(t) ==
    /\ AtLoopHead(t)
    /\ PastEdge(t)
    /\ Left(t) <= 0
    /\ SeesRunning(t) \/ (t.kind = "countdown" /\ t.at = "spawned")

Replace(t, new) == tasks' = (tasks \ {t}) \cup new

\* The alarm polls in the last 0.1 s: receive_nowait() and sleep(0).
Polls(t) ==
    /\ t.at \in {"timer", "polling"}
    /\ t.running
    /\ Left(t) = 1

Poll(t) ==
    /\ Polls(t)
    /\ t.at = "timer" \/ t.events > 0
    /\ Replace(t, {IF t.events > 0
                      THEN [t EXCEPT !.at = "polling", !.events = @ - 1, !.running = (zero # None)]
                      ELSE [t EXCEPT !.at = "polling"]})
    /\ UNCHANGED <<now, changes, config, timecode, zero, told, disturbed, armed, reconfigured>>

\* A timed wait ends 0.1 s before the alarm is due or after Recheck.
NextWake(t) == now + (IF Left(t) - 1 < Recheck THEN Left(t) - 1 ELSE Recheck)

\* The alarm waits for the next event; one that is buffered is taken at once.
Receive(t) ==
    LET seen == [t EXCEPT !.running = SeesRunning(t)] IN
    /\ AtLoopHead(t)
    /\ ~Rings(t)
    /\ ~Polls(t)
    /\ Replace(t,
         IF t.doomed THEN {}
         ELSE IF t.events > 0
           THEN {[seen EXCEPT !.at = IF PastEdge(t) THEN "woken" ELSE "edgeWoken",
                              !.events = @ - 1]}
         ELSE IF ~PastEdge(t) THEN {[seen EXCEPT !.at = "edge"]}
         ELSE {[seen EXCEPT !.at = "waiting",
                            !.wake = IF SeesRunning(t) THEN NextWake(t) ELSE None]})
    /\ UNCHANGED <<now, changes, config, timecode, zero, told, disturbed, armed, reconfigured>>

TimedOut(t) == t.wake # None /\ t.wake <= now

\* A timed wait of an alarm or the pause of the countdown is over.
TimerExpires(t) ==
    /\ t.at \in {"waiting", "counting"}
    /\ ~t.doomed
    /\ TimedOut(t)
    /\ Replace(t, {[t EXCEPT !.at = IF @ = "counting" THEN "countingDue" ELSE "timer",
                             !.wake = None]})
    /\ UNCHANGED <<now, changes, config, timecode, zero, told, disturbed, armed, reconfigured>>

-----------------------------------------------------------------------------
(* The starter and the countdown.                                          *)

\* _start_show_when_needed(): the drones are told to start now.
StartShow(t) ==
    /\ t.kind = "start"
    /\ Rings(t)
    /\ Replace(t, {})
    /\ told' = now
    /\ armed' = FALSE
    /\ reconfigured' = FALSE
    /\ UNCHANGED <<now, changes, config, timecode, zero, disturbed>>

\* _manage_countdown_before_start() is at the body of its loop.
AtIteration(t) ==
    \/ t.kind = "countdown" /\ Rings(t)
    \/ t.at = "countingDue" /\ ~t.doomed

SteppedBack(t) == t.last # None /\ t.last > Reading

\* The last half second before zero has begun, or zero has passed.
AlmostZero == Reading >= -1

\* The loop goes on after the pause of periodic(1), in which a doomed task ends.
Paused(t) ==
    IF t.doomed THEN {}
    ELSE {[t EXCEPT !.at = "counting", !.wake = now + Period, !.events = 0, !.running = FALSE,
                    !.last = IF SteppedBack(t) THEN @ ELSE Reading]}

\* The clock was set back: the drones are told not to start.
CallOff(t) ==
    /\ AtIteration(t)
    /\ ShouldRun
    /\ SteppedBack(t)
    /\ Replace(t, Paused(t))
    /\ told' = None
    /\ reconfigured' = t.doomed
    /\ UNCHANGED <<now, changes, config, timecode, zero, disturbed, armed>>

\* The drones are told how much time is left.
Announce(t) ==
    /\ AtIteration(t)
    /\ ShouldRun
    /\ ~SteppedBack(t)
    /\ ~AlmostZero
    /\ Replace(t, Paused(t))
    /\ told' = now - Reading
    /\ reconfigured' = t.doomed
    /\ UNCHANGED <<now, changes, config, timecode, zero, disturbed, armed>>

\* Broken: does not call the drones off.
ToldAsBefore == told

\* The finally block of the countdown.
ToldInTheEnd == IF ShouldRun THEN told ELSE None

\* The loop breaks or the task was cancelled in its pause.
EndCountdown(t) ==
    /\ \/ AtIteration(t) /\ (~ShouldRun \/ (~SteppedBack(t) /\ AlmostZero))
       \/ t.at \in {"counting", "countingDue"} /\ t.doomed
    /\ Replace(t, {})
    /\ told' = ToldInTheEnd
    /\ UNCHANGED <<now, changes, config, timecode, zero, disturbed, armed, reconfigured>>

-----------------------------------------------------------------------------

\* Nothing is left to do for t in this half second.
Idle(t) ==
    \/ t.at = "edge"
    \/ t.at \in {"waiting", "counting"} /\ ~t.doomed /\ ~TimedOut(t)
    \/ t.at = "polling" /\ Polls(t) /\ t.events = 0

Tick ==
    /\ now < MaxTime
    /\ \A t \in tasks : Idle(t)
    /\ now' = now + 1
    /\ told' = IF told = now THEN None ELSE told    \* these drones have started
    /\ disturbed' = FALSE
    /\ UNCHANGED <<changes, config, timecode, zero, tasks, armed, reconfigured>>

TaskStep(t) ==
    \/ Poll(t)
    \/ Receive(t)
    \/ TimerExpires(t)
    \/ StartShow(t)
    \/ CallOff(t)
    \/ Announce(t)
    \/ EndCountdown(t)

Next ==
    \/ \E c \in Configurations, otherDuration \in BOOLEAN : Configure(c, otherDuration)
    \/ \E v \in Timecodes \cup {None} : TimecodeChanges(v)
    \/ \E t \in tasks : TaskStep(t)
    \/ Tick

Spec == Init /\ [][Next]_vars

-----------------------------------------------------------------------------
(* Properties.                                                             *)

\* Every start of a show (_start_show_when_needed() past its alarm) is that of
\* an authorized show whose clock shows zero or more, unless the show was
\* reconfigured or its clock was stopped in the same half second.
NoFalseStart ==
    [][\A t \in tasks : StartShow(t) => disturbed \/ (ShouldRun /\ Reading >= 0)]_vars

\* A show that is authorized, whose starter task was created for a running
\* clock and has not started it yet, does not let the half second of its zero
\* pass without starting: no event, timeout, adjustment or cancellation makes
\* the starter miss it.
StartsOnTime ==
    [][Tick => ~(armed /\ ShouldRun /\ zero = now /\ ~disturbed)]_vars

\* Drones that were told when to start do not start without the show or before
\* it, wherever the timecode moved it or stopped it in the meantime, unless the
\* countdown that told them was cancelled or the show is disturbed right then.
DronesWaitForShow ==
    [][Tick /\ told = now /\ ~reconfigured /\ ~disturbed => ShouldRun /\ Reading >= 0]_vars

\* The docstring of wait_until(): it "blocks until the clock reaches a given
\* tick count or a given number of seconds", so no show starts while its clock
\* is stopped or before zero.
StartsOnlyWhenDue ==
    [][\A t \in tasks : StartShow(t) => zero # None /\ Reading >= 0]_vars
=============================================================================
