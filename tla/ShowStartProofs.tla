---------------------------- MODULE ShowStartProofs ----------------------------
(***************************************************************************)
(* No show starts falsely or misses its start, and no drone starts without *)
(* the show, for any times and capacities, start times and timecodes.      *)
(***************************************************************************)
EXTENDS ShowStart, TLAPS

\* A task that was cancelled has a step to do in this half second, in which the
\* show was disturbed; the others belong to an authorized show.
Cancellations ==
    \A t \in tasks :
        /\ t.doomed => /\ t.at \in {"spawned", "edgeWoken", "woken", "counting", "countingDue"}
                       /\ disturbed
        /\ ~t.doomed => config.authorized
        /\ t.at = "spawned" /\ ~t.doomed => t = Spawned(t.kind)

\* What the starter believes of the clock: unless the show is disturbed, it does
\* not take a stopped clock for a running one when it looks at the time.
StarterKnows(t) ==
    /\ t.at \notin {"counting", "countingDue"}
    /\ t.at = "edge" /\ t.running => zero # None
    /\ t.at = "waiting" /\ t.wake # None => zero # None
    /\ t.at \in {"edgeWoken", "timer", "polling"} /\ t.running => zero # None \/ disturbed

Beliefs == \A t \in tasks : t.kind = "start" => StarterKnows(t)

\* Starter t will start the show in the half second in which the clock shows zero:
\* its alarm waits no longer than until then, and it is past the edge-triggered
\* loop unless the clock was past zero when the starter began.
Ready(t) ==
    /\ t.kind = "start" /\ ~t.doomed
    /\ t.at \in {"spawned", "edge", "waiting", "woken", "timer", "polling"}
    /\ t.at = "spawned" => zero # None /\ disturbed
    /\ t.at = "edge" => zero # None /\ (zero < now \/ (zero = now /\ disturbed))
    /\ t.at = "waiting" => /\ zero # None => t.wake # None /\ t.wake <= zero - 1
                           /\ t.wake # None => t.running
    /\ t.at \in {"timer", "polling"} => t.running

StarterIsReady == armed => \E t \in tasks : Ready(t)

\* The countdown that told the drones looks at the clock again before they start
\* by what they were told, if the clock has changed since.
Guards(t) ==
    /\ t.kind = "countdown" /\ ~t.doomed
    /\ \/ /\ t.at = "counting"
          /\ t.wake # None /\ now <= t.wake /\ t.wake <= now + Period
          /\ zero # told => told > t.wake - Period + NoReturn
       \/ /\ t.at = "countingDue"
          /\ zero # told => told > now - Period + NoReturn

\* The clock cannot be moved any more beyond the time that the drones were told.
Settled == ShouldRun /\ zero <= told /\ Reading >= -1

DronesAreGuarded ==
    /\ told # None => told >= now
    /\ told # None /\ ~reconfigured =>
          (told = now /\ disturbed) \/ Settled \/ \E t \in tasks : Guards(t)

IInv ==
    /\ TypeOK
    /\ Cancellations
    /\ Beliefs
    /\ StarterIsReady
    /\ DronesAreGuarded

-----------------------------------------------------------------------------
(* Times and tasks.                                                        *)

LEMMA Constants ==
    /\ MaxTime \in Nat /\ MaxChanges \in Nat /\ NoReturn \in Nat
    /\ Lead \in Nat \ {0} /\ Period \in Nat \ {0} /\ Recheck \in Nat \ {0} /\ EventCapacity \in Nat \ {0}
    /\ Period <= NoReturn
    /\ StartTimes \subseteq Int /\ Timecodes \subseteq Int
    /\ None \notin Int
BY TimeAssumption

LEMMA TaskFields ==
    ASSUME NEW t \in Tasks
    PROVE  /\ t.kind \in {"start", "countdown"} /\ t.at \in Places
           /\ t.running \in BOOLEAN /\ t.doomed \in BOOLEAN
           /\ t.events \in 0 .. EventCapacity /\ t.wake \in Instants /\ t.last \in Instants
BY DEF Tasks

LEMMA ClockTypes ==
    ASSUME TypeOK, NEW t \in Tasks
    PROVE  /\ now \in Nat /\ (zero # None => zero \in Int)
           /\ Reading \in Int /\ Left(t) \in Int
           /\ (zero # None => Reading = now - zero) /\ (zero = None => Reading = 0)
           /\ (t.kind = "start" => Left(t) = 0 - Reading)
           /\ (zero = None => Left(t) <= 0)
<1>1. now \in Nat /\ zero \in Int \cup {None} /\ Lead \in Nat \ {0}
    BY Constants DEF TypeOK, Instants
<1>2. Reading \in Int /\ (zero # None => Reading = now - zero) /\ (zero = None => Reading = 0)
    BY <1>1 DEF Reading
<1>3. Target(t) \in Int /\ Target(t) <= 0 /\ (t.kind = "start" => Target(t) = 0)
    BY <1>1 DEF Target
<1> QED BY <1>1, <1>2, <1>3 DEF Left

LEMMA NextWakeType ==
    ASSUME TypeOK, NEW t \in Tasks
    PROVE  /\ NextWake(t) \in Int
           /\ Left(t) > 0 => NextWake(t) <= now + (Left(t) - 1)
<1>1. now \in Nat /\ Left(t) \in Int /\ Recheck \in Nat
    BY ClockTypes, Constants
<1> QED BY <1>1 DEF NextWake

LEMMA SpawnedType ==
    ASSUME NEW k \in {"start", "countdown"}
    PROVE  /\ Spawned(k) \in Tasks /\ Spawned(k).kind = k /\ Spawned(k).at = "spawned"
           /\ Spawned(k).doomed = FALSE /\ Spawned(k).events = 0
BY Constants DEF Spawned, Tasks, Places, Instants

\* An event wakes an alarm that waits; it changes nothing else that matters.
LEMMA NotifiedFields ==
    ASSUME NEW t \in Tasks
    PROVE  /\ Notified(t) \in Tasks
           /\ Notified(t).kind = t.kind /\ Notified(t).doomed = t.doomed
           /\ Notified(t).running = t.running
           /\ t.at = "edge" => Notified(t).at = "edgeWoken"
           /\ t.at = "waiting" => Notified(t).at = "woken"
           /\ t.at \notin {"edge", "waiting"} => Notified(t).at = t.at
           /\ t.at \in {"spawned", "counting", "countingDue"} => Notified(t) = t
<1>1. CASE t.at = "edge"
    <2>1. Notified(t) = [t EXCEPT !.at = "edgeWoken"]
        BY <1>1 DEF Notified
    <2>2. "edgeWoken" \in Places
        BY DEF Places
    <2> QED BY <1>1, <2>1, <2>2 DEF Tasks
<1>2. CASE t.at = "waiting"
    <2>1. Notified(t) = [t EXCEPT !.at = "woken", !.wake = None]
        BY <1>2 DEF Notified
    <2>2. "woken" \in Places /\ None \in Instants
        BY DEF Places, Instants
    <2> QED BY <1>2, <2>1, <2>2 DEF Tasks
<1>3. CASE t.at \in {"edgeWoken", "woken", "timer", "polling"}
    <2>1. Notified(t) = IF t.events < EventCapacity THEN [t EXCEPT !.events = @ + 1] ELSE t
        BY <1>3 DEF Notified
    <2>2. t.events < EventCapacity => t.events + 1 \in 0 .. EventCapacity
        BY TaskFields, Constants
    <2> QED BY <1>3, <2>1, <2>2 DEF Tasks
<1>4. CASE t.at \in {"spawned", "counting", "countingDue"}
    BY <1>4 DEF Notified
<1>5. t.at \in {"edge", "waiting", "edgeWoken", "woken", "timer", "polling",
                "spawned", "counting", "countingDue"}
    BY TaskFields DEF Places
<1> QED BY <1>1, <1>2, <1>3, <1>4, <1>5

\* Of a cancelled task, nothing changes but that.
LEMMA CancelledFields ==
    ASSUME NEW ts \in SUBSET Tasks, NEW u \in Cancelled(ts)
    PROVE  /\ u \in Tasks /\ u.doomed
           /\ u.at \in {"spawned", "edgeWoken", "woken", "counting", "countingDue"}
           /\ \E t \in ts : u.kind = t.kind /\ u.at = t.at
<1>1. PICK t \in ts : /\ t.at \in {"spawned", "edgeWoken", "woken", "counting", "countingDue"}
                      /\ u = [t EXCEPT !.doomed = TRUE]
    BY DEF Cancelled
<1>2. t \in Tasks
    OBVIOUS
<1>3. u \in Tasks /\ u.doomed = TRUE /\ u.at = t.at /\ u.kind = t.kind
    BY <1>1, <1>2 DEF Tasks
<1> QED BY <1>1, <1>3

LEMMA DesiredType ==
    ASSUME NEW c \in Configurations, NEW v \in Timecodes \cup {None}
    PROVE  Desired(c, v) \in Instants
<1>1. c.start \in StartTimes \cup {None}
    BY DEF Configurations
<1>2. c.start \in Int \cup {None} /\ v \in Int \cup {None}
    BY <1>1, Constants
<1> QED BY <1>2 DEF Desired, Instants

-----------------------------------------------------------------------------
(* The alarm.                                                              *)

\* An alarm that takes the clock for a running one although it is stopped rings.
LEMMA StoppedClockRings ==
    ASSUME TypeOK, NEW t \in Tasks, AtLoopHead(t), SeesRunning(t), zero = None
    PROVE  Rings(t)
<1>1. Left(t) <= 0
    BY ClockTypes
<1>2. PastEdge(t)
    BY DEF PastEdge
<1> QED BY <1>1, <1>2 DEF Rings

\* What becomes of a task that goes back to wait for an event.
LEMMA ReceiveEffect ==
    ASSUME TypeOK, NEW t \in tasks, Receive(t), ~t.doomed
    PROVE  \E n \in Tasks :
             /\ tasks' = (tasks \ {t}) \cup {n}
             /\ n.kind = t.kind /\ n.doomed = t.doomed
             /\ n.running = SeesRunning(t)
             /\ \/ t.events > 0 /\ PastEdge(t) /\ n.at = "woken"
                \/ t.events > 0 /\ ~PastEdge(t) /\ n.at = "edgeWoken"
                \/ ~PastEdge(t) /\ n.at = "edge"
                \/ PastEdge(t) /\ n.at = "waiting" /\ n.wake = IF SeesRunning(t) THEN NextWake(t) ELSE None
<1>1. t \in Tasks
    BY DEF TypeOK
<1> DEFINE seen == [t EXCEPT !.running = SeesRunning(t)]
<1>2. SeesRunning(t) \in BOOLEAN
    BY <1>1, TaskFields DEF SeesRunning
<1>3. /\ seen \in Tasks /\ seen.kind = t.kind /\ seen.doomed = t.doomed
      /\ seen.running = SeesRunning(t) /\ seen.events = t.events
    BY <1>1, <1>2 DEF Tasks
<1>4. tasks' = (tasks \ {t}) \cup
         (IF t.events > 0
           THEN {[seen EXCEPT !.at = IF PastEdge(t) THEN "woken" ELSE "edgeWoken",
                              !.events = @ - 1]}
         ELSE IF ~PastEdge(t) THEN {[seen EXCEPT !.at = "edge"]}
         ELSE {[seen EXCEPT !.at = "waiting",
                            !.wake = IF SeesRunning(t) THEN NextWake(t) ELSE None]})
    BY DEF Receive, Replace
<1> HIDE DEF seen
<1>5. CASE t.events > 0
    <2> DEFINE n == [seen EXCEPT !.at = IF PastEdge(t) THEN "woken" ELSE "edgeWoken", !.events = @ - 1]
    <2>1. t.events - 1 \in 0 .. EventCapacity
        BY <1>1, <1>5, TaskFields, Constants
    <2>2. (IF PastEdge(t) THEN "woken" ELSE "edgeWoken") \in Places
        BY DEF Places
    <2>3. /\ n \in Tasks /\ n.kind = t.kind /\ n.doomed = t.doomed /\ n.running = SeesRunning(t)
          /\ n.at = IF PastEdge(t) THEN "woken" ELSE "edgeWoken"
        BY <1>3, <2>1, <2>2 DEF Tasks
    <2>4. tasks' = (tasks \ {t}) \cup {n}
        BY <1>4, <1>5
    <2> HIDE DEF n
    <2> QED BY <1>5, <2>3, <2>4
<1>6. CASE ~(t.events > 0) /\ ~PastEdge(t)
    <2> DEFINE n == [seen EXCEPT !.at = "edge"]
    <2>1. /\ n \in Tasks /\ n.kind = t.kind /\ n.doomed = t.doomed /\ n.running = SeesRunning(t)
          /\ n.at = "edge"
        BY <1>3 DEF Tasks, Places
    <2>2. tasks' = (tasks \ {t}) \cup {n}
        BY <1>4, <1>6
    <2> HIDE DEF n
    <2> QED BY <1>6, <2>1, <2>2
<1>7. CASE ~(t.events > 0) /\ PastEdge(t)
    <2> DEFINE w == IF SeesRunning(t) THEN NextWake(t) ELSE None
               n == [seen EXCEPT !.at = "waiting", !.wake = w]
    <2>1. w \in Instants
        BY <1>1, NextWakeType DEF Instants
    <2>2. tasks' = (tasks \ {t}) \cup {n}
        BY <1>4, <1>7
    <2> HIDE DEF w
    <2>3. /\ n \in Tasks /\ n.kind = t.kind /\ n.doomed = t.doomed /\ n.running = SeesRunning(t)
          /\ n.at = "waiting" /\ n.wake = w
        BY <1>3, <2>1 DEF Tasks, Places
    <2> HIDE DEF n
    <2>4. PastEdge(t) /\ n.at = "waiting" /\ n.wake = IF SeesRunning(t) THEN NextWake(t) ELSE None
        BY <1>7, <2>3 DEF w
    <2> QED BY <2>2, <2>3, <2>4
<1> QED BY <1>5, <1>6, <1>7

LEMMA PollEffect ==
    ASSUME TypeOK, NEW t \in tasks, Poll(t)
    PROVE  /\ t.at \in {"timer", "polling"} /\ Left(t) = 1
           /\ \E n \in Tasks :
                /\ tasks' = (tasks \ {t}) \cup {n}
                /\ n.kind = t.kind /\ n.doomed = t.doomed /\ n.at = "polling"
                /\ n.running = t.running \/ n.running = (zero # None)
<1>1. t \in Tasks
    BY DEF TypeOK
<1>2. t.at \in {"timer", "polling"} /\ Left(t) = 1
    BY DEF Poll, Polls
<1>3. tasks' = (tasks \ {t}) \cup
          {IF t.events > 0
             THEN [t EXCEPT !.at = "polling", !.events = @ - 1, !.running = (zero # None)]
             ELSE [t EXCEPT !.at = "polling"]}
    BY DEF Poll, Replace
<1>4. CASE t.events > 0
    <2> DEFINE n == [t EXCEPT !.at = "polling", !.events = @ - 1, !.running = (zero # None)]
    <2>1. t.events - 1 \in 0 .. EventCapacity /\ (zero # None) \in BOOLEAN
        BY <1>1, <1>4, TaskFields, Constants
    <2>2. /\ n \in Tasks /\ n.kind = t.kind /\ n.doomed = t.doomed /\ n.at = "polling"
          /\ n.running = (zero # None)
        BY <1>1, <2>1 DEF Tasks, Places
    <2>3. tasks' = (tasks \ {t}) \cup {n}
        BY <1>3, <1>4
    <2> HIDE DEF n
    <2> QED BY <1>2, <2>2, <2>3
<1>5. CASE ~(t.events > 0)
    <2> DEFINE n == [t EXCEPT !.at = "polling"]
    <2>1. /\ n \in Tasks /\ n.kind = t.kind /\ n.doomed = t.doomed /\ n.at = "polling"
          /\ n.running = t.running
        BY <1>1 DEF Tasks, Places
    <2>2. tasks' = (tasks \ {t}) \cup {n}
        BY <1>3, <1>5
    <2> HIDE DEF n
    <2> QED BY <1>2, <2>1, <2>2
<1> QED BY <1>4, <1>5

LEMMA TimerEffect ==
    ASSUME TypeOK, NEW t \in tasks, TimerExpires(t)
    PROVE  /\ t.at \in {"waiting", "counting"} /\ ~t.doomed /\ t.wake # None /\ t.wake <= now
           /\ \E n \in Tasks :
                /\ tasks' = (tasks \ {t}) \cup {n}
                /\ n.kind = t.kind /\ n.doomed = t.doomed /\ n.running = t.running
                /\ n.at = IF t.at = "counting" THEN "countingDue" ELSE "timer"
<1>1. t \in Tasks
    BY DEF TypeOK
<1> DEFINE place == IF t.at = "counting" THEN "countingDue" ELSE "timer"
           n == [t EXCEPT !.at = place, !.wake = None]
<1>2. place \in Places /\ None \in Instants
    BY DEF Places, Instants
<1>3. tasks' = (tasks \ {t}) \cup {n}
    BY DEF TimerExpires, Replace
<1> HIDE DEF place
<1>4. /\ n \in Tasks /\ n.kind = t.kind /\ n.doomed = t.doomed /\ n.running = t.running
      /\ n.at = place
    BY <1>1, <1>2 DEF Tasks
<1>5. t.at \in {"waiting", "counting"} /\ ~t.doomed /\ t.wake # None /\ t.wake <= now
    BY DEF TimerExpires, TimedOut
<1> HIDE DEF n
<1> QED BY <1>3, <1>4, <1>5 DEF place

\* The countdown pauses, unless it was cancelled.
LEMMA PausedFields ==
    ASSUME TypeOK, NEW t \in tasks, NEW n \in Paused(t)
    PROVE  /\ n \in Tasks /\ n.kind = t.kind /\ ~t.doomed /\ n.doomed = t.doomed
           /\ n.at = "counting" /\ n.wake = now + Period
           /\ Paused(t) = {n}
<1>1. t \in Tasks /\ now \in Nat
    BY ClockTypes DEF TypeOK
<1> DEFINE l == IF SteppedBack(t) THEN t.last ELSE Reading
           m == [t EXCEPT !.at = "counting", !.wake = now + Period, !.events = 0, !.running = FALSE,
                          !.last = l]
<1>2. ~t.doomed /\ Paused(t) = {m}
    BY DEF Paused
<1>3. l \in Instants /\ now + Period \in Instants /\ 0 \in 0 .. EventCapacity
    BY <1>1, ClockTypes, TaskFields, Constants DEF Instants
<1> HIDE DEF l
<1>4. m \in Tasks /\ m.kind = t.kind /\ m.doomed = t.doomed /\ m.at = "counting" /\ m.wake = now + Period
    BY <1>1, <1>3 DEF Tasks, Places
<1>5. n = m
    BY <1>2
<1> HIDE DEF m
<1> QED BY <1>2, <1>4, <1>5

-----------------------------------------------------------------------------
(* What a step of one task keeps.                                          *)

\* A task that takes another place.
Fits(u) ==
    /\ u \in Tasks /\ ~u.doomed /\ u.at # "spawned" /\ config.authorized
    /\ u.kind = "start" => StarterKnows(u)

LEMMA OtherTasksAreKept ==
    ASSUME TypeOK, Cancellations, Beliefs, UNCHANGED <<now, config, zero, disturbed>>,
           \A u \in tasks' : u \in tasks \/ Fits(u)
    PROVE  tasks' \subseteq Tasks /\ Cancellations' /\ Beliefs'
<1>1. tasks' \subseteq Tasks
    BY DEF TypeOK, Fits
<1>2. Cancellations'
    <2> SUFFICES ASSUME NEW u \in tasks'
                 PROVE  /\ u.doomed => /\ u.at \in {"spawned", "edgeWoken", "woken", "counting", "countingDue"}
                                       /\ disturbed'
                        /\ ~u.doomed => config'.authorized
                        /\ u.at = "spawned" /\ ~u.doomed => u = Spawned(u.kind)
        BY DEF Cancellations
    <2>1. CASE Fits(u)
        BY <2>1 DEF Fits
    <2>2. CASE u \in tasks
        BY <2>2 DEF Cancellations
    <2> QED BY <2>1, <2>2
<1>3. Beliefs'
    <2> SUFFICES ASSUME NEW u \in tasks', u.kind = "start"
                 PROVE  StarterKnows(u)'
        BY DEF Beliefs
    <2>1. StarterKnows(u)
        BY DEF Beliefs, Fits
    <2> QED BY <2>1 DEF StarterKnows
<1> QED BY <1>1, <1>2, <1>3

LEMMA ReadinessIsKept ==
    ASSUME StarterIsReady, UNCHANGED <<now, zero, disturbed, armed>>,
           NEW t \in tasks, NEW new, tasks' = (tasks \ {t}) \cup new,
           Ready(t) => \E n \in new : Ready(n)
    PROVE  StarterIsReady'
<1> SUFFICES ASSUME armed PROVE \E u \in tasks' : Ready(u)'
    BY DEF StarterIsReady
<1>1. PICK u \in tasks : Ready(u)
    BY DEF StarterIsReady
<1>2. PICK v \in tasks' : Ready(v)
    BY <1>1
<1>3. Ready(v)'
    BY <1>2 DEF Ready
<1> QED BY <1>3

LEMMA GuardIsKept ==
    ASSUME DronesAreGuarded, UNCHANGED <<now, config, zero, disturbed, told, reconfigured>>,
           NEW t \in tasks, NEW new, tasks' = (tasks \ {t}) \cup new,
           Guards(t) => \E n \in new : Guards(n)
    PROVE  DronesAreGuarded'
<1>1. told' # None => told' >= now'
    BY DEF DronesAreGuarded
<1>2. ASSUME told # None, ~reconfigured
      PROVE  (told' = now' /\ disturbed') \/ Settled' \/ \E u \in tasks' : Guards(u)'
    <2>1. CASE (told = now /\ disturbed) \/ Settled
        BY <2>1 DEF Settled, ShouldRun, ShouldRunIn, Reading
    <2>2. CASE \E u \in tasks : Guards(u)
        <3>1. PICK v \in tasks' : Guards(v)
            BY <2>2
        <3>2. Guards(v)'
            BY <3>1 DEF Guards
        <3> QED BY <3>2
    <2> QED BY <1>2, <2>1, <2>2 DEF DronesAreGuarded
<1> QED BY <1>1, <1>2 DEF DronesAreGuarded

-----------------------------------------------------------------------------
(* The steps of an alarm.                                                  *)

LEMMA ReceiveKeeps ==
    ASSUME IInv, NEW t \in tasks, Receive(t)
    PROVE  IInv'
<1>0. TypeOK /\ Cancellations /\ Beliefs /\ StarterIsReady /\ DronesAreGuarded /\ t \in Tasks
    BY DEF IInv, TypeOK
<1>1. /\ UNCHANGED <<now, changes, config, timecode, zero, told, disturbed, armed, reconfigured>>
      /\ AtLoopHead(t) /\ ~Rings(t)
    BY DEF Receive
<1>2. ~Guards(t)
    BY <1>1 DEF Guards, AtLoopHead
<1>3. CASE t.doomed
    <2>1. tasks' = (tasks \ {t}) \cup {}
        BY <1>3 DEF Receive, Replace
    <2>2. tasks' \subseteq Tasks /\ Cancellations' /\ Beliefs'
        BY <1>0, <1>1, <2>1, OtherTasksAreKept
    <2>3. StarterIsReady' /\ DronesAreGuarded'
        BY <1>0, <1>1, <1>2, <1>3, <2>1, ReadinessIsKept, GuardIsKept DEF Ready
    <2> QED BY <1>0, <1>1, <2>2, <2>3 DEF IInv, TypeOK
<1>4. CASE ~t.doomed
    <2>1. PICK n \in Tasks :
             /\ tasks' = (tasks \ {t}) \cup {n}
             /\ n.kind = t.kind /\ n.doomed = t.doomed
             /\ n.running = SeesRunning(t)
             /\ \/ t.events > 0 /\ PastEdge(t) /\ n.at = "woken"
                \/ t.events > 0 /\ ~PastEdge(t) /\ n.at = "edgeWoken"
                \/ ~PastEdge(t) /\ n.at = "edge"
                \/ PastEdge(t) /\ n.at = "waiting" /\ n.wake = IF SeesRunning(t) THEN NextWake(t) ELSE None
        BY <1>0, <1>4, ReceiveEffect
    <2>2. SeesRunning(t) => zero # None
        BY <1>0, <1>1, StoppedClockRings
    <2>3. StarterKnows(n)
        BY <2>1, <2>2 DEF StarterKnows
    <2>4. tasks' \subseteq Tasks /\ Cancellations' /\ Beliefs'
        <3>1. Fits(n)
            BY <1>0, <1>1, <1>4, <2>1, <2>3 DEF Fits, Cancellations, AtLoopHead
        <3> QED BY <1>0, <1>1, <2>1, <3>1, OtherTasksAreKept
    <2>5. ASSUME Ready(t)
          PROVE  Ready(n)
        <3>1. /\ t.kind = "start" /\ n.kind = "start" /\ ~n.doomed
              /\ t.at \in {"spawned", "woken", "timer", "polling"}
            BY <1>1, <2>1, <2>5 DEF Ready, AtLoopHead
        <3>2. /\ now \in Nat /\ Left(t) \in Int
              /\ zero # None => zero \in Int /\ Left(t) = zero - now
              /\ zero = None => Left(t) <= 0
            BY <1>0, <3>1, ClockTypes
        <3>3. t.at \in {"timer", "polling"} => SeesRunning(t)
            BY <2>5 DEF Ready, SeesRunning
        <3>4. t.at \in {"spawned", "woken"} => (SeesRunning(t) <=> zero # None)
            BY DEF SeesRunning
        <3>5. ASSUME PastEdge(t), n.at = "waiting", n.wake = IF SeesRunning(t) THEN NextWake(t) ELSE None
              PROVE  Ready(n)
            <4>1. zero # None => SeesRunning(t)
                BY <3>1, <3>3, <3>4
            <4>2. ASSUME zero # None
                  PROVE  n.wake # None /\ n.wake <= zero - 1
                <5>1. n.wake = NextWake(t) /\ NextWake(t) \in Int
                    BY <1>0, <3>5, <4>1, <4>2, NextWakeType
                <5>2. Left(t) > 0
                    BY <1>1, <3>2, <3>5, <4>1, <4>2 DEF Rings
                <5>3. NextWake(t) <= now + (Left(t) - 1)
                    BY <1>0, <5>2, NextWakeType
                <5>4. NextWake(t) <= zero - 1
                    BY <3>2, <4>2, <5>1, <5>3
                <5> QED BY <5>1, <5>4, Constants
            <4>3. n.wake # None => n.running
                BY <2>1, <3>5
            <4> QED BY <3>1, <3>5, <4>2, <4>3 DEF Ready
        <3>6. CASE t.at = "spawned"
            <4>1. zero # None /\ disturbed /\ t.events = 0
                BY <1>0, <1>4, <2>5, <3>1, <3>6, SpawnedType DEF Cancellations, Ready
            <4>2. PastEdge(t) <=> Left(t) > 0
                BY <3>1, <3>4, <3>6, <4>1 DEF PastEdge
            <4>3. ~PastEdge(t) => zero < now \/ zero = now
                BY <3>2, <4>1, <4>2
            <4>4. n.at = "edge" /\ ~PastEdge(t) => Ready(n)
                BY <3>1, <4>1, <4>3 DEF Ready
            <4> QED BY <2>1, <3>5, <4>1, <4>4
        <3>7. CASE t.at # "spawned"
            <4>1. PastEdge(t)
                BY <3>1, <3>7 DEF PastEdge
            <4>2. n.at = "woken" => Ready(n)
                BY <3>1 DEF Ready
            <4> QED BY <2>1, <3>5, <4>1, <4>2
        <3> QED BY <3>6, <3>7
    <2>6. StarterIsReady' /\ DronesAreGuarded'
        BY <1>0, <1>1, <1>2, <2>1, <2>5, ReadinessIsKept, GuardIsKept
    <2> QED BY <1>0, <1>1, <2>4, <2>6 DEF IInv, TypeOK
<1> QED BY <1>3, <1>4

LEMMA PollKeeps ==
    ASSUME IInv, NEW t \in tasks, Poll(t)
    PROVE  IInv'
<1>0. TypeOK /\ Cancellations /\ Beliefs /\ StarterIsReady /\ DronesAreGuarded /\ t \in Tasks
    BY DEF IInv, TypeOK
<1>1. UNCHANGED <<now, changes, config, timecode, zero, told, disturbed, armed, reconfigured>>
    BY DEF Poll
<1>2. t.at \in {"timer", "polling"} /\ Left(t) = 1
    BY <1>0, PollEffect
<1>3. PICK n \in Tasks :
          /\ tasks' = (tasks \ {t}) \cup {n}
          /\ n.kind = t.kind /\ n.doomed = t.doomed /\ n.at = "polling"
          /\ n.running = t.running \/ n.running = (zero # None)
    BY <1>0, PollEffect
<1>4. zero # None
    BY <1>0, <1>2, ClockTypes
<1>5. ~t.doomed
    BY <1>0, <1>2 DEF Cancellations
<1>6. StarterKnows(n)
    BY <1>3, <1>4 DEF StarterKnows
<1>7. tasks' \subseteq Tasks /\ Cancellations' /\ Beliefs'
    <2>1. Fits(n)
        BY <1>0, <1>3, <1>5, <1>6 DEF Fits, Cancellations
    <2> QED BY <1>0, <1>1, <1>3, <2>1, OtherTasksAreKept
<1>8. Ready(t) => Ready(n)
    <2>1. ASSUME Ready(t) PROVE n.running
        <3>1. t.running
            BY <1>2, <2>1 DEF Ready
        <3> QED BY <1>3, <1>4, <3>1
    <2> QED BY <1>3, <2>1 DEF Ready
<1>9. ~Guards(t)
    BY <1>2 DEF Guards
<1>10. StarterIsReady' /\ DronesAreGuarded'
    BY <1>0, <1>1, <1>3, <1>8, <1>9, ReadinessIsKept, GuardIsKept
<1> QED BY <1>0, <1>1, <1>7, <1>10 DEF IInv, TypeOK

LEMMA TimerKeeps ==
    ASSUME IInv, NEW t \in tasks, TimerExpires(t)
    PROVE  IInv'
<1>0. TypeOK /\ Cancellations /\ Beliefs /\ StarterIsReady /\ DronesAreGuarded /\ t \in Tasks
    BY DEF IInv, TypeOK
<1>1. UNCHANGED <<now, changes, config, timecode, zero, told, disturbed, armed, reconfigured>>
    BY DEF TimerExpires
<1>2. t.at \in {"waiting", "counting"} /\ ~t.doomed /\ t.wake # None /\ t.wake <= now
    BY <1>0, TimerEffect
<1>3. PICK n \in Tasks :
          /\ tasks' = (tasks \ {t}) \cup {n}
          /\ n.kind = t.kind /\ n.doomed = t.doomed /\ n.running = t.running
          /\ n.at = IF t.at = "counting" THEN "countingDue" ELSE "timer"
    BY <1>0, TimerEffect
<1>4. n.kind = "start" => StarterKnows(n)
    <2> SUFFICES ASSUME n.kind = "start" PROVE StarterKnows(n)
        OBVIOUS
    <2>1. StarterKnows(t)
        BY <1>0, <1>3 DEF Beliefs
    <2>2. t.at = "waiting" /\ zero # None /\ n.at = "timer"
        BY <1>2, <1>3, <2>1 DEF StarterKnows
    <2> QED BY <2>2 DEF StarterKnows
<1>5. n.at # "spawned"
    BY <1>3
<1>6. tasks' \subseteq Tasks /\ Cancellations' /\ Beliefs'
    <2>1. Fits(n)
        BY <1>0, <1>2, <1>3, <1>4, <1>5 DEF Fits, Cancellations
    <2> QED BY <1>0, <1>1, <1>3, <2>1, OtherTasksAreKept
<1>7. Ready(t) => Ready(n)
    BY <1>2, <1>3 DEF Ready
<1>8. Guards(t) => Guards(n)
    <2> SUFFICES ASSUME Guards(t) PROVE Guards(n)
        OBVIOUS
    <2>1. /\ t.at = "counting" /\ n.at = "countingDue" /\ t.kind = "countdown"
          /\ now <= t.wake /\ (zero # told => told > t.wake - Period + NoReturn)
        BY <1>2, <1>3 DEF Guards
    <2>2. now \in Int /\ t.wake \in Int
        BY <1>0, <1>2, ClockTypes, TaskFields DEF Instants
    <2>3. t.wake = now
        BY <1>2, <2>1, <2>2
    <2> QED BY <1>2, <1>3, <2>1, <2>3 DEF Guards
<1>9. StarterIsReady' /\ DronesAreGuarded'
    BY <1>0, <1>1, <1>3, <1>7, <1>8, ReadinessIsKept, GuardIsKept
<1> QED BY <1>0, <1>1, <1>6, <1>9 DEF IInv, TypeOK

-----------------------------------------------------------------------------
(* The starter and the countdown.                                          *)

\* The show that is started is authorized and due.
LEMMA StartIsDue ==
    ASSUME IInv, NEW t \in tasks, StartShow(t), ~disturbed
    PROVE  ShouldRun /\ Reading >= 0
<1>0. TypeOK /\ Cancellations /\ Beliefs /\ t \in Tasks
    BY DEF IInv, TypeOK
<1>1. t.kind = "start" /\ AtLoopHead(t) /\ Left(t) <= 0 /\ SeesRunning(t)
    BY DEF StartShow, Rings
<1>2. config.authorized
    BY <1>0 DEF Cancellations
<1>3. zero # None
    <2>1. CASE t.at \in {"spawned", "woken"}
        BY <1>1, <2>1 DEF SeesRunning
    <2>2. CASE t.at \notin {"spawned", "woken"}
        <3>1. t.running /\ t.at \in {"edgeWoken", "timer", "polling"}
            BY <1>1, <2>2 DEF SeesRunning, AtLoopHead
        <3> QED BY <1>0, <1>1, <3>1 DEF Beliefs, StarterKnows
    <2> QED BY <2>1, <2>2
<1>4. Reading \in Int /\ Left(t) = 0 - Reading
    BY <1>0, <1>1, ClockTypes
<1>5. Reading >= 0
    BY <1>1, <1>4
<1> QED BY <1>2, <1>3, <1>5 DEF ShouldRun, ShouldRunIn

LEMMA StartKeeps ==
    ASSUME IInv, NEW t \in tasks, StartShow(t)
    PROVE  IInv'
<1>0. TypeOK /\ Cancellations /\ Beliefs
    BY DEF IInv
<1>1. /\ UNCHANGED <<now, changes, config, timecode, zero, disturbed>>
      /\ tasks' = (tasks \ {t}) \cup {} /\ told' = now /\ armed' = FALSE /\ reconfigured' = FALSE
    BY DEF StartShow, Replace
<1>2. tasks' \subseteq Tasks /\ Cancellations' /\ Beliefs'
    BY <1>0, <1>1, OtherTasksAreKept
<1>3. StarterIsReady'
    BY <1>1 DEF StarterIsReady
<1>4. now \in Nat /\ (zero # None => zero \in Int /\ Reading = now - zero)
    <2>1. t \in Tasks
        BY <1>0 DEF TypeOK
    <2> QED BY <1>0, <2>1, ClockTypes
<1>5. DronesAreGuarded'
    <2>1. told' >= now' /\ told' = now'
        BY <1>1, <1>4
    <2>2. CASE disturbed
        BY <1>1, <2>1, <2>2 DEF DronesAreGuarded
    <2>3. CASE ~disturbed
        <3>1. ShouldRun /\ Reading >= 0
            BY <2>3, StartIsDue
        <3>2. zero # None
            BY <3>1 DEF ShouldRun, ShouldRunIn
        <3>3. zero <= now /\ Reading >= -1
            BY <1>4, <3>1, <3>2
        <3>4. Settled'
            BY <1>1, <3>1, <3>3 DEF Settled, ShouldRun, ShouldRunIn, Reading
        <3> QED BY <2>1, <3>4 DEF DronesAreGuarded
    <2> QED BY <2>2, <2>3
<1>6. TypeOK'
    <2>1. told' \in Instants
        BY <1>1, <1>4 DEF Instants
    <2>2. disturbed' \in BOOLEAN /\ armed' \in BOOLEAN /\ reconfigured' \in BOOLEAN
        BY <1>0, <1>1 DEF TypeOK
    <2> QED BY <1>0, <1>1, <1>2, <2>1, <2>2 DEF TypeOK
<1> QED BY <1>2, <1>3, <1>5, <1>6 DEF IInv

LEMMA IterationIsOfCountdown ==
    ASSUME IInv, NEW t \in tasks, AtIteration(t) \/ t.at \in {"counting", "countingDue"}
    PROVE  t.kind = "countdown" /\ ~Ready(t)
<1>1. t.kind \in {"start", "countdown"}
    BY TaskFields DEF IInv, TypeOK
<1>2. t.kind = "countdown"
    BY <1>1 DEF AtIteration, IInv, Beliefs, StarterKnows
<1> QED BY <1>2 DEF Ready

LEMMA PauseKeepsTasks ==
    ASSUME IInv, NEW t \in tasks, AtIteration(t),
           UNCHANGED <<now, config, zero, disturbed, armed>>,
           tasks' = (tasks \ {t}) \cup Paused(t)
    PROVE  tasks' \subseteq Tasks /\ Cancellations' /\ Beliefs' /\ StarterIsReady'
<1>0. TypeOK /\ Cancellations /\ Beliefs /\ StarterIsReady
    BY DEF IInv
<1>1. t.kind = "countdown" /\ ~Ready(t)
    BY IterationIsOfCountdown
<1>2. ASSUME NEW n \in Paused(t)
      PROVE  Fits(n)
    <2>1. n \in Tasks /\ n.kind = t.kind /\ ~t.doomed /\ n.doomed = t.doomed /\ n.at = "counting"
        BY <1>0, PausedFields
    <2>2. config.authorized
        BY <1>0, <2>1 DEF Cancellations
    <2> QED BY <1>1, <2>1, <2>2 DEF Fits
<1>3. tasks' \subseteq Tasks /\ Cancellations' /\ Beliefs'
    BY <1>0, <1>2, OtherTasksAreKept
<1>4. StarterIsReady'
    BY <1>0, <1>1, ReadinessIsKept
<1> QED BY <1>3, <1>4

LEMMA CallOffKeeps ==
    ASSUME IInv, NEW t \in tasks, CallOff(t)
    PROVE  IInv'
<1>0. TypeOK
    BY DEF IInv
<1>1. /\ UNCHANGED <<now, changes, config, timecode, zero, disturbed, armed>>
      /\ AtIteration(t) /\ tasks' = (tasks \ {t}) \cup Paused(t)
      /\ told' = None /\ reconfigured' = t.doomed
    BY DEF CallOff, Replace
<1>2. tasks' \subseteq Tasks /\ Cancellations' /\ Beliefs' /\ StarterIsReady'
    BY <1>1, PauseKeepsTasks
<1>3. DronesAreGuarded'
    BY <1>1 DEF DronesAreGuarded
<1>4. reconfigured' \in BOOLEAN
    BY <1>0, <1>1, TaskFields DEF TypeOK
<1>5. TypeOK'
    BY <1>0, <1>1, <1>2, <1>4 DEF TypeOK, Instants
<1> QED BY <1>2, <1>3, <1>5 DEF IInv

LEMMA AnnounceKeeps ==
    ASSUME IInv, NEW t \in tasks, Announce(t)
    PROVE  IInv'
<1>0. TypeOK /\ t \in Tasks
    BY DEF IInv, TypeOK
<1>1. /\ UNCHANGED <<now, changes, config, timecode, zero, disturbed, armed>>
      /\ AtIteration(t) /\ tasks' = (tasks \ {t}) \cup Paused(t)
      /\ told' = now - Reading /\ reconfigured' = t.doomed
      /\ ShouldRun /\ ~AlmostZero
    BY DEF Announce, Replace
<1>2. tasks' \subseteq Tasks /\ Cancellations' /\ Beliefs' /\ StarterIsReady'
    BY <1>1, PauseKeepsTasks
<1>3. zero # None
    BY <1>1 DEF ShouldRun, ShouldRunIn
<1>4. now \in Nat /\ zero \in Int /\ Reading = now - zero
    BY <1>0, <1>3, ClockTypes
<1>5. told' = zero /\ told' >= now
    BY <1>1, <1>4 DEF AlmostZero
<1>6. ASSUME ~t.doomed
      PROVE  \E n \in tasks' : Guards(n)'
    <2>1. PICK n : n \in Paused(t)
        BY <1>6 DEF Paused
    <2>2. n.kind = t.kind /\ ~n.doomed /\ n.at = "counting" /\ n.wake = now + Period /\ n \in tasks'
        BY <1>0, <1>1, <1>6, <2>1, PausedFields
    <2>3. t.kind = "countdown"
        BY <1>1, IterationIsOfCountdown
    <2>4. n.wake # None /\ now <= n.wake /\ n.wake <= now + Period
        BY <1>4, <2>2, Constants
    <2>5. Guards(n)'
        BY <1>1, <1>5, <2>2, <2>3, <2>4 DEF Guards
    <2> QED BY <2>2, <2>5
<1>7. DronesAreGuarded'
    BY <1>1, <1>5, <1>6 DEF DronesAreGuarded
<1>8. reconfigured' \in BOOLEAN /\ told' \in Instants
    BY <1>0, <1>1, <1>4, <1>5, TaskFields DEF Instants
<1>9. TypeOK'
    BY <1>0, <1>1, <1>2, <1>8 DEF TypeOK
<1> QED BY <1>2, <1>7, <1>9 DEF IInv

\* The countdown ends when the drones need not be told any more.
LEMMA EndKeeps ==
    ASSUME IInv, NEW t \in tasks, EndCountdown(t)
    PROVE  IInv'
<1>0. TypeOK /\ Cancellations /\ Beliefs /\ StarterIsReady /\ DronesAreGuarded /\ t \in Tasks
    BY DEF IInv, TypeOK
<1>1. /\ UNCHANGED <<now, changes, config, timecode, zero, disturbed, armed, reconfigured>>
      /\ tasks' = (tasks \ {t}) \cup {} /\ told' = ToldInTheEnd
      /\ \/ AtIteration(t) /\ (~ShouldRun \/ (~SteppedBack(t) /\ AlmostZero))
         \/ t.at \in {"counting", "countingDue"} /\ t.doomed
    BY DEF EndCountdown, Replace
<1>2. tasks' \subseteq Tasks /\ Cancellations' /\ Beliefs'
    BY <1>0, <1>1, OtherTasksAreKept
<1>3. ~Ready(t)
    BY <1>1, IterationIsOfCountdown
<1>4. StarterIsReady'
    BY <1>0, <1>1, <1>3, ReadinessIsKept
<1>5. CASE ~ShouldRun
    <2>1. told' = None
        BY <1>1, <1>5 DEF ToldInTheEnd
    <2>2. TypeOK'
        BY <1>0, <1>1, <1>2, <2>1 DEF TypeOK, Instants
    <2> QED BY <1>2, <1>4, <2>1, <2>2 DEF IInv, DronesAreGuarded
<1>6. CASE ShouldRun
    <2>1. told' = told
        BY <1>1, <1>6 DEF ToldInTheEnd
    <2>2. TypeOK'
        BY <1>0, <1>1, <1>2, <2>1 DEF TypeOK
    <2>3. ASSUME told # None, Guards(t)
          PROVE  Settled
        <3>1. AtIteration(t) /\ AlmostZero /\ t.at = "countingDue"
            BY <1>1, <1>6, <2>3 DEF Guards, AtIteration, Rings, AtLoopHead
        <3>2. zero # told => told > now - Period + NoReturn
            BY <2>3, <3>1 DEF Guards
        <3>3. zero # None
            BY <1>6 DEF ShouldRun, ShouldRunIn
        <3>4. now \in Nat /\ zero \in Int /\ Reading = now - zero /\ told \in Int
            BY <1>0, <2>3, <3>3, ClockTypes DEF TypeOK, Instants
        <3>5. Reading >= -1
            BY <3>1 DEF AlmostZero
        <3>6. zero <= told
            BY <3>2, <3>4, <3>5, Constants
        <3> QED BY <1>6, <3>5, <3>6 DEF Settled
    <2>4. DronesAreGuarded'
        <3>1. CASE Guards(t) /\ told # None
            <4>1. Settled'
                BY <1>1, <2>1, <2>3, <3>1 DEF Settled, ShouldRun, ShouldRunIn, Reading
            <4> QED BY <1>0, <1>1, <2>1, <4>1 DEF DronesAreGuarded
        <3>2. CASE ~Guards(t)
            BY <1>0, <1>1, <2>1, <3>2, GuardIsKept
        <3>3. CASE told = None
            BY <2>1, <3>3 DEF DronesAreGuarded
        <3> QED BY <3>1, <3>2, <3>3
    <2> QED BY <1>2, <1>4, <2>2, <2>4 DEF IInv
<1> QED BY <1>5, <1>6

-----------------------------------------------------------------------------
(* Clients, the timecode and time.                                         *)

LEMMA SignalledTasks ==
    ASSUME TypeOK, NEW z
    PROVE  /\ Signalled(tasks, z) \in SUBSET Tasks
           /\ \A u \in Signalled(tasks, z) : \E t \in tasks : u = t \/ u = Notified(t)
<1>1. \A t \in tasks : t \in Tasks /\ Notified(t) \in Tasks
    BY NotifiedFields DEF TypeOK
<1>2. CASE z = zero
    BY <1>1, <1>2 DEF Signalled
<1>3. CASE z # zero
    BY <1>1, <1>3 DEF Signalled
<1> QED BY <1>2, <1>3

\* The old tasks are cancelled, and the new ones are those of an authorized show
\* whose clock runs.
LEMMA ConfigureKeeps ==
    ASSUME IInv, NEW c \in Configurations, NEW otherDuration \in BOOLEAN, Configure(c, otherDuration)
    PROVE  IInv'
<1>0. TypeOK /\ Cancellations /\ Beliefs /\ DronesAreGuarded
    BY DEF IInv
<1> DEFINE ts == Signalled(tasks, zero')
<1>1. /\ UNCHANGED <<now, timecode, told>>
      /\ config' = c /\ disturbed' = TRUE
      /\ zero' = zero \/ zero' = Desired(c, timecode)
      /\ tasks' = Cancelled(ts) \cup CreatedTasks(c, zero')
      /\ armed' = ShouldRunIn(c, zero')
      /\ reconfigured' = (told # None)
      /\ changes < MaxChanges /\ changes' = changes + 1
    BY DEF Configure, RenewedTasks, Change
<1>2. /\ ts \in SUBSET Tasks
      /\ \A u \in ts : \E t \in tasks : u = t \/ u = Notified(t)
    BY <1>0, SignalledTasks
<1> HIDE DEF ts
<1>3. ASSUME NEW u \in tasks'
      PROVE  /\ u \in Tasks
             /\ \/ /\ u.doomed
                   /\ u.at \in {"spawned", "edgeWoken", "woken", "counting", "countingDue"}
                   /\ \E t \in ts : u.kind = t.kind /\ u.at = t.at
                \/ /\ u = Spawned(u.kind) /\ u.at = "spawned" /\ ~u.doomed
                   /\ ShouldRunIn(c, zero')
    <2>1. CASE u \in Cancelled(ts)
        BY <1>2, <2>1, CancelledFields
    <2>2. CASE u \in CreatedTasks(c, zero')
        <3>1. PICK k \in {"start", "countdown"} : u = Spawned(k)
            BY <2>2 DEF CreatedTasks
        <3>2. ShouldRunIn(c, zero')
            BY <2>2 DEF CreatedTasks
        <3> QED BY <3>1, <3>2, SpawnedType
    <2> QED BY <1>1, <2>1, <2>2
<1>4. TypeOK'
    <2>1. zero' \in Instants
        BY <1>0, <1>1, DesiredType DEF TypeOK
    <2>2. c.authorized \in BOOLEAN
        BY DEF Configurations
    <2>3. armed' \in BOOLEAN
        BY <1>1, <2>2 DEF ShouldRunIn
    <2>4. reconfigured' \in BOOLEAN /\ disturbed' \in BOOLEAN
        BY <1>1
    <2>5. changes' \in 0 .. MaxChanges
        BY <1>0, <1>1, Constants DEF TypeOK
    <2>6. tasks' \subseteq Tasks
        BY <1>3
    <2> QED BY <1>0, <1>1, <2>1, <2>3, <2>4, <2>5, <2>6 DEF TypeOK
<1>5. Cancellations'
    <2>1. ShouldRunIn(c, zero') => config'.authorized
        BY <1>1 DEF ShouldRunIn
    <2> QED BY <1>1, <1>3, <2>1 DEF Cancellations
<1>6. Beliefs'
    <2> SUFFICES ASSUME NEW u \in tasks', u.kind = "start" PROVE StarterKnows(u)'
        BY DEF Beliefs
    <2>1. ASSUME NEW t \in ts, t.kind = "start"
          PROVE  t.at \notin {"counting", "countingDue"}
        <3>1. PICK v \in tasks : t = v \/ t = Notified(v)
            BY <1>2
        <3>2. v \in Tasks
            BY <1>0 DEF TypeOK
        <3>3. v.kind = "start" /\ (v.at \in {"counting", "countingDue"} <=> t.at \in {"counting", "countingDue"})
            BY <2>1, <3>1, <3>2, NotifiedFields
        <3> QED BY <1>0, <3>3 DEF Beliefs, StarterKnows
    <2>2. u.at \in {"spawned", "edgeWoken", "woken"}
        BY <1>3, <2>1
    <2> QED BY <1>1, <2>2 DEF StarterKnows
<1>7. StarterIsReady'
    <2> SUFFICES ASSUME armed' PROVE \E t \in tasks' : Ready(t)'
        BY DEF StarterIsReady
    <2>1. ShouldRunIn(c, zero') /\ zero' # None
        BY <1>1 DEF ShouldRunIn
    <2>2. PICK s : s = Spawned("start")
        OBVIOUS
    <2>3. s \in tasks' /\ s.kind = "start" /\ s.at = "spawned" /\ ~s.doomed
        BY <1>1, <2>1, <2>2, SpawnedType DEF CreatedTasks
    <2>4. Ready(s)'
        BY <1>1, <2>1, <2>3 DEF Ready
    <2> QED BY <2>3, <2>4
<1>8. DronesAreGuarded'
    BY <1>0, <1>1 DEF DronesAreGuarded
<1> QED BY <1>4, <1>5, <1>6, <1>7, <1>8 DEF IInv

\* The timecode moves the clock only as long as nobody relies on it.
LEMMA TimecodeKeeps ==
    ASSUME IInv, NEW v \in Timecodes \cup {None}, TimecodeChanges(v)
    PROVE  IInv'
<1>0. TypeOK /\ Cancellations /\ Beliefs /\ StarterIsReady /\ DronesAreGuarded
    BY DEF IInv
<1>1. /\ UNCHANGED <<now, config, told, reconfigured>>
      /\ timecode' = v
      /\ zero' = zero \/ (~BeyondPointOfNoReturn /\ zero' = Desired(config, v))
      /\ tasks' = Signalled(tasks, zero')
      /\ disturbed' = (disturbed \/ (zero # None /\ zero' = None))
      /\ armed' = (armed /\ ~(zero' = None /\ Spawned("start") \in tasks))
      /\ changes < MaxChanges /\ changes' = changes + 1
    BY DEF TimecodeChanges, Change
<1>2. /\ tasks' \in SUBSET Tasks
      /\ \A u \in tasks' : \E t \in tasks : u = t \/ u = Notified(t)
    BY <1>0, <1>1, SignalledTasks
<1>3. now \in Nat /\ (zero # None => zero \in Int /\ Reading = now - zero)
    <2>1. now \in Nat /\ zero \in Int \cup {None}
        BY <1>0 DEF TypeOK, Instants
    <2> QED BY <2>1 DEF Reading
<1>4. TypeOK'
    <2>1. zero' \in Instants
        BY <1>0, <1>1, DesiredType DEF TypeOK
    <2>2. disturbed' \in BOOLEAN /\ armed' \in BOOLEAN /\ reconfigured' \in BOOLEAN
        BY <1>0, <1>1 DEF TypeOK
    <2>3. changes' \in 0 .. MaxChanges
        BY <1>0, <1>1, Constants DEF TypeOK
    <2> QED BY <1>0, <1>1, <1>2, <2>1, <2>2, <2>3 DEF TypeOK
<1>5. disturbed => disturbed'
    BY <1>1
<1>6. CASE zero' = zero
    <2>1. tasks' = tasks
        BY <1>1, <1>6 DEF Signalled
    <2>2. Cancellations'
        BY <1>0, <1>1, <1>5, <2>1 DEF Cancellations
    <2>3. Beliefs'
        BY <1>0, <1>5, <1>6, <2>1 DEF Beliefs, StarterKnows
    <2>4. StarterIsReady'
        <3>1. \A t \in tasks : Ready(t) => Ready(t)'
            BY <1>1, <1>5, <1>6 DEF Ready
        <3>2. armed' => armed
            BY <1>1
        <3> QED BY <1>0, <2>1, <3>1, <3>2 DEF StarterIsReady
    <2>5. DronesAreGuarded'
        <3>1. \A t \in tasks : Guards(t) => Guards(t)'
            BY <1>1, <1>6 DEF Guards
        <3>2. Settled => Settled'
            BY <1>1, <1>6 DEF Settled, ShouldRun, ShouldRunIn, Reading
        <3> QED BY <1>0, <1>1, <1>5, <2>1, <3>1, <3>2 DEF DronesAreGuarded
    <2> QED BY <1>4, <2>2, <2>3, <2>4, <2>5 DEF IInv
<1>7. CASE zero' # zero
    <2>1. tasks' = {Notified(t) : t \in tasks}
        BY <1>1, <1>7 DEF Signalled
    <2>2. zero # None => ~(Reading >= 0 - NoReturn)
        BY <1>1, <1>7, Constants DEF BeyondPointOfNoReturn
    <2>3. ASSUME NEW t \in tasks
          PROVE  /\ t \in Tasks /\ Notified(t) \in tasks' /\ Notified(t) \in Tasks
                 /\ Notified(t).kind = t.kind /\ Notified(t).doomed = t.doomed
                 /\ Notified(t).running = t.running
                 /\ t.at = "edge" => Notified(t).at = "edgeWoken"
                 /\ t.at = "waiting" => Notified(t).at = "woken"
                 /\ t.at \notin {"edge", "waiting"} => Notified(t).at = t.at
                 /\ t.at \in {"spawned", "counting", "countingDue"} => Notified(t) = t
        BY <1>0, <2>1, NotifiedFields DEF TypeOK
    <2>4. Cancellations'
        <3> SUFFICES ASSUME NEW u \in tasks'
                     PROVE  /\ u.doomed => /\ u.at \in {"spawned", "edgeWoken", "woken", "counting", "countingDue"}
                                           /\ disturbed'
                            /\ ~u.doomed => config'.authorized
                            /\ u.at = "spawned" /\ ~u.doomed => u = Spawned(u.kind)
            BY DEF Cancellations
        <3>1. PICK t \in tasks : u = Notified(t)
            BY <2>1
        <3>2. u.doomed => /\ t.at \in {"spawned", "edgeWoken", "woken", "counting", "countingDue"}
                          /\ u.at = t.at /\ disturbed'
            BY <1>0, <1>5, <2>3, <3>1 DEF Cancellations
        <3>3. ~u.doomed => config'.authorized
            BY <1>0, <1>1, <2>3, <3>1 DEF Cancellations
        <3>4. u.at = "spawned" => u = t
            BY <2>3, <3>1
        <3> QED BY <1>0, <3>2, <3>3, <3>4 DEF Cancellations
    <2>5. Beliefs'
        <3> SUFFICES ASSUME NEW u \in tasks', u.kind = "start" PROVE StarterKnows(u)'
            BY DEF Beliefs
        <3>1. PICK t \in tasks : u = Notified(t)
            BY <2>1
        <3>2. u.at \notin {"edge", "waiting", "counting", "countingDue"}
            BY <1>0, <2>3, <3>1 DEF Beliefs, StarterKnows
        <3>3. zero' # None \/ disturbed'
            BY <1>1, <1>7
        <3> QED BY <3>2, <3>3 DEF StarterKnows
    <2>6. StarterIsReady'
        <3> SUFFICES ASSUME armed' PROVE \E u \in tasks' : Ready(u)'
            BY DEF StarterIsReady
        <3>1. armed /\ ~(zero' = None /\ Spawned("start") \in tasks)
            BY <1>1
        <3>2. PICK t \in tasks : Ready(t)
            BY <1>0, <3>1 DEF StarterIsReady
        <3>3. PICK u \in tasks' : u = Notified(t)
            BY <2>3
        <3>4. t.at # "edge"
            BY <1>3, <2>2, <3>2, Constants DEF Ready
        <3>5. u.kind = "start" /\ ~u.doomed
            BY <2>3, <3>2, <3>3 DEF Ready
        <3>6. CASE t.at = "spawned"
            <4>1. t = Spawned("start")
                BY <1>0, <3>2, <3>6 DEF Cancellations, Ready
            <4>2. zero' # None /\ disturbed' /\ u.at = "spawned"
                BY <1>5, <2>3, <3>1, <3>2, <3>3, <3>6, <4>1 DEF Ready
            <4> QED BY <3>5, <4>2 DEF Ready
        <3>7. CASE t.at \in {"waiting", "woken"}
            <4>1. u.at = "woken"
                BY <2>3, <3>3, <3>7
            <4> QED BY <3>5, <4>1 DEF Ready
        <3>8. CASE t.at \in {"timer", "polling"}
            <4>1. u.at = t.at /\ u.running
                BY <2>3, <3>2, <3>3, <3>8 DEF Ready
            <4> QED BY <3>5, <3>8, <4>1 DEF Ready
        <3> QED BY <3>2, <3>4, <3>6, <3>7, <3>8 DEF Ready
    <2>7. DronesAreGuarded'
        <3>1. ~Settled
            <4> SUFFICES ASSUME Settled PROVE FALSE
                OBVIOUS
            <4>1. zero # None /\ Reading >= -1
                BY DEF Settled, ShouldRun, ShouldRunIn
            <4> QED BY <1>3, <2>2, <4>1, Constants
        <3>2. ASSUME NEW t \in tasks, Guards(t), told # None
              PROVE  t \in tasks' /\ Guards(t)'
            <4>1. t \in tasks' /\ t \in Tasks
                BY <2>3, <3>2 DEF Guards
            <4>2. told \in Int
                BY <1>0, <3>2 DEF TypeOK, Instants
            <4>3. zero = told => told > now + NoReturn
                BY <1>3, <2>2, <3>2, <4>2, Constants
            <4>4. CASE t.at = "counting"
                <5>1. /\ t.wake # None /\ now <= t.wake /\ t.wake <= now + Period
                      /\ zero # told => told > t.wake - Period + NoReturn
                    BY <3>2, <4>4 DEF Guards
                <5>2. t.wake \in Int
                    BY <4>1, <5>1, TaskFields DEF Instants
                <5>3. told > t.wake - Period + NoReturn
                    BY <1>3, <4>2, <4>3, <5>1, <5>2, Constants
                <5> QED BY <1>1, <3>2, <4>1, <4>4, <5>1, <5>3 DEF Guards
            <4>5. CASE t.at = "countingDue"
                <5>1. zero # told => told > now - Period + NoReturn
                    BY <3>2, <4>5 DEF Guards
                <5>2. told > now - Period + NoReturn
                    BY <1>3, <4>2, <4>3, <5>1, Constants
                <5> QED BY <1>1, <3>2, <4>1, <4>5, <5>2 DEF Guards
            <4> QED BY <3>2, <4>4, <4>5 DEF Guards
        <3> QED BY <1>0, <1>1, <1>5, <3>1, <3>2 DEF DronesAreGuarded
    <2> QED BY <1>4, <2>4, <2>5, <2>6, <2>7 DEF IInv
<1> QED BY <1>6, <1>7

\* A task that has nothing left to do waits for an event or for a later time.
LEMMA IdleTask ==
    ASSUME IInv, NEW t \in tasks, Idle(t)
    PROVE  /\ ~t.doomed
           /\ \/ t.at = "edge"
              \/ t.at \in {"waiting", "counting"} /\ (t.wake = None \/ t.wake > now)
              \/ t.at = "polling" /\ zero # None /\ Left(t) = 1
<1>0. TypeOK /\ Cancellations /\ t \in Tasks
    BY DEF IInv, TypeOK
<1>1. CASE t.at = "edge"
    BY <1>0, <1>1 DEF Cancellations
<1>2. CASE t.at \in {"waiting", "counting"} /\ ~t.doomed /\ ~TimedOut(t)
    <2>1. now \in Int /\ (t.wake # None => t.wake \in Int)
        BY <1>0, ClockTypes, TaskFields DEF Instants
    <2> QED BY <1>2, <2>1 DEF TimedOut
<1>3. CASE t.at = "polling" /\ Polls(t)
    <2>1. Left(t) = 1
        BY <1>3 DEF Polls
    <2> QED BY <1>0, <1>3, <2>1, ClockTypes DEF Cancellations
<1> QED BY <1>1, <1>2, <1>3 DEF Idle

LEMMA TickKeeps ==
    ASSUME IInv, Tick
    PROVE  IInv'
<1>0. TypeOK /\ Cancellations /\ Beliefs /\ StarterIsReady /\ DronesAreGuarded
    BY DEF IInv
<1>1. /\ UNCHANGED <<changes, config, timecode, zero, tasks, armed, reconfigured>>
      /\ now < MaxTime /\ now' = now + 1 /\ disturbed' = FALSE
      /\ told' = IF told = now THEN None ELSE told
    BY DEF Tick
<1>2. ASSUME NEW t \in tasks
      PROVE  /\ ~t.doomed
             /\ \/ t.at = "edge"
                \/ t.at \in {"waiting", "counting"} /\ (t.wake = None \/ t.wake > now)
                \/ t.at = "polling" /\ zero # None /\ Left(t) = 1
    BY IdleTask DEF Tick
<1>3. /\ now \in Nat /\ MaxTime \in Nat /\ (zero # None => zero \in Int /\ Reading = now - zero)
      /\ told # None => told \in Int
    BY <1>0, Constants DEF TypeOK, Instants, Reading
<1>4. TypeOK'
    <2>1. now' \in 0 .. MaxTime
        BY <1>1, <1>3
    <2>2. told' \in Instants
        BY <1>0, <1>1 DEF TypeOK, Instants
    <2>3. disturbed' \in BOOLEAN /\ armed' \in BOOLEAN /\ reconfigured' \in BOOLEAN
        BY <1>0, <1>1 DEF TypeOK
    <2> QED BY <1>0, <1>1, <2>1, <2>2, <2>3 DEF TypeOK
<1>5. Cancellations'
    BY <1>0, <1>1, <1>2 DEF Cancellations
<1>6. Beliefs'
    <2> SUFFICES ASSUME NEW t \in tasks, t.kind = "start" PROVE StarterKnows(t)'
        BY <1>1 DEF Beliefs
    <2>1. StarterKnows(t)
        BY <1>0 DEF Beliefs
    <2> QED BY <1>1, <1>2, <2>1 DEF StarterKnows
<1>7. StarterIsReady'
    <2> SUFFICES ASSUME armed PROVE \E t \in tasks : Ready(t)'
        BY <1>1 DEF StarterIsReady
    <2>1. PICK t \in tasks : Ready(t)
        BY <1>0 DEF StarterIsReady
    <2>2. t.at # "spawned"
        BY <1>2
    <2>3. t.at = "edge" => zero' # None /\ zero' < now'
        BY <1>1, <1>3, <2>1 DEF Ready
    <2>4. Ready(t)'
        BY <1>1, <2>1, <2>2, <2>3 DEF Ready
    <2> QED BY <2>4
<1>8. DronesAreGuarded'
    <2>1. told' # None => told' = told /\ told # None /\ told > now
        BY <1>0, <1>1, <1>3 DEF DronesAreGuarded
    <2>2. told' # None => told' >= now'
        BY <1>1, <1>3, <2>1
    <2>3. Settled /\ told' # None => Settled'
        <3> SUFFICES ASSUME Settled, told' # None PROVE Settled'
            OBVIOUS
        <3>1. zero # None /\ zero <= told /\ Reading >= -1 /\ config.authorized
            BY DEF Settled, ShouldRun, ShouldRunIn
        <3>2. Reading' = now' - zero
            BY <1>1, <3>1 DEF Reading
        <3>3. Reading' >= -1
            BY <1>1, <1>3, <3>1, <3>2
        <3> QED BY <1>1, <2>1, <3>1, <3>3 DEF Settled, ShouldRun, ShouldRunIn
    <2>4. ASSUME NEW t \in tasks, Guards(t), told' # None
          PROVE  Guards(t)'
        <3>1. /\ t.at = "counting" /\ t.wake # None /\ t.wake > now /\ t.wake <= now + Period
              /\ zero # told => told > t.wake - Period + NoReturn
            BY <1>2, <2>4 DEF Guards
        <3>2. t.wake \in Int
            BY <1>0, <3>1, TaskFields DEF TypeOK, Instants
        <3>3. now' <= t.wake /\ t.wake <= now' + Period
            BY <1>1, <1>3, <3>1, <3>2, Constants
        <3>4. zero' # told' => told' > t.wake - Period + NoReturn
            BY <1>1, <2>1, <2>4, <3>1
        <3> QED BY <2>4, <3>1, <3>3, <3>4 DEF Guards
    <2>5. ASSUME told' # None, ~reconfigured'
          PROVE  Settled' \/ \E t \in tasks' : Guards(t)'
        <3>1. told # now /\ told # None /\ ~reconfigured
            BY <1>1, <1>3, <2>1, <2>5
        <3>2. Settled \/ \E t \in tasks : Guards(t)
            BY <1>0, <3>1 DEF DronesAreGuarded
        <3> QED BY <1>1, <2>3, <2>4, <2>5, <3>2
    <2> QED BY <2>2, <2>5 DEF DronesAreGuarded
<1> QED BY <1>4, <1>5, <1>6, <1>7, <1>8 DEF IInv

LEMMA InitialState == Init => IInv
<1> SUFFICES ASSUME Init PROVE IInv
    OBVIOUS
<1>1. TypeOK
    <2>1. config \in Configurations
        BY DEF Init, Configurations
    <2>2. now \in 0 .. MaxTime /\ changes \in 0 .. MaxChanges
        BY Constants DEF Init
    <2>3. disturbed \in BOOLEAN /\ armed \in BOOLEAN /\ reconfigured \in BOOLEAN
        BY DEF Init
    <2> QED BY <2>1, <2>2, <2>3 DEF Init, TypeOK, Instants
<1>2. Cancellations /\ Beliefs
    BY DEF Init, Cancellations, Beliefs
<1>3. StarterIsReady /\ DronesAreGuarded
    BY DEF Init, StarterIsReady, DronesAreGuarded
<1> QED BY <1>1, <1>2, <1>3 DEF IInv

LEMMA InvariantStep == IInv /\ [Next]_vars => IInv'
<1> SUFFICES ASSUME IInv, [Next]_vars PROVE IInv'
    OBVIOUS
<1>1. CASE UNCHANGED vars
    <2>1. /\ UNCHANGED <<now, changes, config, timecode, zero, tasks, told>>
          /\ UNCHANGED <<disturbed, armed, reconfigured>>
        BY <1>1 DEF vars
    <2>2. TypeOK' /\ Cancellations'
        BY <2>1 DEF IInv, TypeOK, Cancellations
    <2>3. Beliefs' /\ StarterIsReady'
        BY <2>1 DEF IInv, Beliefs, StarterKnows, StarterIsReady, Ready
    <2>4. DronesAreGuarded'
        BY <2>1 DEF IInv, DronesAreGuarded, Guards, Settled, ShouldRun, ShouldRunIn, Reading
    <2> QED BY <2>2, <2>3, <2>4 DEF IInv
<1>2. ASSUME NEW t \in tasks, TaskStep(t)
      PROVE  IInv'
    BY <1>2, ReceiveKeeps, PollKeeps, TimerKeeps, StartKeeps, CallOffKeeps, AnnounceKeeps, EndKeeps
       DEF TaskStep
<1> QED BY <1>1, <1>2, ConfigureKeeps, TimecodeKeeps, TickKeeps DEF Next

-----------------------------------------------------------------------------
(* Theorems.                                                               *)

\* The inductive invariant: whoever has not been cancelled believes the right
\* things of the clock, the starter waits for the zero of the clock and the
\* countdown for the time that the drones were told.
THEOREM InvariantHolds == Spec => []IInv
BY InitialState, InvariantStep, PTL DEF Spec

\* Every variable keeps its type, and no event channel has more events than
\* fit into it.
THEOREM TypeCorrect == Spec => []TypeOK
<1>1. IInv => TypeOK
    BY DEF IInv
<1> QED BY <1>1, InvariantHolds, PTL

\* However clock events, timeouts, cancellations and requests interleave, a show
\* is started (_start_show_when_needed()) only if it is authorized and its clock
\* shows zero or more, unless it is disturbed at that moment.
THEOREM StartsAreTrue == Spec => NoFalseStart
<1>1. IInv /\ [Next]_vars =>
          [\A t \in tasks : StartShow(t) => disturbed \/ (ShouldRun /\ Reading >= 0)]_vars
    BY StartIsDue
<1> QED BY <1>1, InvariantHolds, PTL DEF Spec, NoFalseStart

\* No event, timeout, adjustment or cancellation makes the starter miss the zero
\* of a clock that was running when it was created (wait_until()).
THEOREM NoStartIsMissed == Spec => StartsOnTime
<1>1. ASSUME IInv, Tick, armed, ShouldRun, zero = now, ~disturbed
      PROVE  FALSE
    <2>0. TypeOK /\ StarterIsReady /\ now \in Nat /\ zero # None
        BY <1>1, Constants DEF IInv, TypeOK
    <2>1. PICK t \in tasks : Ready(t)
        BY <1>1, <2>0 DEF StarterIsReady
    <2>2. /\ ~t.doomed
          /\ \/ t.at = "edge"
             \/ t.at \in {"waiting", "counting"} /\ (t.wake = None \/ t.wake > now)
             \/ t.at = "polling" /\ zero # None /\ Left(t) = 1
        BY <1>1, IdleTask DEF Tick
    <2>3. t \in Tasks /\ t.kind = "start"
        BY <2>0, <2>1 DEF Ready, TypeOK
    <2>4. Left(t) = 0
        BY <1>1, <2>0, <2>3, ClockTypes
    <2>5. CASE t.at = "edge"
        BY <1>1, <2>0, <2>1, <2>5 DEF Ready
    <2>6. CASE t.at = "waiting" /\ (t.wake = None \/ t.wake > now)
        <3>1. t.wake # None /\ t.wake <= now - 1
            BY <1>1, <2>0, <2>1, <2>6 DEF Ready
        <3>2. t.wake \in Int
            BY <2>3, <3>1, TaskFields DEF Instants
        <3> QED BY <2>0, <2>6, <3>1, <3>2
    <2> QED BY <2>1, <2>2, <2>4, <2>5, <2>6 DEF Ready
<1>2. IInv /\ [Next]_vars => [Tick => ~(armed /\ ShouldRun /\ zero = now /\ ~disturbed)]_vars
    BY <1>1
<1> QED BY <1>2, InvariantHolds, PTL DEF Spec, StartsOnTime

\* Wherever the timecode moves the show, drones that were told when to start do
\* not start without it or before it (_manage_countdown_before_start()).
THEOREM DronesStartWithShow == Spec => DronesWaitForShow
<1>1. ASSUME IInv, Tick, told = now, ~reconfigured, ~disturbed
      PROVE  ShouldRun /\ Reading >= 0
    <2>0. TypeOK /\ DronesAreGuarded /\ Cancellations /\ now \in Nat /\ told # None
        BY <1>1, Constants DEF IInv, TypeOK
    <2>1. zero # None => zero \in Int /\ Reading = now - zero
        BY <2>0 DEF TypeOK, Instants, Reading
    <2>2. CASE Settled
        <3>1. ShouldRun /\ zero # None /\ zero <= now
            BY <1>1, <2>2 DEF Settled, ShouldRun, ShouldRunIn
        <3> QED BY <2>0, <2>1, <3>1
    <2>3. ASSUME NEW t \in tasks, Guards(t)
          PROVE  ShouldRun /\ Reading >= 0
        <3>1. ~t.doomed /\ t.at = "counting" /\ t.wake > now
            BY <1>1, <2>3, IdleTask DEF Tick, Guards
        <3>2. t.wake # None /\ t.wake <= now + Period /\ (zero # told => told > t.wake - Period + NoReturn)
            BY <2>3, <3>1 DEF Guards
        <3>3. t.wake \in Int
            BY <2>0, <3>2, TaskFields DEF TypeOK, Instants
        <3>4. zero = now
            BY <1>1, <2>0, <3>1, <3>2, <3>3, Constants
        <3>5. zero # None /\ config.authorized
            BY <1>1, <2>0, <3>1, <3>4 DEF Cancellations
        <3> QED BY <2>0, <2>1, <3>4, <3>5 DEF ShouldRun, ShouldRunIn
    <2> QED BY <1>1, <2>0, <2>2, <2>3 DEF DronesAreGuarded
<1>2. IInv /\ [Next]_vars =>
          [Tick /\ told = now /\ ~reconfigured /\ ~disturbed => ShouldRun /\ Reading >= 0]_vars
    BY <1>1
<1> QED BY <1>2, InvariantHolds, PTL DEF Spec, DronesWaitForShow
================================================================================
