------------------------ MODULE ScheduledTakeoffProofs ------------------------
(***************************************************************************)
(* The manager of scheduled takeoffs keeps account of the drones that it   *)
(* configures, for any drones, start times and methods, and any sizes of   *)
(* its queue and of its limiter.                                           *)
(***************************************************************************)
EXTENDS ScheduledTakeoff, FiniteSetTheorems, SequenceTheorems, WellFoundedInduction, TLAPS

\* No drone is twice in the queue.
Distinct == \A i, j \in DOMAIN queue : queue[i] = queue[j] => i = j

Updating == {d \in Drones : task[d].at # "none"}

Tracking ==
    /\ toUpdate = ToSet(queue) \cup Updating
    /\ ToSet(queue) \cap Updating = {}
    /\ Distinct

\* Drones are only updated to follow a configuration.
Configured == loop.at = "broadcasting" \/ toUpdate # {} => config \in Configurations

IInv == TypeOK /\ Tracking /\ Configured

-----------------------------------------------------------------------------
(* Configurations and parameters.                                          *)

LEMMA Constants ==
    /\ IsFiniteSet(Drones)
    /\ StartTimes \subseteq Nat \ {0}
    /\ LimiterCapacity \in Nat \ {0} /\ QueueCapacity \in Nat \ {0} /\ Cooldown \in Nat \ {0}
    /\ MaxChanges \in Nat
BY TakeoffAssumption

LEMMA DesiredIsTakeoff ==
    ASSUME NEW c \in Configurations, NEW t \in StartTimes \cup {None}
    PROVE  TakeoffOf(c, t) \in Takeoffs
<1>1. c.method \in {"AUTO", "RC"} /\ c.scope \in Scopes
    BY TakeoffAssumption DEF Configurations
<1>2. (c.scope = "NONE") \in BOOLEAN
    OBVIOUS
<1>3. CASE c.method = "AUTO"
    BY <1>1, <1>3 DEF TakeoffOf, Takeoffs
<1>4. CASE c.method = "RC"
    <2>1. TakeoffOf(c, t) = [scope |-> c.scope, update |-> c.scope = "NONE", time |-> None]
        BY <1>4 DEF TakeoffOf
    <2> QED BY <1>1, <1>2, <2>1 DEF Takeoffs
<1> QED BY <1>1, <1>3, <1>4

LEMMA WholeSecondType ==
    ASSUME NEW t \in StartTimes \cup {None}
    PROVE  /\ WholeSecond(t) \in Whole
           /\ t # None => WholeSecond(t) \in Nat /\ t % 2 \in 0 .. 1
<1>1. WholeSecond(t) \in Whole
    BY DEF Whole
<1>2. ASSUME t # None
      PROVE  WholeSecond(t) \in Nat /\ t % 2 \in 0 .. 1
    <2>1. t \in Nat
        BY <1>2, Constants
    <2>2. t % 2 \in 0 .. 1 /\ t - (t % 2) \in Nat
        BY <2>1
    <2> QED BY <1>2, <2>2 DEF WholeSecond
<1> QED BY <1>1, <1>2

LEMMA WholeIsTime ==
    ASSUME NEW w \in Whole, w # None
    PROVE  w \in Nat
<1>1. PICK t \in StartTimes \cup {None} : w = WholeSecond(t)
    BY DEF Whole
<1>2. t # None
    BY <1>1 DEF WholeSecond
<1> QED BY <1>1, <1>2, WholeSecondType

LEMMA StatusType ==
    ASSUME drone \in [Drones -> Parameters], NEW d \in Drones
    PROVE  StatusOf(d) \in Status
<1>1. drone[d].scope \in Scopes /\ drone[d].second \in Whole /\ drone[d].half \in 0 .. 1
    BY DEF Parameters
<1>2. TimeOf(drone[d]) \in Nat \cup {None}
    BY <1>1, WholeIsTime DEF TimeOf
<1>3. ReportedTime(TimeOf(drone[d])) \in Nat \cup {None}
    BY <1>2 DEF ReportedTime
<1> QED BY <1>1, <1>3 DEF StatusOf, Status

LEMMA BroadcastedType ==
    ASSUME NEW p \in Parameters, NEW cfg \in Takeoffs
    PROVE  Broadcasted(p, cfg) \in Parameters
<1>1. cfg.scope \in Scopes /\ cfg.time \in StartTimes \cup {None}
    BY DEF Takeoffs
<1>2. CASE ~cfg.update
    BY <1>1, <1>2 DEF Broadcasted, Parameters
<1>3. CASE cfg.update
    <2>1. (IF cfg.time = None THEN 0 ELSE cfg.time % 2) \in 0 .. 1
        BY <1>1, WholeSecondType
    <2>2. WholeSecond(cfg.time) \in Whole
        BY <1>1, WholeSecondType
    <2> QED BY <1>1, <1>3, <2>1, <2>2 DEF Broadcasted, Parameters
<1> QED BY <1>2, <1>3

LEMMA RequestedType ==
    ASSUME TypeOK, NEW d \in Configuring
    PROVE  /\ d \in Drones /\ task[d].cfg \in Takeoffs /\ Requested(d) \in Parameters
           /\ task[d].at \in {"second", "half", "scope"}
<1>1. d \in Drones /\ task[d].at \in {"second", "half", "scope"}
    BY DEF Configuring
<1>2. task[d].cfg \in Takeoffs
    BY <1>1 DEF TypeOK
<1>3. task[d].cfg.scope \in Scopes /\ WholeSecond(task[d].cfg.time) \in Whole
    BY <1>2, WholeSecondType DEF Takeoffs
<1>4. drone[d] \in Parameters
    BY <1>1 DEF TypeOK
<1>5. Requested(d) \in Parameters
    <2>1. CASE task[d].at = "second"
        BY <1>3, <1>4, <2>1 DEF Requested, Parameters
    <2>2. CASE task[d].at = "half"
        BY <1>3, <1>4, <2>2 DEF Requested, Parameters
    <2>3. CASE task[d].at = "scope"
        BY <1>3, <1>4, <2>3 DEF Requested, Parameters
    <2> QED BY <1>1, <2>1, <2>2, <2>3
<1> QED BY <1>1, <1>2, <1>5

-----------------------------------------------------------------------------
(* The queue.                                                              *)

LEMMA LeastOfTwo ==
    ASSUME NEW a \in Int, NEW b \in Int
    PROVE  Min({a, b}) \in Int /\ Min({a, b}) <= a /\ Min({a, b}) <= b
<1>1. \E x \in {a, b} : \A y \in {a, b} : x =< y
    <2>1. CASE a <= b
        BY <2>1
    <2>2. CASE b <= a
        BY <2>2
    <2> QED BY <2>1, <2>2
<1>2. Min({a, b}) \in {a, b} /\ \A y \in {a, b} : Min({a, b}) =< y
    BY <1>1 DEF Min
<1> QED BY <1>2

\* A permutation of some elements of a finite set shows each of them once.
LEMMA PermutationSeq ==
    ASSUME NEW S, IsFiniteSet(S), NEW s \in SetToAllKPermutations(S)
    PROVE  /\ s \in Seq(S) /\ Len(s) \in Nat /\ DOMAIN s = 1 .. Len(s)
           /\ \A i, j \in DOMAIN s : s[i] = s[j] => i = j
<1>1. PICK T \in SUBSET S : s \in SetToSeqs(T)
    BY DEF SetToAllKPermutations
<1>2. Cardinality(T) \in Nat
    BY FS_Subset, FS_CardinalityType
<1> DEFINE n == Cardinality(T)
<1>3. s \in [1 .. n -> T] /\ \A i, j \in 1 .. n : i # j => s[i] # s[j]
    BY <1>1 DEF SetToSeqs
<1> HIDE DEF n
<1>4. n \in Nat
    BY <1>2 DEF n
<1>5. s \in Seq(S) /\ Len(s) = n
    BY <1>3, <1>4
<1> QED BY <1>3, <1>4, <1>5

\* As many different drones as a queue without duplicates is long.
LEMMA QueuedOnce ==
    ASSUME NEW s \in Seq(Drones), \A i, j \in DOMAIN s : s[i] = s[j] => i = j
    PROVE  Cardinality(ToSet(s)) = Len(s)
<1>1. Len(s) \in Nat /\ DOMAIN s = 1 .. Len(s) /\ s \in [1 .. Len(s) -> Drones]
    BY LenProperties
<1>2. s \in [1 .. Len(s) -> ToSet(s)]
    BY <1>1 DEF ToSet
<1>3. \A e \in ToSet(s) : \E i \in 1 .. Len(s) : s[i] = e
    BY <1>1 DEF ToSet
<1>4. s \in Bijection(1 .. Len(s), ToSet(s))
    BY <1>1, <1>2, <1>3 DEF Bijection, Injection, Surjection, IsInjective
<1>5. ExistsBijection(1 .. Len(s), ToSet(s))
    BY <1>4 DEF ExistsBijection
<1>6. IsFiniteSet(1 .. Len(s)) /\ Cardinality(1 .. Len(s)) = Len(s)
    BY <1>1, FS_Interval
<1> QED BY <1>5, <1>6, FS_Bijection

\* The scan appends candidates, which are not waiting or being updated yet.
LEMMA ScanTracks ==
    ASSUME TypeOK, Tracking, NEW cfg, Scan(cfg), UNCHANGED task
    PROVE  /\ queue' \in Seq(Drones) /\ Len(queue') <= QueueCapacity
           /\ toUpdate' \subseteq Drones /\ Tracking'
           /\ loop' = Resting("idle")
<1>1. PICK new \in SetToAllKPermutations(Candidates(cfg)) :
          /\ Len(new) = Min({Cardinality(Candidates(cfg)), QueueCapacity - Len(queue)})
          /\ queue' = queue \o new
          /\ toUpdate' = toUpdate \cup ToSet(new)
    BY DEF Scan
<1>2. Candidates(cfg) \subseteq Drones \ toUpdate /\ IsFiniteSet(Candidates(cfg))
    <2>1. Candidates(cfg) \in SUBSET Drones
        BY DEF Candidates
    <2>2. IsFiniteSet(Candidates(cfg))
        BY <2>1, Constants, FS_Subset
    <2> QED BY <2>2 DEF Candidates
<1>3. /\ new \in Seq(Candidates(cfg)) /\ Len(new) \in Nat /\ DOMAIN new = 1 .. Len(new)
      /\ \A i, j \in DOMAIN new : new[i] = new[j] => i = j
    BY <1>2, PermutationSeq
<1>4. new \in Seq(Drones) /\ \A j \in 1 .. Len(new) : new[j] \in Drones \ toUpdate
    BY <1>2, <1>3, SeqMonotonic, ElementOfSeq
<1>5. queue \in Seq(Drones) /\ Len(queue) \in Nat /\ DOMAIN queue = 1 .. Len(queue)
    BY LenProperties DEF TypeOK
<1>6. /\ queue' \in Seq(Drones) /\ Len(queue') = Len(queue) + Len(new)
      /\ \A i \in 1 .. Len(queue) + Len(new) :
            queue'[i] = IF i <= Len(queue) THEN queue[i] ELSE new[i - Len(queue)]
    BY <1>1, <1>4, <1>5, ConcatProperties
<1>7. DOMAIN queue' = 1 .. Len(queue) + Len(new)
    BY <1>6, LenProperties
<1>8. Len(queue') <= QueueCapacity
    <2>1. Cardinality(Candidates(cfg)) \in Nat
        BY <1>2, FS_CardinalityType
    <2> DEFINE room == QueueCapacity - Len(queue)
               wanting == Cardinality(Candidates(cfg))
    <2>2. room \in Int /\ wanting \in Int
        BY <1>5, <2>1, Constants
    <2>3. Len(new) = Min({wanting, room})
        BY <1>1
    <2> HIDE DEF room, wanting
    <2>4. Len(new) <= room
        BY <2>2, <2>3, LeastOfTwo
    <2> QED BY <1>3, <1>5, <1>6, <2>4, Constants DEF room
<1>9. ToSet(queue') = ToSet(queue) \cup ToSet(new)
    <2>1. ASSUME NEW i \in 1 .. Len(new)
          PROVE  i + Len(queue) \in DOMAIN queue' /\ queue'[i + Len(queue)] = new[i]
        <3>1. /\ i + Len(queue) \in 1 .. Len(queue) + Len(new) /\ ~(i + Len(queue) <= Len(queue))
              /\ (i + Len(queue)) - Len(queue) = i
            BY <1>3, <1>5
        <3> QED BY <1>6, <1>7, <3>1
    <2>2. ASSUME NEW i \in 1 .. Len(queue)
          PROVE  i \in DOMAIN queue' /\ queue'[i] = queue[i]
        BY <1>3, <1>5, <1>6, <1>7, <2>2
    <2>3. ASSUME NEW i \in DOMAIN queue'
          PROVE  queue'[i] \in ToSet(queue) \cup ToSet(new)
        <3>1. CASE i <= Len(queue)
            BY <1>3, <1>5, <1>6, <1>7, <3>1 DEF ToSet
        <3>2. CASE ~(i <= Len(queue))
            <4>1. i - Len(queue) \in 1 .. Len(new)
                BY <1>3, <1>5, <1>7, <3>2
            <4> QED BY <1>3, <1>6, <1>7, <3>2, <4>1 DEF ToSet
        <3> QED BY <3>1, <3>2
    <2> QED BY <1>3, <1>5, <2>1, <2>2, <2>3 DEF ToSet
<1>10. ToSet(new) \cap toUpdate = {} /\ ToSet(new) \subseteq Drones
    BY <1>3, <1>4 DEF ToSet
<1>11. Distinct'
    <2> SUFFICES ASSUME NEW i \in DOMAIN queue', NEW j \in DOMAIN queue', queue'[i] = queue'[j]
                 PROVE  i = j
        BY DEF Distinct
    <2> DEFINE n == Len(queue)
    <2>1. \A k \in DOMAIN queue : queue[k] \in toUpdate
        BY DEF Tracking, ToSet
    <2>2. CASE i <= n /\ j <= n
        <3>1. i \in DOMAIN queue /\ j \in DOMAIN queue /\ queue[i] = queue[j]
            BY <1>5, <1>6, <1>7, <2>2
        <3> QED BY <3>1 DEF Tracking, Distinct
    <2>3. CASE ~(i <= n) /\ ~(j <= n)
        <3>1. i - n \in DOMAIN new /\ j - n \in DOMAIN new /\ new[i - n] = new[j - n]
            BY <1>3, <1>5, <1>6, <1>7, <2>3
        <3>2. i - n = j - n
            BY <1>3, <3>1
        <3> QED BY <1>5, <1>7, <3>2
    <2>4. CASE i <= n /\ ~(j <= n)
        <3>1. i \in DOMAIN queue /\ j - n \in 1 .. Len(new) /\ queue[i] = new[j - n]
            BY <1>3, <1>5, <1>6, <1>7, <2>4
        <3> QED BY <1>4, <2>1, <3>1
    <2>5. CASE ~(i <= n) /\ j <= n
        <3>1. j \in DOMAIN queue /\ i - n \in 1 .. Len(new) /\ queue[j] = new[i - n]
            BY <1>3, <1>5, <1>6, <1>7, <2>5
        <3> QED BY <1>4, <2>1, <3>1
    <2> QED BY <2>2, <2>3, <2>4, <2>5
<1>12. Tracking'
    <2>1. Updating' = Updating /\ ToSet(queue)' = ToSet(queue')
        BY DEF Updating
    <2>2. toUpdate' = ToSet(queue)' \cup Updating'
        BY <1>1, <1>9, <2>1 DEF Tracking
    <2>3. ToSet(queue)' \cap Updating' = {}
        BY <1>9, <1>10, <2>1 DEF Tracking
    <2> QED BY <1>11, <2>2, <2>3 DEF Tracking
<1>13. toUpdate' \subseteq Drones /\ loop' = Resting("idle")
    BY <1>1, <1>10 DEF TypeOK, Scan
<1> QED BY <1>6, <1>8, <1>12, <1>13

-----------------------------------------------------------------------------
(* Every step keeps the account.                                           *)

LEMMA InitialState == Init => IInv
<1> SUFFICES ASSUME Init PROVE IInv
    OBVIOUS
<1>1. PICK p \in Parameters : drone = [d \in Drones |-> p]
    BY DEF Init
<1>2. drone \in [Drones -> Parameters]
    BY <1>1
<1>3. known \in [Drones -> Status]
    BY <1>2, StatusType DEF Init
<1>4. task \in [Drones -> [at : {"none", "spawned"}, cfg : {None}]
                    \cup [at : {"second", "half", "scope"}, cfg : Takeoffs]]
    BY DEF Init, NoTask
<1>5. cooling \in [Drones -> 0 .. Cooldown] /\ changes \in 0 .. MaxChanges
    BY Constants DEF Init
<1>6. queue \in Seq(Drones) /\ Len(queue) <= QueueCapacity /\ queue = <<>>
    BY Constants DEF Init
<1>7. loop \in [at : {"idle", "due", "parked"}, cfg : {None}] /\ loop.at = "due"
    BY DEF Init, Resting
<1>8. TypeOK
    BY <1>2, <1>3, <1>4, <1>5, <1>6, <1>7 DEF Init, TypeOK
<1>9. Tracking
    <2>1. Updating = {} /\ toUpdate = {}
        BY DEF Init, NoTask, Updating
    <2>2. ToSet(queue) = {} /\ Distinct
        BY <1>6 DEF ToSet, Distinct
    <2> QED BY <2>1, <2>2 DEF Tracking
<1>10. Configured
    BY <1>7 DEF Configured, Init
<1> QED BY <1>8, <1>9, <1>10 DEF IInv

\* What the show does wakes the main loop at most, and ends the cooldowns.
LEMMA ShowKeeps ==
    ASSUME IInv,
           \/ \E c \in Configurations : ChangeConfiguration(c)
           \/ \E t \in StartTimes \cup {None} : ChangeStartTime(t)
           \/ \E t \in StartTimes : StartTimePasses(t)
    PROVE  IInv'
<1>0. TypeOK /\ Tracking /\ Configured
    BY DEF IInv
<1>1. /\ UNCHANGED <<queue, toUpdate, task, drone, known>>
      /\ config' = config \/ config' \in Configurations
      /\ startTime' \in StartTimes \cup {None}
      /\ passed' \subseteq StartTimes
      /\ cooling' = cooling \/ cooling' = [d \in Drones |-> 0]
      /\ changes' = changes \/ (changes < MaxChanges /\ changes' = changes + 1)
      /\ loop' = loop \/ loop' = Resting("idle")
    BY <1>0 DEF TypeOK, ChangeConfiguration, ChangeStartTime, StartTimePasses, TriggerUpdates, managerVars
<1>2. TypeOK'
    <2>1. cooling' \in [Drones -> 0 .. Cooldown] /\ changes' \in 0 .. MaxChanges
        BY <1>0, <1>1, Constants DEF TypeOK
    <2>2. loop' \in [at : {"idle", "due", "parked"}, cfg : {None}]
                    \cup [at : {"broadcasting"}, cfg : Takeoffs]
        BY <1>0, <1>1 DEF TypeOK, Resting
    <2>3. /\ config' \in Configurations \cup {None} /\ startTime' \in StartTimes \cup {None}
          /\ passed' \subseteq StartTimes
        BY <1>0, <1>1 DEF TypeOK
    <2> QED BY <1>0, <1>1, <2>1, <2>2, <2>3 DEF TypeOK
<1>3. Tracking'
    BY <1>0, <1>1 DEF Tracking, Distinct, Updating
<1>4. Configured'
    BY <1>0, <1>1 DEF Configured, Resting
<1> QED BY <1>2, <1>3, <1>4 DEF IInv

LEMMA TickKeeps ==
    ASSUME IInv, Tick
    PROVE  IInv'
<1>0. TypeOK /\ Tracking /\ Configured
    BY DEF IInv
<1>1. /\ UNCHANGED <<config, startTime, passed, changes, queue, toUpdate, task, drone, known>>
      /\ loop' = loop \/ loop' = Resting("due")
      /\ cooling' = [d \in Drones |-> IF cooling[d] > 0 THEN cooling[d] - 1 ELSE 0]
    BY DEF Tick, showVars
<1>2. cooling' \in [Drones -> 0 .. Cooldown]
    <2>1. ASSUME NEW d \in Drones
          PROVE  (IF cooling[d] > 0 THEN cooling[d] - 1 ELSE 0) \in 0 .. Cooldown
        <3>1. cooling[d] \in 0 .. Cooldown
            BY <1>0 DEF TypeOK
        <3> QED BY <3>1, Constants
    <2> QED BY <1>1, <2>1
<1>3. loop' \in [at : {"idle", "due", "parked"}, cfg : {None}]
                \cup [at : {"broadcasting"}, cfg : Takeoffs]
    BY <1>0, <1>1 DEF TypeOK, Resting
<1>4. TypeOK'
    BY <1>0, <1>1, <1>2, <1>3 DEF TypeOK
<1>5. Tracking'
    BY <1>0, <1>1 DEF Tracking, Distinct, Updating
<1>6. Configured'
    BY <1>0, <1>1 DEF Configured, Resting
<1> QED BY <1>4, <1>5, <1>6 DEF IInv

\* A round of the main loop schedules drones for what it broadcasts.
LEMMA LoopKeeps ==
    ASSUME IInv,
           WaitForConfiguration \/ BeginRound \/ \E S \in SUBSET Drones : FinishRound(S)
    PROVE  IInv'
<1>0. TypeOK /\ Tracking /\ Configured
    BY DEF IInv
<1>1. UNCHANGED <<config, startTime, passed, changes, task, cooling, known>>
    BY DEF WaitForConfiguration, BeginRound, FinishRound, showVars
<1>2. CASE WaitForConfiguration
    <2>1. loop' = Resting("parked") /\ UNCHANGED <<queue, toUpdate, drone>>
        BY <1>2 DEF WaitForConfiguration
    <2>2. loop' \in [at : {"idle", "due", "parked"}, cfg : {None}] /\ loop'.at # "broadcasting"
        BY <2>1 DEF Resting
    <2>3. TypeOK'
        BY <1>0, <1>1, <2>1, <2>2 DEF TypeOK
    <2>4. Tracking' /\ Configured'
        BY <1>0, <1>1, <2>1, <2>2 DEF Tracking, Distinct, Updating, Configured
    <2> QED BY <2>3, <2>4 DEF IInv
<1>3. ASSUME NEW cfg, Scan(cfg), config \in Configurations, drone' \in [Drones -> Parameters]
      PROVE  IInv'
    <2>1. /\ queue' \in Seq(Drones) /\ Len(queue') <= QueueCapacity
          /\ toUpdate' \subseteq Drones /\ Tracking'
          /\ loop' = Resting("idle")
        BY <1>0, <1>1, <1>3, ScanTracks
    <2>2. loop' \in [at : {"idle", "due", "parked"}, cfg : {None}]
        BY <2>1 DEF Resting
    <2>3. TypeOK'
        BY <1>0, <1>1, <1>3, <2>1, <2>2 DEF TypeOK
    <2>4. Configured'
        BY <1>1, <1>3 DEF Configured
    <2> QED BY <2>1, <2>3, <2>4 DEF IInv
<1>4. CASE BeginRound
    <2>1. config \in Configurations /\ drone' = drone /\ drone \in [Drones -> Parameters]
        BY <1>0, <1>4 DEF BeginRound, TypeOK
    <2>2. CASE WorthBroadcasting(Desired)
        <3>1. loop' = [at |-> "broadcasting", cfg |-> Desired] /\ UNCHANGED <<queue, toUpdate>>
            BY <1>4, <2>2 DEF BeginRound
        <3>2. Desired \in Takeoffs
            BY <1>0, <2>1, DesiredIsTakeoff DEF Desired, TypeOK
        <3>3. loop' \in [at : {"broadcasting"}, cfg : Takeoffs]
            BY <3>1, <3>2
        <3>4. TypeOK'
            BY <1>0, <1>1, <2>1, <3>1, <3>3 DEF TypeOK
        <3>5. Tracking' /\ Configured'
            BY <1>0, <1>1, <2>1, <3>1 DEF Tracking, Distinct, Updating, Configured
        <3> QED BY <3>4, <3>5 DEF IInv
    <2>3. CASE ~WorthBroadcasting(Desired)
        BY <1>3, <1>4, <2>1, <2>3 DEF BeginRound
    <2> QED BY <2>2, <2>3
<1>5. ASSUME NEW S \in SUBSET Drones, FinishRound(S)
      PROVE  IInv'
    <2>1. /\ loop.at = "broadcasting" /\ Scan(loop.cfg)
          /\ drone' = [d \in Drones |-> IF d \in S THEN Broadcasted(drone[d], loop.cfg) ELSE drone[d]]
        BY <1>5 DEF FinishRound
    <2>2. loop.cfg \in Takeoffs
        BY <1>0, <2>1 DEF TypeOK
    <2>3. drone' \in [Drones -> Parameters]
        <3>1. \A d \in Drones : drone[d] \in Parameters /\ Broadcasted(drone[d], loop.cfg) \in Parameters
            BY <1>0, <2>2, BroadcastedType DEF TypeOK
        <3> QED BY <2>1, <3>1
    <2>4. config \in Configurations
        BY <1>0, <2>1 DEF Configured
    <2> QED BY <1>3, <2>1, <2>3, <2>4
<1> QED BY <1>2, <1>4, <1>5

Updates == [at : {"none", "spawned"}, cfg : {None}] \cup [at : {"second", "half", "scope"}, cfg : Takeoffs]

\* A drone that is done is left to the next scan.
LEMMA DoneTracks ==
    ASSUME TypeOK, Tracking, NEW d \in Drones, task[d].at # "none", Done(d), UNCHANGED queue
    PROVE  /\ task' \in [Drones -> Updates] /\ cooling' \in [Drones -> 0 .. Cooldown]
           /\ toUpdate' \subseteq toUpdate /\ Tracking'
<1>1. /\ task' = [task EXCEPT ![d] = NoTask]
      /\ toUpdate' = toUpdate \ {d}
      /\ cooling' = [cooling EXCEPT ![d] = Cooldown]
    BY DEF Done
<1>2. task \in [Drones -> Updates] /\ cooling \in [Drones -> 0 .. Cooldown]
    BY DEF TypeOK, Updates
<1>3. NoTask \in Updates /\ NoTask.at = "none" /\ Cooldown \in 0 .. Cooldown
    BY Constants DEF NoTask, Updates
<1>4. Updating' = Updating \ {d}
    BY <1>1, <1>2, <1>3 DEF Updating
<1>5. d \in Updating
    BY DEF Updating
<1>6. Tracking'
    BY <1>1, <1>4, <1>5 DEF Tracking, Distinct
<1> QED BY <1>1, <1>2, <1>3, <1>6

\* An update that goes on keeps its place.
LEMMA ProgressTracks ==
    ASSUME TypeOK, Tracking, NEW d \in Drones, task[d].at # "none",
           NEW u \in Updates, u.at # "none", task' = [task EXCEPT ![d] = u],
           UNCHANGED <<queue, toUpdate>>
    PROVE  task' \in [Drones -> Updates] /\ Tracking'
<1>1. task \in [Drones -> Updates]
    BY DEF TypeOK, Updates
<1>2. Updating' = Updating
    BY <1>1 DEF Updating
<1> QED BY <1>1, <1>2 DEF Tracking, Distinct

\* The first drone of the queue is being updated from now on.
LEMMA SpawnKeeps ==
    ASSUME IInv, SpawnUpdate
    PROVE  IInv'
<1>0. TypeOK /\ Tracking /\ Configured
    BY DEF IInv
<1> DEFINE h == Head(queue)
           u == [NoTask EXCEPT !.at = "spawned"]
<1>1. /\ queue # <<>> /\ queue' = Tail(queue)
      /\ task' = [task EXCEPT ![h] = u]
      /\ UNCHANGED <<config, startTime, passed, changes, loop, toUpdate, cooling, drone, known>>
    BY DEF SpawnUpdate, showVars
<1>2. u \in Updates /\ u.at = "spawned"
    BY DEF NoTask, Updates
<1>3. queue \in Seq(Drones) /\ Len(queue) \in Nat \ {0} /\ DOMAIN queue = 1 .. Len(queue)
    BY <1>0, <1>1, EmptySeq, LenProperties DEF TypeOK
<1>4. /\ h \in Drones /\ h = queue[1] /\ queue' \in Seq(Drones) /\ Len(queue') = Len(queue) - 1
      /\ \A i \in 1 .. Len(queue) - 1 : queue'[i] = queue[i + 1]
    BY <1>1, <1>3, HeadTailProperties
<1>5. DOMAIN queue' = 1 .. Len(queue) - 1
    BY <1>4, LenProperties
<1> HIDE DEF h, u
<1>6. task \in [Drones -> Updates]
    BY <1>0 DEF TypeOK, Updates
<1>7. task' \in [Drones -> Updates]
    BY <1>1, <1>2, <1>6
<1>8. \A i \in DOMAIN queue' : i + 1 \in DOMAIN queue /\ i + 1 # 1 /\ queue'[i] = queue[i + 1]
    BY <1>3, <1>4, <1>5
<1>9. \A k \in DOMAIN queue : k # 1 => k - 1 \in DOMAIN queue' /\ queue'[k - 1] = queue[k]
    BY <1>3, <1>4, <1>5
<1>10. ToSet(queue') = ToSet(queue) \ {h} /\ h \in ToSet(queue)
    <2>1. 1 \in DOMAIN queue
        BY <1>3
    <2>2. \A i \in DOMAIN queue : queue[i] = h => i = 1
        BY <1>0, <1>4, <2>1 DEF Tracking, Distinct
    <2>3. ASSUME NEW i \in DOMAIN queue'
          PROVE  queue'[i] \in ToSet(queue) \ {h}
        BY <1>8, <2>2, <2>3 DEF ToSet
    <2>4. ASSUME NEW k \in DOMAIN queue, queue[k] # h
          PROVE  \E i \in DOMAIN queue' : queue'[i] = queue[k]
        BY <1>4, <1>9, <2>4
    <2>5. ToSet(queue') \subseteq ToSet(queue) \ {h}
        BY <2>3 DEF ToSet
    <2>6. ASSUME NEW e \in ToSet(queue), e # h
          PROVE  e \in ToSet(queue')
        <3>1. PICK k \in DOMAIN queue : e = queue[k]
            BY <2>6 DEF ToSet
        <3>2. PICK i \in DOMAIN queue' : queue'[i] = e
            BY <2>4, <2>6, <3>1
        <3> QED BY <3>2 DEF ToSet
    <2>7. h \in ToSet(queue)
        BY <1>4, <2>1 DEF ToSet
    <2> QED BY <2>5, <2>6, <2>7
<1>11. Updating' = Updating \cup {h}
    BY <1>1, <1>2, <1>4, <1>6 DEF Updating
<1>12. Distinct'
    <2> SUFFICES ASSUME NEW i \in DOMAIN queue', NEW j \in DOMAIN queue', queue'[i] = queue'[j]
                 PROVE  i = j
        BY DEF Distinct
    <2>1. i + 1 \in DOMAIN queue /\ j + 1 \in DOMAIN queue /\ queue[i + 1] = queue[j + 1]
        BY <1>8
    <2>2. i + 1 = j + 1
        BY <1>0, <2>1 DEF Tracking, Distinct
    <2> QED BY <1>3, <1>5, <2>2
<1>13. Tracking'
    <2>1. ToSet(queue)' = ToSet(queue) \ {h}
        BY <1>10
    <2> QED BY <1>0, <1>1, <1>10, <1>11, <1>12, <2>1 DEF Tracking
<1>14. Len(queue') <= QueueCapacity
    BY <1>0, <1>3, <1>4, Constants DEF TypeOK
<1>15. TypeOK'
    BY <1>0, <1>1, <1>4, <1>7, <1>14 DEF TypeOK, Updates
<1>16. Configured'
    BY <1>0, <1>1 DEF Configured
<1> QED BY <1>13, <1>15, <1>16 DEF IInv

\* The update of a drone begins for the configuration of that moment, if there
\* is something to do.
LEMMA BeginKeeps ==
    ASSUME IInv, NEW d \in Drones, BeginUpdate(d)
    PROVE  IInv'
<1>0. TypeOK /\ Tracking /\ Configured
    BY DEF IInv
<1>1. /\ task[d].at = "spawned"
      /\ UNCHANGED <<config, startTime, passed, changes, loop, queue, drone, known>>
    BY DEF BeginUpdate, showVars
<1>2. CASE ~Desired.update /\ Desired.scope = known[d].scope
    <2>1. Done(d)
        BY <1>2 DEF BeginUpdate
    <2>2. /\ task' \in [Drones -> Updates] /\ cooling' \in [Drones -> 0 .. Cooldown]
          /\ toUpdate' \subseteq toUpdate /\ Tracking'
        BY <1>0, <1>1, <2>1, DoneTracks
    <2>3. TypeOK'
        BY <1>0, <1>1, <2>2 DEF TypeOK, Updates
    <2>4. Configured'
        BY <1>0, <1>1, <2>2 DEF Configured
    <2> QED BY <2>2, <2>3, <2>4 DEF IInv
<1>3. CASE ~(~Desired.update /\ Desired.scope = known[d].scope)
    <2> DEFINE u == [at |-> IF Desired.update THEN "second" ELSE "scope", cfg |-> Desired]
    <2>1. task' = [task EXCEPT ![d] = u] /\ UNCHANGED <<toUpdate, cooling>>
        BY <1>3 DEF BeginUpdate
    <2>2. d \in toUpdate
        BY <1>0, <1>1 DEF Tracking, Updating
    <2>3. Desired \in Takeoffs
        BY <1>0, <2>2, DesiredIsTakeoff DEF Configured, Desired, TypeOK
    <2>4. u \in Updates /\ u.at # "none"
        BY <2>3 DEF Updates
    <2> HIDE DEF u
    <2>5. task' \in [Drones -> Updates] /\ Tracking'
        BY <1>0, <1>1, <2>1, <2>4, ProgressTracks
    <2>6. TypeOK'
        BY <1>0, <1>1, <2>1, <2>5 DEF TypeOK, Updates
    <2>7. Configured'
        BY <1>0, <1>1, <2>1 DEF Configured
    <2> QED BY <2>5, <2>6, <2>7 DEF IInv
<1> QED BY <1>2, <1>3

\* A request is answered, or not in time.
LEMMA RequestKeeps ==
    ASSUME IInv, NEW d \in Drones, RequestSucceeds(d) \/ RequestTimesOut(d)
    PROVE  IInv'
<1>0. TypeOK /\ Tracking /\ Configured
    BY DEF IInv
<1>1. /\ d \in Configuring
      /\ UNCHANGED <<config, startTime, passed, changes, loop, queue, known>>
    BY DEF RequestSucceeds, RequestTimesOut, showVars
<1>2. /\ task[d].cfg \in Takeoffs /\ Requested(d) \in Parameters
      /\ task[d].at \in {"second", "half", "scope"}
    BY <1>0, <1>1, RequestedType
<1>3. drone' \in [Drones -> Parameters]
    <2>1. drone' = drone \/ drone' = [drone EXCEPT ![d] = Requested(d)]
        BY DEF RequestSucceeds, RequestTimesOut
    <2> QED BY <1>0, <1>2, <2>1 DEF TypeOK
<1>4. ASSUME Done(d)
      PROVE  IInv'
    <2>1. /\ task' \in [Drones -> Updates] /\ cooling' \in [Drones -> 0 .. Cooldown]
          /\ toUpdate' \subseteq toUpdate /\ Tracking'
        BY <1>0, <1>1, <1>2, <1>4, DoneTracks
    <2>2. TypeOK'
        BY <1>0, <1>1, <1>3, <2>1 DEF TypeOK, Updates
    <2>3. Configured'
        BY <1>0, <1>1, <2>1 DEF Configured
    <2> QED BY <2>1, <2>2, <2>3 DEF IInv
<1>5. ASSUME NEW place \in {"half", "scope"}, Proceed(d, place)
      PROVE  IInv'
    <2> DEFINE u == [task[d] EXCEPT !.at = place]
    <2>1. task' = [task EXCEPT ![d] = u] /\ UNCHANGED <<toUpdate, cooling>>
        BY <1>5 DEF Proceed
    <2>2. task[d] \in [at : {"second", "half", "scope"}, cfg : Takeoffs]
        BY <1>0, <1>2 DEF TypeOK
    <2>3. u \in Updates /\ u.at # "none"
        BY <1>5, <2>2 DEF Updates
    <2> HIDE DEF u
    <2>4. task' \in [Drones -> Updates] /\ Tracking'
        BY <1>0, <1>1, <1>2, <2>1, <2>3, ProgressTracks
    <2>5. TypeOK'
        BY <1>0, <1>1, <1>3, <2>1, <2>4 DEF TypeOK, Updates
    <2>6. Configured'
        BY <1>0, <1>1, <2>1 DEF Configured
    <2> QED BY <2>4, <2>5, <2>6 DEF IInv
<1>6. \/ Done(d)
      \/ \E place \in {"half", "scope"} : Proceed(d, place)
    <2>1. CASE RequestTimesOut(d)
        BY <2>1 DEF RequestTimesOut
    <2>2. CASE RequestSucceeds(d)
        <3>1. CASE task[d].at = "second"
            BY <2>2, <3>1 DEF RequestSucceeds
        <3>2. CASE task[d].at = "half"
            BY <2>2, <3>2 DEF RequestSucceeds
        <3>3. CASE task[d].at = "scope"
            BY <2>2, <3>3 DEF RequestSucceeds
        <3> QED BY <1>2, <3>1, <3>2, <3>3
    <2> QED BY <2>1, <2>2
<1> QED BY <1>4, <1>5, <1>6

LEMMA StatusKeeps ==
    ASSUME IInv, NEW d \in Drones, ReceiveStatus(d)
    PROVE  IInv'
<1>0. TypeOK /\ Tracking /\ Configured
    BY DEF IInv
<1>1. /\ known' = [known EXCEPT ![d] = StatusOf(d)]
      /\ UNCHANGED <<config, startTime, passed, changes, loop, queue, toUpdate, task, cooling, drone>>
    BY DEF ReceiveStatus, showVars, managerVars
<1>2. StatusOf(d) \in Status
    BY <1>0, StatusType DEF TypeOK
<1>3. known' \in [Drones -> Status]
    BY <1>0, <1>1, <1>2 DEF TypeOK
<1>4. TypeOK'
    BY <1>0, <1>1, <1>3 DEF TypeOK
<1>5. Tracking' /\ Configured'
    BY <1>0, <1>1 DEF Tracking, Distinct, Updating, Configured
<1> QED BY <1>4, <1>5 DEF IInv

LEMMA InvariantStep == IInv /\ [Next]_vars => IInv'
<1> SUFFICES ASSUME IInv, [Next]_vars PROVE IInv'
    OBVIOUS
<1>1. CASE UNCHANGED vars
    BY <1>1 DEF vars, showVars, managerVars, IInv, TypeOK, Tracking, Distinct, Updating, Configured
<1>2. CASE Next
    BY <1>2, ShowKeeps, TickKeeps, LoopKeeps, SpawnKeeps, BeginKeeps, RequestKeeps, StatusKeeps DEF Next
<1> QED BY <1>1, <1>2

-----------------------------------------------------------------------------
(* Theorems.                                                               *)

\* The inductive invariant holds: drones wait for an update once, they are not
\* updated while they wait, and no drone is updated before there is a show.
THEOREM InvariantHolds == Spec => []IInv
BY InitialState, InvariantStep, PTL DEF Spec

\* Every variable keeps its type: the queue has no more drones than it may
\* have, and a task that configures a drone has a takeoff to configure.
THEOREM TypeCorrect == Spec => []TypeOK
<1>1. IInv => TypeOK
    BY DEF IInv
<1> QED BY <1>1, InvariantHolds, PTL

\* However the main loop, the status packets and the updates interleave, no
\* drone is configured by two tasks at a time, and the drones that the scan
\* passes over are those in the queue or being updated (_uavs_to_update of
\* ScheduledTakeoffManager).
THEOREM EveryUpdateIsTracked == Spec => []UpdatesAreTracked
<1>1. IInv => UpdatesAreTracked
    <2> SUFFICES ASSUME IInv PROVE UpdatesAreTracked
        OBVIOUS
    <2>1. Cardinality(ToSet(queue)) = Len(queue)
        BY QueuedOnce DEF IInv, TypeOK, Tracking, Distinct
    <2> QED BY <2>1 DEF IInv, Tracking, Updating, UpdatesAreTracked
<1> QED BY <1>1, InvariantHolds, PTL
================================================================================
