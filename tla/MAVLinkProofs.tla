------------------------------ MODULE MAVLinkProofs ------------------------------
(***************************************************************************)
(* The two transfers over the MAVLink connection.                          *)
(*                                                                         *)
(* Logs: what a listing or a download returns is true, for any logs, any   *)
(* size of ranges and of the queue, and any number of retries; and a       *)
(* request asks for what is missing.                                       *)
(*                                                                         *)
(* Files: an upload or a download that ends well did what it says, for any *)
(* transfers, files, sessions and sizes: with checksums always, without    *)
(* them if the sequence numbers of a transfer are all different.           *)
(***************************************************************************)
EXTENDS LogDownload, FileTransfer, FiniteSetTheorems, SequenceTheorems, TLAPS

-----------------------------------------------------------------------------
(* Logs: the inductive invariant.                                          *)

\* The block of a message with data is a block of its log.
Proper(m) == m.type = "data" => m.ofs < Size[m.log]

MessagesAreProper ==
    /\ \A m \in air : Proper(m)
    /\ \A n \in DOMAIN queue : Proper(queue[n])
    /\ future # None => Proper(future) /\ future.type \in Expected

\* What an operation waits for fits the operation.
Stages ==
    /\ at = "nowhere" <=> op = "idle"
    /\ at = "data" => op \in Logs
    /\ op \in Logs /\ at \in {"data", "rest"} => entry \in Logs
    /\ op # "idle" => result = NoResult
    /\ at \in {"nowhere", "entry"} => got = Nothing /\ flushed = 0

\* Blocks are where they belong, without gaps up to the first one that is not
\* flushed, which is missing.
Blocks ==
    /\ \A k \in Offsets : got[k] # None => got[k].ofs = k /\ k < Size[got[k].log]
    /\ \A k \in 0 .. flushed - 1 : got[k] # None
    /\ flushed = MaxBlocks \/ got[flushed] = None

\* As long as no message of another log was used, all that was taken is of the
\* log that is being downloaded.
OfThisLog ==
    op \in Logs =>
        /\ "data" \notin mixed => \A k \in Offsets : got[k] # None => got[k].log = op
        /\ at = "entry" => mixed = {}
        /\ at # "entry" /\ "entry" \notin mixed => entry = op

IInv ==
    /\ TypeOK
    /\ MessagesAreProper
    /\ Stages
    /\ Blocks
    /\ OfThisLog
    /\ ResultIsTrue

-----------------------------------------------------------------------------
(* The chunk assembler.                                                    *)

LEMMA LeastElement ==
    ASSUME NEW T \in SUBSET Nat, T # {}
    PROVE  \E x \in T : \A y \in T : x <= y
<1>1. PICK x \in T : \A y \in T : <<y, x>> \notin OpToRel(<, Nat)
    BY NatLessThanWellFounded, WFMin
<1>2. \A y \in T : ~(y < x)
    BY <1>1 DEF OpToRel
<1> QED BY <1>2

\* The blocks without gaps end somewhere: at a missing block or at the last one.
LEMMA GapIsFound ==
    ASSUME NEW g, NEW n \in Offsets
    PROVE  /\ GapAfter(g, n) \in n .. MaxBlocks
           /\ GapAfter(g, n) = MaxBlocks \/ g[GapAfter(g, n)] = None
           /\ \A j \in n .. GapAfter(g, n) - 1 : g[j] # None
<1> DEFINE T == {k \in n .. MaxBlocks : k = MaxBlocks \/ g[k] = None}
<1>1. n \in Nat /\ MaxBlocks \in Nat /\ n <= MaxBlocks
    BY SizeAssumption DEF Offsets
<1>2. T \in SUBSET Nat /\ MaxBlocks \in T
    BY <1>1
<1>3. PICK k \in T : \A j \in T : k <= j
    BY <1>2, LeastElement
<1>4. \A j \in n .. k - 1 : g[j] # None
    BY <1>1, <1>3
<1>5. k \in n .. MaxBlocks /\ (k = MaxBlocks \/ g[k] = None)
    OBVIOUS
<1> QED BY <1>4, <1>5 DEF GapAfter

\* A range begins at n and ends before the first block that is kept, if MaxRange
\* blocks or the log do not end before.
LEMMA RangeIsMissing ==
    ASSUME NEW g, NEW n \in Offsets, NEW size \in Offsets, n < size, g[n] = None
    PROVE  LET r == NextRange(g, n, size)
           IN  /\ r \in [from : Offsets, to : Offsets]
               /\ r.from = n /\ r.to > n
               /\ \A k \in n .. r.to - 1 : g[k] = None
               /\ r.to <= n + MaxRange
               /\ r.to \in {n + MaxRange, size} \/ g[r.to] # None
<1> DEFINE kept == {k \in Offsets : k >= n /\ g[k] # None}
           end == IF kept = {} THEN size ELSE CHOOSE k \in kept : \A j \in kept : k <= j
<1>1. kept \in SUBSET Nat /\ kept \in SUBSET Offsets /\ Offsets \in SUBSET Nat /\ MaxRange \in Nat \ {0}
    BY SizeAssumption, CapacityAssumption DEF Offsets
<1>2. /\ end \in Offsets /\ end > n
      /\ \A k \in Offsets : k >= n /\ k < end => g[k] = None
      /\ end = size \/ g[end] # None
    <2>1. CASE kept = {}
        BY <1>1, <2>1
    <2>2. CASE kept # {}
        <3>1. end \in kept /\ \A j \in kept : end <= j
            BY <1>1, <2>2, LeastElement
        <3>2. end \in Offsets /\ end > n
            BY <1>1, <3>1
        <3>3. \A k \in Offsets : k >= n /\ k < end => g[k] = None
            BY <1>1, <3>1, <3>2
        <3>4. g[end] # None
            BY <3>1
        <3> QED BY <3>2, <3>3, <3>4
    <2> QED BY <2>1, <2>2
<1>3. NextRange(g, n, size) = [from |-> n, to |-> IF end < n + MaxRange THEN end ELSE n + MaxRange]
    BY DEF NextRange
<1> HIDE DEF end, kept
<1> DEFINE to == IF end < n + MaxRange THEN end ELSE n + MaxRange
<1>4. to \in Offsets /\ to > n /\ to <= end
    BY <1>1, <1>2, SizeAssumption DEF Offsets
<1>5. \A k \in n .. to - 1 : g[k] = None
    <2> SUFFICES ASSUME NEW k \in n .. to - 1 PROVE g[k] = None
        OBVIOUS
    <2>1. k \in Offsets /\ k >= n /\ k < end
        BY <1>1, <1>2, <1>4, SizeAssumption DEF Offsets
    <2> QED BY <1>2, <2>1
<1>6. to <= n + MaxRange /\ (to \in {n + MaxRange, size} \/ g[to] # None)
    BY <1>1, <1>2, SizeAssumption DEF Offsets
<1>7. NextRange(g, n, size) = [from |-> n, to |-> to]
    BY <1>3
<1> HIDE DEF to
<1> QED BY <1>4, <1>5, <1>6, <1>7

\* A block is put where it belongs, or nothing changes.
LEMMA ChunkIsAdded ==
    ASSUME IInv, NEW m \in Message, m.type = "data", Proper(m), AddChunk(m)
    PROVE  /\ got' \in [Offsets -> Block \cup {None}] /\ flushed' \in Offsets
           /\ Blocks'
           /\ got' = got \/ \A k \in Offsets :
                 got'[k] = got[k] \/ (k = m.ofs /\ got'[k] = BlockOf(m.log, m.ofs))
<1>1. /\ got \in [Offsets -> Block \cup {None}] /\ flushed \in Offsets
      /\ m.log \in Logs /\ m.ofs \in Offsets /\ m.ofs < Size[m.log]
      /\ MaxBlocks \in Nat
    BY SizeAssumption DEF IInv, TypeOK, Message, Proper
<1>2. CASE m.ofs < flushed
    BY <1>1, <1>2 DEF AddChunk, IInv, Blocks
<1>3. CASE ~(m.ofs < flushed)
    <2>1. PICK b \in {BlockOf(m.log, m.ofs), got[m.ofs]} \ {None} : got' = [got EXCEPT ![m.ofs] = b]
        BY <1>3 DEF AddChunk
    <2>2. flushed' = GapAfter(got', flushed)
        BY <1>3 DEF AddChunk
    <2>3. BlockOf(m.log, m.ofs) \in Block
          /\ BlockOf(m.log, m.ofs).ofs = m.ofs /\ BlockOf(m.log, m.ofs).log = m.log
        BY <1>1 DEF BlockOf, Block
    <2>4. got' \in [Offsets -> Block \cup {None}]
        BY <1>1, <2>1, <2>3
    <2>5. \A k \in Offsets : got'[k] = IF k = m.ofs THEN b ELSE got[k]
        BY <1>1, <2>1
    <2>6. /\ flushed' \in flushed .. MaxBlocks
          /\ flushed' = MaxBlocks \/ got'[flushed'] = None
          /\ \A j \in flushed .. flushed' - 1 : got'[j] # None
        BY <1>1, <2>2, GapIsFound
    <2>7. flushed' \in Offsets
        BY <1>1, <2>6 DEF Offsets
    <2>8. \A k \in Offsets : got'[k] # None => got'[k].ofs = k /\ k < Size[got'[k].log]
        BY <1>1, <2>1, <2>3, <2>5 DEF IInv, Blocks
    <2>9. ASSUME NEW k \in 0 .. flushed' - 1 PROVE got'[k] # None
        <3>1. CASE k < flushed
            <4>1. k \in 0 .. flushed - 1 /\ k \in Offsets
                BY <1>1, <2>7, <3>1 DEF Offsets
            <4>2. got[k] # None
                BY <4>1 DEF IInv, Blocks
            <4> QED BY <2>1, <2>5, <4>1, <4>2
        <3>2. CASE ~(k < flushed)
            <4>1. \A j \in Offsets : j \in Nat
                BY <1>1 DEF Offsets
            <4>2. flushed \in Nat /\ flushed' \in Nat
                BY <1>1, <2>7, <4>1
            <4>3. k \in flushed .. flushed' - 1
                BY <3>2, <4>2
            <4> QED BY <2>6, <4>3
        <3> QED BY <3>1, <3>2
    <2>10. Blocks'
        BY <2>6, <2>8, <2>9 DEF Blocks
    <2> QED BY <2>1, <2>4, <2>5, <2>7, <2>10
<1> QED BY <1>2, <1>3

-----------------------------------------------------------------------------
(* The operations.                                                         *)

LEMMA EmptyAssembler ==
    /\ Nothing \in [Offsets -> Block \cup {None}] /\ 0 \in Offsets
    /\ \A k \in Offsets : Nothing[k] = None
    /\ [from |-> 0, to |-> 0] \in [from : Offsets, to : Offsets]
BY SizeAssumption DEF Nothing, Offsets

LEMMA ProperMessages ==
    /\ \A l \in Logs : EntryOf(l) \in Message /\ Proper(EntryOf(l))
    /\ \A l \in Logs : \A from, to \in Offsets : \A m \in DataOf(l, from, to) :
          m \in Message /\ Proper(m)
<1>1. \A l \in Logs : EntryOf(l) \in Message /\ Proper(EntryOf(l))
    BY SizeAssumption DEF EntryOf, Message, Proper, Offsets
<1>2. ASSUME NEW l \in Logs, NEW from \in Offsets, NEW to \in Offsets, NEW m \in DataOf(l, from, to)
      PROVE  m \in Message /\ Proper(m)
    <2>1. PICK k \in from .. (IF to < Size[l] THEN to ELSE Size[l]) - 1 :
              m = [type |-> "data", log |-> l, ofs |-> k]
        BY DEF DataOf
    <2>2. MaxBlocks \in Nat /\ Size[l] \in 0 .. MaxBlocks
        BY SizeAssumption
    <2>3. k \in Offsets /\ k < Size[l]
        BY <2>2 DEF Offsets
    <2> QED BY <2>1, <2>3 DEF Message, Proper
<1> QED BY <1>1, <1>2

\* A request brings proper messages of the drone into the air.
LEMMA AskedMessages ==
    ASSUME IInv, NEW A, Ask(A), \A m \in A : m \in Message /\ Proper(m)
    PROVE  air' \subseteq Message /\ \A m \in air' : Proper(m)
BY DEF Ask, IInv, TypeOK, MessagesAreProper

LEMMA InitIsInvariant == Init => IInv
<1> SUFFICES ASSUME Init PROVE IInv
    OBVIOUS
<1>1. TypeOK
    BY EmptyAssembler, RetriesAssumption, CapacityAssumption, EmptySeq DEF Init, TypeOK
<1>2. MessagesAreProper /\ Stages /\ ResultIsTrue
    BY LogsAssumption DEF Init, MessagesAreProper, Stages, ResultIsTrue, NoResult
<1>3. Blocks
    BY EmptyAssembler DEF Init, Blocks
<1>4. OfThisLog
    BY LogsAssumption DEF Init, OfThisLog
<1> QED BY <1>1, <1>2, <1>3, <1>4 DEF IInv

\* An operation ends with a result that is true.
LEMMA EndKeepsInvariant ==
    ASSUME IInv, NEW r, End(r), UNCHANGED mixed,
           r.kind = "log" /\ mixed = {} => r.meta = r.log /\ r.body = Content(r.log),
           r.kind = "list" => r.logs = Logs
    PROVE  IInv'
<1>1. TypeOK'
    BY EmptyAssembler, RetriesAssumption, CapacityAssumption, EmptySeq DEF End, IInv, TypeOK
<1>2. MessagesAreProper' /\ Stages'
    BY LogsAssumption DEF End, IInv, MessagesAreProper, Stages
<1>3. Blocks'
    BY EmptyAssembler DEF End, Blocks
<1>4. OfThisLog' /\ ResultIsTrue'
    BY LogsAssumption DEF End, OfThisLog, ResultIsTrue
<1> QED BY <1>1, <1>2, <1>3, <1>4 DEF IInv

LEMMA FailedEndKeepsInvariant ==
    ASSUME IInv, End(Failed) \/ End(NoResult), UNCHANGED mixed
    PROVE  IInv'
<1>1. CASE End(Failed)
    BY <1>1, EndKeepsInvariant DEF Failed
<1>2. CASE End(NoResult)
    BY <1>2, EndKeepsInvariant DEF NoResult
<1> QED BY <1>1, <1>2

LEMMA StartKeepsInvariant ==
    ASSUME IInv, NEW o \in Logs \cup {"list"}, NEW A, Start(o, A),
           \A m \in A : m \in Message /\ Proper(m)
    PROVE  IInv'
<1>1. /\ op = "idle" /\ op' = o /\ at' = "entry" /\ Ask(A) /\ result' = NoResult /\ mixed' = {}
      /\ UNCHANGED <<retries, future, queue, entry, got, flushed, range, listed>>
    BY DEF Start, chunkVars
<1>2. air' \subseteq Message /\ \A m \in air' : Proper(m)
    BY <1>1, AskedMessages
<1>3. TypeOK'
    BY <1>1, <1>2 DEF IInv, TypeOK
<1>4. MessagesAreProper'
    <2>1. future' = None
        BY <1>1 DEF IInv, MessagesAreProper, Expected, Stages
    <2> QED BY <1>1, <1>2, <2>1 DEF IInv, MessagesAreProper
<1>5. got = Nothing /\ flushed = 0
    BY <1>1 DEF IInv, Stages
<1>6. Stages' /\ ResultIsTrue'
    BY <1>1, <1>5, LogsAssumption DEF Stages, ResultIsTrue, NoResult
<1>7. Blocks'
    BY <1>1 DEF IInv, Blocks
<1>8. OfThisLog'
    BY <1>1, <1>5, EmptyAssembler DEF OfThisLog
<1> QED BY <1>3, <1>4, <1>6, <1>7, <1>8 DEF IInv

LEMMA DeliverKeepsInvariant ==
    ASSUME IInv, NEW m \in air, Deliver(m)
    PROVE  IInv'
<1>1. /\ m \in Message /\ Proper(m) /\ air' = air \ {m}
      /\ future' = (IF m.type \in Expected /\ future = None THEN m ELSE future)
      /\ queue' \in {queue, Queued(m)}
      /\ UNCHANGED <<op, at, retries, entry, got, flushed, range, listed, result, mixed>>
    BY DEF Deliver, IInv, TypeOK, MessagesAreProper, taskVars, chunkVars
<1>2. queue \in Seq(Message) /\ Len(queue) <= QueueCapacity /\ \A n \in DOMAIN queue : Proper(queue[n])
    BY DEF IInv, TypeOK, MessagesAreProper
<1>3. queue' \in Seq(Message) /\ Len(queue') <= QueueCapacity /\ \A n \in DOMAIN queue' : Proper(queue'[n])
    <2>1. CASE queue' = queue
        BY <1>2, <2>1
    <2>2. CASE queue' = Append(queue, m) /\ Len(queue) < QueueCapacity
        <3>1. /\ queue' \in Seq(Message) /\ Len(queue') = Len(queue) + 1
              /\ \A n \in 1 .. Len(queue) : queue'[n] = queue[n]
              /\ queue'[Len(queue) + 1] = m
              /\ Len(queue) \in Nat /\ DOMAIN queue = 1 .. Len(queue)
              /\ DOMAIN queue' = 1 .. Len(queue')
            BY <1>1, <1>2, <2>2, AppendProperties, LenProperties
        <3>2. \A n \in DOMAIN queue' : Proper(queue'[n])
            BY <1>1, <1>2, <3>1
        <3>3. Len(queue') <= QueueCapacity
            BY <2>2, <3>1, CapacityAssumption
        <3> QED BY <3>1, <3>2, <3>3
    <2> QED BY <1>1, <2>1, <2>2 DEF Queued
<1>4. TypeOK'
    BY <1>1, <1>3 DEF IInv, TypeOK
<1>5. MessagesAreProper'
    BY <1>1, <1>3 DEF IInv, MessagesAreProper, Expected
<1>6. Stages' /\ Blocks' /\ OfThisLog' /\ ResultIsTrue'
    BY <1>1 DEF IInv, Stages, Blocks, OfThisLog, ResultIsTrue
<1> QED BY <1>4, <1>5, <1>6 DEF IInv

LEMMA ResendKeepsInvariant ==
    ASSUME IInv, Resend
    PROVE  IInv'
<1>1. /\ at \in {"entry", "data"} /\ future = None /\ retries > 0 /\ retries' = retries - 1
      /\ Ask(Answers)
      /\ UNCHANGED <<op, at, future, queue, entry, got, flushed, range, listed, result, mixed>>
    BY DEF Resend, chunkVars
<1>2. \A m \in Answers : m \in Message /\ Proper(m)
    <2>1. CASE at = "data"
        <3>1. Answers = DataOf(op, range.from, range.to) /\ op \in Logs
              /\ range.from \in Offsets /\ range.to \in Offsets
            BY <2>1 DEF Answers, IInv, Stages, TypeOK
        <3> QED BY <3>1, ProperMessages
    <2>2. CASE at = "entry" /\ op = "list"
        BY <2>2, ProperMessages DEF Answers
    <2>3. CASE at = "entry" /\ op # "list"
        <3>1. op \in Logs
            BY <2>3 DEF IInv, Stages, TypeOK
        <3> QED BY <2>3, <3>1, ProperMessages DEF Answers
    <2> QED BY <1>1, <2>1, <2>2, <2>3
<1>3. air' \subseteq Message /\ \A m \in air' : Proper(m)
    BY <1>1, <1>2, AskedMessages
<1>4. retries' \in 0 .. Retries
    BY <1>1, RetriesAssumption DEF IInv, TypeOK
<1>5. TypeOK'
    BY <1>1, <1>3, <1>4 DEF IInv, TypeOK
<1>6. MessagesAreProper' /\ Stages' /\ Blocks' /\ OfThisLog' /\ ResultIsTrue'
    BY <1>1, <1>3 DEF IInv, MessagesAreProper, Stages, Blocks, OfThisLog, ResultIsTrue, Expected
<1> QED BY <1>5, <1>6 DEF IInv

LEMMA GotMetadataKeepsInvariant ==
    ASSUME IInv, GotMetadata
    PROVE  IInv'
<1>1. /\ op \in Logs /\ at = "entry" /\ future # None /\ entry' = future.log
      /\ mixed' = (IF future.log # op THEN {"entry"} ELSE {})
      /\ at' = "rest" /\ future' = None
      /\ UNCHANGED <<op, retries, queue, air, got, flushed, range, listed, result>>
    BY DEF GotMetadata
<1>2. future.log \in Logs
    BY <1>1 DEF IInv, TypeOK, Message
<1>3. TypeOK'
    BY <1>1, <1>2 DEF IInv, TypeOK
<1>4. MessagesAreProper' /\ Blocks'
    BY <1>1 DEF IInv, MessagesAreProper, Blocks
<1>5. Stages' /\ ResultIsTrue'
    BY <1>1, <1>2, LogsAssumption DEF IInv, Stages, ResultIsTrue, NoResult
<1>6. OfThisLog'
    BY <1>1, EmptyAssembler DEF IInv, Stages, OfThisLog
<1> QED BY <1>3, <1>4, <1>5, <1>6 DEF IInv

\* A message with data is used; the log it is about is noticed but not minded.
LEMMA ProcessKeepsInvariant ==
    ASSUME IInv, NEW m \in Message, m.type = "data", Proper(m), Process(m),
           op \in Logs, at \in {"data", "rest"}, at' = "rest", future' = None,
           queue' \in Seq(Message), Len(queue') <= QueueCapacity,
           \A n \in DOMAIN queue' : Proper(queue'[n]),
           UNCHANGED <<op, retries, air, entry, range, listed, result>>
    PROVE  IInv'
<1>1. /\ got' \in [Offsets -> Block \cup {None}] /\ flushed' \in Offsets
      /\ Blocks'
      /\ got' = got \/ \A k \in Offsets :
            got'[k] = got[k] \/ (k = m.ofs /\ got'[k] = BlockOf(m.log, m.ofs))
    BY ChunkIsAdded DEF Process
<1>2. mixed' = IF m.log # op /\ got' # got THEN mixed \cup {"data"} ELSE mixed
    BY DEF Process
<1>3. TypeOK'
    BY <1>1, <1>2 DEF IInv, TypeOK
<1>4. MessagesAreProper' /\ Stages' /\ ResultIsTrue'
    BY <1>2, LogsAssumption DEF IInv, MessagesAreProper, Stages, ResultIsTrue, NoResult
<1>5. OfThisLog'
    <2>1. ASSUME "data" \notin mixed', NEW k \in Offsets, got'[k] # None
          PROVE  got'[k].log = op
        <3>1. "data" \notin mixed /\ (m.log = op \/ got' = got)
            BY <1>2, <2>1
        <3>2. got[k] # None => got[k].log = op
            BY <3>1 DEF IInv, OfThisLog
        <3>3. BlockOf(m.log, m.ofs).log = m.log
            BY DEF BlockOf
        <3> QED BY <1>1, <2>1, <3>1, <3>2, <3>3
    <2>2. "entry" \notin mixed' => entry' = op
        BY <1>2 DEF IInv, OfThisLog
    <2> QED BY <2>1, <2>2 DEF OfThisLog
<1> QED BY <1>1, <1>3, <1>4, <1>5 DEF IInv

LEMMA GotDataKeepsInvariant ==
    ASSUME IInv, GotData
    PROVE  IInv'
<1>1. /\ at = "data" /\ future # None /\ Process(future) /\ at' = "rest" /\ future' = None
      /\ UNCHANGED <<op, retries, queue, air, entry, range, listed, result>>
    BY DEF GotData
<1>2. future \in Message /\ future.type = "data" /\ Proper(future) /\ op \in Logs
    BY <1>1 DEF IInv, TypeOK, MessagesAreProper, Expected, Stages
<1>3. /\ queue' \in Seq(Message) /\ Len(queue') <= QueueCapacity
      /\ \A n \in DOMAIN queue' : Proper(queue'[n])
    BY <1>1 DEF IInv, TypeOK, MessagesAreProper
<1> QED BY <1>1, <1>2, <1>3, ProcessKeepsInvariant

\* The head of the queue is taken.
LEMMA QueueWithoutHead ==
    ASSUME IInv, queue # <<>>, queue' = Tail(queue)
    PROVE  /\ Head(queue) \in Message /\ Proper(Head(queue))
           /\ queue' \in Seq(Message) /\ Len(queue') <= QueueCapacity
           /\ \A n \in DOMAIN queue' : Proper(queue'[n])
<1>1. queue \in Seq(Message) /\ Len(queue) <= QueueCapacity /\ \A n \in DOMAIN queue : Proper(queue[n])
    BY DEF IInv, TypeOK, MessagesAreProper
<1>2. /\ Head(queue) = queue[1] /\ Len(queue) \in Nat \ {0} /\ DOMAIN queue = 1 .. Len(queue)
    BY <1>1, EmptySeq, LenProperties
<1>3. /\ Head(queue) \in Message /\ Tail(queue) \in Seq(Message)
      /\ Len(Tail(queue)) = Len(queue) - 1
      /\ \A n \in 1 .. Len(Tail(queue)) : Tail(queue)[n] = queue[n + 1]
    BY <1>1, HeadTailProperties
<1>4. DOMAIN Tail(queue) = 1 .. Len(Tail(queue))
    BY <1>3, LenProperties
<1>5. ASSUME NEW n \in DOMAIN Tail(queue) PROVE Proper(Tail(queue)[n])
    <2> DEFINE k == Len(queue)
    <2>1. k \in Nat \ {0} /\ n \in 1 .. k - 1 /\ DOMAIN queue = 1 .. k
        BY <1>2, <1>3, <1>4
    <2> HIDE DEF k
    <2>2. n + 1 \in DOMAIN queue
        BY <2>1
    <2> QED BY <1>1, <1>3, <1>4, <2>2
<1>6. 1 \in DOMAIN queue
    BY <1>2
<1>7. Len(Tail(queue)) <= QueueCapacity
    BY <1>1, <1>2, <1>3, CapacityAssumption
<1> QED BY <1>1, <1>2, <1>3, <1>5, <1>6, <1>7

LEMMA ReceiveDataKeepsInvariant ==
    ASSUME IInv, ReceiveData
    PROVE  IInv'
<1>1. /\ op \in Logs /\ at = "rest" /\ queue # <<>> /\ queue' = Tail(queue)
      /\ UNCHANGED <<op, at, retries, future, air, entry, range, listed, result>>
    BY DEF ReceiveData, taskVars
<1>2. /\ Head(queue) \in Message /\ Proper(Head(queue))
      /\ queue' \in Seq(Message) /\ Len(queue') <= QueueCapacity
      /\ \A n \in DOMAIN queue' : Proper(queue'[n])
    BY <1>1, QueueWithoutHead
<1>3. future = None
    BY <1>1 DEF IInv, MessagesAreProper, Expected
<1>4. CASE Head(queue).type = "data"
    BY <1>1, <1>2, <1>3, <1>4, ProcessKeepsInvariant DEF ReceiveData
<1>5. CASE Head(queue).type # "data"
    <2>1. UNCHANGED <<got, flushed, mixed>>
        BY <1>5 DEF ReceiveData
    <2>2. TypeOK'
        BY <1>1, <1>2, <2>1 DEF IInv, TypeOK
    <2>3. MessagesAreProper'
        BY <1>1, <1>2, <1>3 DEF IInv, MessagesAreProper
    <2>4. Stages' /\ Blocks' /\ OfThisLog' /\ ResultIsTrue'
        BY <1>1, <2>1 DEF IInv, Stages, Blocks, OfThisLog, ResultIsTrue
    <2> QED BY <2>2, <2>3, <2>4 DEF IInv
<1> QED BY <1>4, <1>5

\* A range is requested; blocks in front of it are there, and its own are not.
LEMMA RequestAsksForMissing ==
    ASSUME IInv, RequestRange
    PROVE  /\ range' \in [from : Offsets, to : Offsets]
           /\ range'.from = flushed /\ range'.to > flushed
           /\ \A k \in range'.from .. range'.to - 1 : got[k] = None
           /\ range'.to <= flushed + MaxRange
           /\ range'.to \in {flushed + MaxRange, Size[entry]} \/ got[range'.to] # None
<1>1. /\ flushed < Size[entry] /\ range' = NextRange(got, flushed, Size[entry])
      /\ op \in Logs /\ at = "rest"
    BY DEF RequestRange
<1>2. /\ flushed \in Offsets /\ entry \in Logs /\ Size[entry] \in 0 .. MaxBlocks /\ MaxBlocks \in Nat
    BY <1>1, SizeAssumption DEF IInv, TypeOK, Stages
<1>3. got[flushed] = None /\ Size[entry] \in Offsets
    BY <1>1, <1>2 DEF IInv, Blocks, Offsets
<1>4. /\ range' \in [from : Offsets, to : Offsets]
      /\ range'.from = flushed /\ range'.to > flushed
      /\ \A k \in flushed .. range'.to - 1 : got[k] = None
      /\ range'.to <= flushed + MaxRange
      /\ range'.to \in {flushed + MaxRange, Size[entry]} \/ got[range'.to] # None
    BY <1>1, <1>2, <1>3, RangeIsMissing
<1> QED BY <1>4

LEMMA RequestRangeKeepsInvariant ==
    ASSUME IInv, RequestRange
    PROVE  IInv'
<1>1. /\ op \in Logs /\ at = "rest" /\ at' = "data" /\ retries' = Retries
      /\ Ask(DataOf(op, range'.from, range'.to))
      /\ UNCHANGED <<op, future, queue, entry, got, flushed, listed, result, mixed>>
    BY DEF RequestRange
<1>2. range' \in [from : Offsets, to : Offsets]
    BY RequestAsksForMissing
<1>3. \A m \in DataOf(op, range'.from, range'.to) : m \in Message /\ Proper(m)
    BY <1>1, <1>2, ProperMessages
<1>4. air' \subseteq Message /\ \A m \in air' : Proper(m)
    BY <1>1, <1>3, AskedMessages
<1>5. future = None
    BY <1>1 DEF IInv, MessagesAreProper, Expected
<1>6. TypeOK'
    BY <1>1, <1>2, <1>4, RetriesAssumption DEF IInv, TypeOK
<1>7. MessagesAreProper' /\ Stages'
    BY <1>1, <1>4, <1>5, LogsAssumption DEF IInv, MessagesAreProper, Stages
<1>8. Blocks' /\ OfThisLog' /\ ResultIsTrue'
    BY <1>1 DEF IInv, Blocks, OfThisLog, ResultIsTrue
<1> QED BY <1>6, <1>7, <1>8 DEF IInv

\* The log is returned when no block of what the metadata promise is missing.
LEMMA ReturnLogKeepsInvariant ==
    ASSUME IInv, ReturnLog
    PROVE  IInv'
<1> DEFINE body == [k \in 0 .. flushed - 1 |-> got[k]]
           r == [kind |-> "log", log |-> op, meta |-> entry, body |-> body]
<1>1. op \in Logs /\ at = "rest" /\ flushed >= Size[entry] /\ End(r) /\ UNCHANGED mixed
    BY DEF ReturnLog
<1>2. ASSUME mixed = {}
      PROVE  entry = op /\ body = Content(op)
    <2>1. /\ entry = op /\ \A k \in Offsets : got[k] # None => got[k].log = op
          /\ got \in [Offsets -> Block \cup {None}]
        BY <1>1, <1>2 DEF IInv, OfThisLog, TypeOK
    <2>2. flushed \in Nat /\ flushed \in Offsets /\ Size[op] \in Nat /\ MaxBlocks \in Nat
          /\ Size[op] <= flushed
        BY <1>1, <2>1, SizeAssumption DEF IInv, TypeOK, Offsets
    <2>3. ASSUME NEW k \in 0 .. flushed - 1
          PROVE  got[k] = BlockOf(op, k) /\ k < Size[op]
        <3>1. k \in Offsets
            BY <2>2 DEF Offsets
        <3>2. got[k] # None
            BY <2>3 DEF IInv, Blocks
        <3>3. got[k] \in Block /\ got[k].ofs = k /\ got[k].log = op /\ k < Size[op]
            BY <2>1, <3>1, <3>2 DEF IInv, Blocks
        <3> QED BY <3>3 DEF Block, BlockOf
    <2>4. flushed = Size[op]
        <3>1. CASE flushed > Size[op]
            <4>1. Size[op] \in 0 .. flushed - 1
                BY <2>2, <3>1
            <4> QED BY <2>2, <2>3, <4>1
        <3> QED BY <2>2, <3>1
    <2> QED BY <2>1, <2>3, <2>4 DEF Content
<1>3. /\ r.kind = "log" /\ r.meta = entry /\ r.log = op /\ r.body = body
    OBVIOUS
<1> HIDE DEF r, body
<1> QED BY <1>1, <1>2, <1>3, EndKeepsInvariant

\* A list is returned when it has as many logs as the drone.
LEMMA ReturnListKeepsInvariant ==
    ASSUME IInv, ReturnList
    PROVE  IInv'
<1> DEFINE r == [kind |-> "list", logs |-> listed]
<1>1. Cardinality(listed) >= Cardinality(Logs) /\ End(r) /\ UNCHANGED mixed
    BY DEF ReturnList
<1>2. listed \in SUBSET Logs /\ IsFiniteSet(Logs)
    BY LogsAssumption DEF IInv, TypeOK
<1>3. IsFiniteSet(listed) /\ Cardinality(listed) <= Cardinality(Logs)
      /\ (Cardinality(listed) = Cardinality(Logs) => listed = Logs)
    BY <1>2, FS_Subset
<1>4. Cardinality(listed) \in Nat /\ Cardinality(Logs) \in Nat
    BY <1>2, <1>3, FS_CardinalityType
<1>5. listed = Logs
    BY <1>1, <1>3, <1>4
<1>6. r.kind = "list" /\ r.logs = Logs
    BY <1>5
<1> HIDE DEF r
<1> QED BY <1>1, <1>6, EndKeepsInvariant

LEMMA GotEntryKeepsInvariant ==
    ASSUME IInv, GotEntry
    PROVE  IInv'
<1>1. /\ op = "list" /\ at = "entry" /\ future # None /\ listed' = {future.log}
      /\ at' = "rest" /\ future' = None
      /\ UNCHANGED <<op, retries, queue, air, entry, got, flushed, range, result, mixed>>
    BY DEF GotEntry, chunkVars
<1>2. future.log \in Logs
    BY <1>1 DEF IInv, TypeOK, Message
<1>3. TypeOK'
    BY <1>1, <1>2 DEF IInv, TypeOK
<1>4. MessagesAreProper' /\ Stages' /\ Blocks' /\ OfThisLog' /\ ResultIsTrue'
    BY <1>1, LogsAssumption DEF IInv, MessagesAreProper, Stages, Blocks, OfThisLog, ResultIsTrue
<1> QED BY <1>3, <1>4 DEF IInv

LEMMA ReceiveEntryKeepsInvariant ==
    ASSUME IInv, ReceiveEntry
    PROVE  IInv'
<1>1. /\ op = "list" /\ at = "rest" /\ queue # <<>> /\ queue' = Tail(queue)
      /\ listed' = listed \cup {m.log : m \in {n \in {Head(queue)} : n.type = "entry"}}
      /\ UNCHANGED <<op, at, retries, future, air, entry, got, flushed, range, result, mixed>>
    BY DEF ReceiveEntry, taskVars, chunkVars
<1>2. /\ Head(queue) \in Message
      /\ queue' \in Seq(Message) /\ Len(queue') <= QueueCapacity
      /\ \A n \in DOMAIN queue' : Proper(queue'[n])
    BY <1>1, QueueWithoutHead
<1>3. listed' \subseteq Logs
    BY <1>1, <1>2 DEF IInv, TypeOK, Message
<1>4. TypeOK'
    BY <1>1, <1>2, <1>3 DEF IInv, TypeOK
<1>5. MessagesAreProper' /\ Stages' /\ Blocks' /\ OfThisLog' /\ ResultIsTrue'
    BY <1>1, <1>2 DEF IInv, MessagesAreProper, Stages, Blocks, OfThisLog, ResultIsTrue, Expected
<1> QED BY <1>4, <1>5 DEF IInv

LEMMA NextKeepsInvariant == IInv /\ [Next]_vars => IInv'
<1> SUFFICES ASSUME IInv, [Next]_vars PROVE IInv'
    OBVIOUS
<1>1. CASE TaskStep
    <2>1. GiveUp => IInv'
        BY FailedEndKeepsInvariant DEF GiveUp
    <2> QED BY <1>1, <2>1, ResendKeepsInvariant, GotMetadataKeepsInvariant, GotDataKeepsInvariant,
               ReceiveDataKeepsInvariant, RequestRangeKeepsInvariant, ReturnLogKeepsInvariant,
               GotEntryKeepsInvariant, ReceiveEntryKeepsInvariant, ReturnListKeepsInvariant
            DEF TaskStep
<1>2. CASE GetLogList
    <2>1. \A m \in {EntryOf(l) : l \in Logs} : m \in Message /\ Proper(m)
        BY ProperMessages
    <2> QED BY <1>2, <2>1, StartKeepsInvariant DEF GetLogList
<1>3. ASSUME NEW l \in Logs, GetLog(l)
      PROVE  IInv'
    <2>1. \A m \in {EntryOf(l)} : m \in Message /\ Proper(m)
        BY ProperMessages
    <2> QED BY <1>3, <2>1, StartKeepsInvariant DEF GetLog
<1>4. CASE Cancel
    BY <1>4, FailedEndKeepsInvariant DEF Cancel
<1>5. ASSUME NEW m \in air, Deliver(m)
      PROVE  IInv'
    BY <1>5, DeliverKeepsInvariant
<1>6. CASE UNCHANGED vars
    BY <1>6 DEF vars, taskVars, chunkVars, IInv, TypeOK, MessagesAreProper, Expected, Stages, Blocks,
                OfThisLog, ResultIsTrue
<1> QED BY <1>1, <1>2, <1>3, <1>4, <1>5, <1>6 DEF Next, User

-----------------------------------------------------------------------------
\* Every reachable state has the type and the invariants above.
THEOREM InvariantHolds == Spec => []IInv
BY InitIsInvariant, NextKeepsInvariant, PTL DEF Spec

\* The variables keep their types, and the queue of messages its limit
\* (_message_channel of MAVLinkLogDownloader).
THEOREM TypeCorrect == Spec => []TypeOK
<1>1. IInv => TypeOK
    BY DEF IInv
<1> QED BY <1>1, InvariantHolds, PTL

\* Whatever the link loses, delays, reorders and repeats, a log that is returned is
\* the log on the drone, and a list has all its logs, unless a message about
\* another log was used (get_log() and get_log_list()).
THEOREM ResultsAreTrue == Spec => []ResultIsTrue
<1>1. IInv => ResultIsTrue
    BY DEF IInv
<1> QED BY <1>1, InvariantHolds, PTL

\* A request for data asks for at least one block, only for missing ones, and for
\* as many of them in a row as may be requested at once
\* (ChunkAssembler.get_next_range()).
THEOREM OnlyMissingIsRequested == Spec => RequestsWhatIsMissing
<1>1. IInv => [RequestRange => /\ range'.from = flushed /\ range'.to > flushed
                               /\ \A k \in range'.from .. range'.to - 1 : got[k] = None
                               /\ range'.to <= flushed + MaxRange
                               /\ \/ range'.to \in {flushed + MaxRange, Size[entry]}
                                  \/ got[range'.to] # None]_vars
    BY RequestAsksForMissing
<1> QED BY <1>1, InvariantHolds, PTL DEF Spec, RequestsWhatIsMissing

-----------------------------------------------------------------------------
(* Files: types, and which requests and replies fit a transfer.            *)

\* The operation of a transfer fits where it waits: it is known until the
\* transfer fails or only closes the connection.
Fits(s, t) ==
    /\ s.op \in Operations[t] \/ s.op = Unknown
    /\ s.at \in {"create", "open", "write", "read", "crc"} => s.op # Unknown
    /\ s.op # Unknown =>
          /\ s.at \in RequestKinds \ {"reset"}
          /\ s.at \in {"create", "write", "crc"} => s.op.kind = "put"
          /\ s.at \in {"open", "read"} => s.op.kind = "get"
          /\ s.at = "crc" => s.op.check
    /\ s.outcome = "none" /\ s.at \in RequestKinds \ {"reset"} => s.op # Unknown
    /\ s.outcome = "ok" => s.at = "reset"
    /\ s.at \in {"new", "create", "open"} => s.ofs = 0 /\ s.got = <<>>
    /\ s.at = "write" => s.ofs < Chunks
    /\ s.at = "read" => s.ofs <= Chunks

\* A request fits the transfer that sent it: it is not ahead of the transfer,
\* and speaks of its file and its session.
Sent(m, s) ==
    /\ s.at # "new"
    /\ m.op \in {"create", "open", "crc"} => m.path \in Paths
    /\ m.op = "write" => m.ofs < Chunks
    /\ s.op # Unknown =>
          /\ m.op \in {"create", "open", "crc"} => m.path = s.op.path
          /\ m.op \in {"create", "write"} => s.op.kind = "put"
          /\ m.op \in {"open", "read"} => s.op.kind = "get"
    /\ s.at \in {"create", "open"} => m.op = s.at
    /\ s.at = "write" =>
          \/ m.op = "create"
          \/ m.op = "write" /\ m.session = s.session /\ m.ofs <= s.ofs
    /\ s.at = "read" => m.op \in {"open", "read"}

\* Files have no more than Chunks chunks, and only the last one is shorter.
FileFits(f) == Len(f) <= Chunks /\ \A j \in 1 .. Len(f) : f[j][2] = Chunks => j = Chunks

\* Who is told the checksum of all its data has had them in its file.
ComparedWith(r, s) ==
    /\ s.at # "new"
    /\ s.op # Unknown /\ s.op.kind = "put" /\ r.data = Data(r.to) => r.to \in complete

TypeInv ==
    /\ task \in [Transfers -> Task]
    /\ TransferTypeOK
    /\ \A t \in Transfers : Fits(task[t], t)
    /\ \A m \in requests : Sent(m, task[m.from])
    /\ \A r \in replies : ComparedWith(r, task[r.to])
    /\ \A p \in Paths : FileFits(files[p])

\* How many requests a transfer may have sent before its current one.
Steps(s) ==
    CASE s.at \in {"write", "read"} -> s.ofs + 1
      [] s.at = "close" -> Chunks + 2
      [] s.at = "crc" -> Chunks + 3
      [] s.at = "reset" -> Chunks + 4
      [] OTHER -> 0

\* Number y comes a steps after number x.
Ahead(x, y, a) == y = x + 2 * a \/ y = x + 2 * a - SeqModulus

\* What is under way is of this transfer's current request, or of an earlier
\* one; the numbers of all of these differ.
RequestInTime(m, t) ==
    \/ m = RequestOf(t, task[t])
    \/ \E a \in 1 .. Steps(task[t]) : Ahead(m.seq, task[t].seq, a)
ReplyInTime(r, t) ==
    \/ r.seq = NextSeq(task[t].seq)
    \/ \E a \in 1 .. Steps(task[t]), x \in 0 .. SeqModulus - 1 :
          r.seq = NextSeq(x) /\ Ahead(x, task[t].seq, a)

\* Task s of transfer t is one that nobody of e disturbed, and that does not
\* compare checksums.
Alone(t, s, e) == t \notin e /\ s.op # Unknown /\ ~s.op.check

OpenAs(ss, i, path, mode) == ss[i] = [path |-> path, mode |-> mode]
WrittenUpTo(t, f, n) == Len(f) >= n /\ \A j \in 1 .. n : f[j] = <<t, j>>

\* What it has done so far is on the drone, or came from there, when the files
\* are fs, the sessions ss, and uploads c were complete.
Progress(t, s, fs, ss, c) ==
    LET f == fs[s.op.path]
    IN /\ s.at = "write" => OpenAs(ss, s.session, s.op.path, "w") /\ WrittenUpTo(t, f, s.ofs)
       /\ s.at = "read" =>
             /\ OpenAs(ss, s.session, s.op.path, "r")
             /\ s.ofs <= Len(f) /\ s.got = [j \in 1 .. s.ofs |-> f[j]]
       /\ s.at = "close" => IF s.op.kind = "put" THEN t \in c ELSE s.got = f

\* Reply r to its current request tells what the drone has done.
Told(r, t, s, fs, ss, c) ==
    LET f == fs[s.op.path]
    IN /\ s.at = "create" /\ r.type = "ack" => OpenAs(ss, r.session, s.op.path, "w")
       /\ s.at = "open" /\ r.type = "ack" => OpenAs(ss, r.session, s.op.path, "r")
       /\ s.at = "write" /\ r.type = "ack" =>
             WrittenUpTo(t, f, s.ofs + 1) /\ (s.ofs + 1 = Chunks => t \in c)
       /\ s.at = "read" /\ r.type = "ack" => s.ofs < Len(f) /\ r.data = <<f[s.ofs + 1]>>
       /\ s.at = "read" /\ r.type = "eof" => s.ofs = Len(f) /\ r.data = <<>>

InTime ==
    /\ \A m \in requests : m.from \in Busy => RequestInTime(m, m.from)
    /\ \A r \in replies : r.to \in Busy => ReplyInTime(r, r.to)

InStep ==
    /\ \A t \in Transfers :
          Alone(t, task[t], excused) => Progress(t, task[t], files, sessions, complete)
    /\ \A r \in replies :
          Alone(r.to, task[r.to], excused) /\ r.seq = NextSeq(task[r.to].seq) =>
              Told(r, r.to, task[r.to], files, sessions, complete)

-----------------------------------------------------------------------------
(* Helpers.                                                                *)

LEMMA NextSeqValue ==
    ASSUME NEW k \in 0 .. SeqModulus - 1
    PROVE  /\ NextSeq(k) \in 0 .. SeqModulus - 1
           /\ NextSeq(k) = IF k + 1 = SeqModulus THEN 0 ELSE k + 1
<1>1. SeqModulus \in Nat \ {0} /\ k \in Nat
    BY NumbersAssumption
<1>2. CASE k + 1 = SeqModulus
    BY <1>1, <1>2 DEF NextSeq
<1>3. CASE k + 1 < SeqModulus
    BY <1>1, <1>3 DEF NextSeq
<1> QED BY <1>1, <1>2, <1>3

\* An operation is not the unknown one.
LEMMA OperationIsKnown ==
    ASSUME NEW t \in Transfers, NEW o \in Operations[t]
    PROVE  /\ o \in [kind : {"put", "get"}, path : Paths, check : BOOLEAN]
           /\ o # Unknown
           /\ o.kind = "get" => ~o.check
<1>1. o \in [kind : {"put", "get"}, path : Paths, check : BOOLEAN]
    BY OperationsAssumption
<1>2. o.path # Absent
    BY <1>1, AbsentAssumption
<1> QED BY <1>1, <1>2, OperationsAssumption DEF Unknown

LEMMA SomeArrive ==
    ASSUME NEW a, NEW m, NEW capacity, NEW b \in Travels(a, m, capacity)
    PROVE  b \subseteq a \cup {m}
BY DEF Travels

\* Contents of files.
LEMMA ContentFits ==
    ASSUME NEW o \in Transfers \cup Paths
    PROVE  /\ FileContent(o) \in Seq(Chunk)
           /\ Len(FileContent(o)) = Chunks
           /\ \A j \in 1 .. Chunks : FileContent(o)[j] = <<o, j>>
           /\ FileFits(FileContent(o))
<1>1. Chunks \in Nat \ {0}
    BY NumbersAssumption
<1>2. \A k \in 1 .. Chunks : <<o, k>> \in Chunk
    BY DEF Chunk
<1>3. FileContent(o) \in [1 .. Chunks -> Chunk]
    BY <1>2 DEF FileContent
<1>4. FileContent(o) \in Seq(Chunk) /\ Len(FileContent(o)) = Chunks
    BY <1>1, <1>3
<1>5. \A j \in 1 .. Chunks : FileContent(o)[j] = <<o, j>>
    BY DEF FileContent
<1> QED BY <1>1, <1>4, <1>5 DEF FileFits

\* A chunk put at its place keeps what else is there.
LEMMA WriteFits ==
    ASSUME NEW f \in Seq(Chunk), FileFits(f), NEW o \in Transfers \cup Paths,
           NEW k \in 0 .. Chunks - 1
    PROVE  LET w == Written(f, k, <<o, k + 1>>)
           IN  /\ w \in Seq(Chunk)
               /\ FileFits(w)
               /\ Len(w) > k /\ Len(w) >= Len(f)
               /\ w[k + 1] = <<o, k + 1>>
               /\ \A j \in 1 .. Len(f) : j # k + 1 => w[j] = f[j]
<1> DEFINE n == IF Len(f) > k THEN Len(f) ELSE k + 1
           c == <<o, k + 1>>
           w == [j \in 1 .. n |-> IF j = k + 1 THEN c ELSE IF j <= Len(f) THEN f[j] ELSE <<Absent, 1>>]
<1>1. Chunks \in Nat \ {0} /\ Len(f) \in Nat /\ k \in Nat /\ k + 1 <= Chunks /\ Len(f) <= Chunks
    BY NumbersAssumption DEF FileFits
<1>2. n \in Nat /\ n > k /\ n >= Len(f) /\ n <= Chunks /\ n # 0
    BY <1>1
<1>3. c \in Chunk /\ <<Absent, 1>> \in Chunk
    BY <1>1 DEF Chunk
<1>4. \A j \in 1 .. Len(f) : f[j] \in Chunk
    BY <1>1
<1>5. \A j \in 1 .. n : w[j] \in Chunk
    BY <1>1, <1>2, <1>3, <1>4
<1>6. w \in [1 .. n -> Chunk]
    BY <1>5
<1> HIDE DEF n
<1>7. w \in Seq(Chunk) /\ Len(w) = n
    BY <1>2, <1>6
<1>8. w[k + 1] = c /\ \A j \in 1 .. Len(f) : j # k + 1 => w[j] = f[j]
    BY <1>1, <1>2
<1>9. \A j \in 1 .. n : w[j][2] = Chunks => j = Chunks
    <2> SUFFICES ASSUME NEW j \in 1 .. n, w[j][2] = Chunks PROVE j = Chunks
        OBVIOUS
    <2>1. CASE j = k + 1
        BY <1>1, <1>8, <2>1
    <2>2. CASE j # k + 1 /\ j <= Len(f)
        BY <1>1, <1>8, <2>2 DEF FileFits
    <2>3. CASE j # k + 1 /\ j > Len(f)
        <3>1. w[j] = <<Absent, 1>>
            BY <1>1, <1>2, <2>3
        <3>2. Chunks = 1
            BY <3>1
        <3> QED BY <1>1, <1>2, <3>2
    <2> QED BY <1>1, <2>1, <2>2, <2>3
<1>10. w = Written(f, k, c)
    BY DEF Written, n
<1> HIDE DEF w
<1> QED BY <1>1, <1>2, <1>7, <1>8, <1>9, <1>10 DEF FileFits

-----------------------------------------------------------------------------
(* Type correctness: what a transfer does.                                 *)

\* Task s2 comes after task s of the same transfer.
Follows(s, s2) ==
    /\ s.at # "new" /\ s2.at # "new"
    /\ s2.op \in {s.op, Unknown}
    /\ s2.at \in {"create", "open"} => s2.at = s.at
    /\ s2.at = "write" =>
          \/ s.at = "create"
          \/ s.at = "write" /\ s2.session = s.session /\ s.ofs <= s2.ofs
    /\ s2.at = "read" => s.at \in {"open", "read"}

LEMMA SentBefore ==
    ASSUME NEW m \in Request, NEW s \in Task, NEW s2 \in Task, Sent(m, s), Follows(s, s2)
    PROVE  Sent(m, s2)
<1>1. m.ofs \in Int /\ s.ofs \in Int /\ s2.ofs \in Int
    BY NumbersAssumption DEF Task, Request
<1> QED BY <1>1 DEF Sent, Follows

LEMMA OwnRequest ==
    ASSUME NEW t \in Transfers, NEW s \in Task, Fits(s, t), s.at \in RequestKinds
    PROVE  /\ RequestOf(t, s) \in Request
           /\ RequestOf(t, s).from = t
           /\ s.op # Unknown \/ s.at \in {"close", "reset"} => Sent(RequestOf(t, s), s)
<1>1. s.at \in {"create", "open", "crc"} => s.op.path \in Paths
    BY OperationIsKnown DEF Fits
<1>2. RequestOf(t, s) \in Request
    BY <1>1 DEF RequestOf, Request, Task
<1>3. s.ofs \in Int
    BY NumbersAssumption DEF Task
<1> QED BY <1>1, <1>2, <1>3 DEF RequestOf, Sent, Fits, RequestKinds

\* Transfer t goes on from task s2, and may have sent its request.
Moves(t, s2) ==
    /\ task' = [task EXCEPT ![t] = s2]
    /\ requests' \subseteq requests \cup {RequestOf(t, s2)}
    /\ replies' \subseteq replies
    /\ UNCHANGED drone
    /\ excused' \subseteq Transfers

LEMMA MoveKeepsTypes ==
    ASSUME TypeInv, NEW t \in Transfers, NEW s2 \in Task, Moves(t, s2),
           Fits(s2, t), s2.at \in RequestKinds,
           Follows(task[t], s2), UNCHANGED complete
    PROVE  TypeInv'
<1> DEFINE q == RequestOf(t, s2)
<1>1. task' \in [Transfers -> Task] /\ task'[t] = s2 /\ \A o \in Transfers \ {t} : task'[o] = task[o]
    BY DEF TypeInv, Moves
<1>2. q \in Request /\ q.from = t /\ Sent(q, s2)
    BY OwnRequest DEF Fits, RequestKinds, Task
<1>3. \A m \in requests : m \in Request /\ m.from \in Transfers /\ Sent(m, task[m.from])
    BY DEF TypeInv, TransferTypeOK, Request
<1>4. \A m \in requests' : m \in Request /\ Sent(m, task'[m.from])
    <2> SUFFICES ASSUME NEW m \in requests' PROVE m \in Request /\ Sent(m, task'[m.from])
        OBVIOUS
    <2>1. CASE m = q
        BY <1>1, <1>2, <2>1
    <2>2. CASE m \in requests /\ m.from = t
        <3>1. m \in Request /\ Sent(m, task[t]) /\ task[t] \in Task
            BY <1>3, <2>2 DEF TypeInv
        <3>2. Sent(m, s2)
            BY <3>1, SentBefore
        <3> QED BY <1>1, <2>2, <3>1, <3>2
    <2>3. CASE m \in requests /\ m.from # t
        BY <1>1, <1>3, <2>3
    <2> QED BY <2>1, <2>2, <2>3 DEF Moves
<1>5. \A r \in replies' : r \in Reply /\ r.to \in Transfers /\ ComparedWith(r, task[r.to])
    BY DEF Moves, TypeInv, TransferTypeOK, Reply
<1>6. \A r \in replies' : ComparedWith(r, task[r.to])'
    <2> SUFFICES ASSUME NEW r \in replies' PROVE ComparedWith(r, task[r.to])'
        OBVIOUS
    <2>1. CASE r.to = t
        BY <1>1, <1>5, <2>1 DEF ComparedWith, Follows
    <2>2. CASE r.to # t
        BY <1>1, <1>5, <2>2 DEF ComparedWith
    <2> QED BY <2>1, <2>2
<1>7. \A o \in Transfers : task'[o] \in Task /\ Fits(task'[o], o)
    BY <1>1 DEF TypeInv
<1>8. complete' \subseteq Busy'
    BY <1>1 DEF TypeInv, TransferTypeOK, Busy
<1>9. (\A p \in Paths : FileFits(files[p]))' /\ (files \in [Paths -> Seq(Chunk)])'
      /\ (sessions \in [Sessions -> Session \cup {Absent}])'
    BY DEF Moves, drone, TypeInv, TransferTypeOK
<1>10. requests' \subseteq Request /\ replies' \subseteq Reply /\ excused' \subseteq Transfers
    BY <1>4, <1>5 DEF Moves
<1>11. TransferTypeOK'
    BY <1>7, <1>8, <1>9, <1>10 DEF TransferTypeOK
<1> QED BY <1>1, <1>4, <1>6, <1>7, <1>9, <1>11 DEF TypeInv

\* The next task of a transfer, with the number and the retries it begins with.
NextRequest(s) == [s EXCEPT !.seq = NextSeq(NextSeq(@)), !.retries = MaxRetries]

LEMMA NextRequestFits ==
    ASSUME NEW t \in Transfers, NEW s \in Task, NEW s0 \in Task, Fits(s, t), Follows(s0, s)
    PROVE  /\ NextRequest(s) \in Task /\ Fits(NextRequest(s), t) /\ Follows(s0, NextRequest(s))
           /\ NextRequest(s).at = s.at
<1>1. NextSeq(NextSeq(s.seq)) \in 0 .. SeqModulus - 1
    BY NextSeqValue DEF Task
<1>2. MaxRetries \in 0 .. MaxRetries
    BY NumbersAssumption
<1>3. NextRequest(s) \in Task
    BY <1>1, <1>2 DEF NextRequest, Task
<1>4. \A f \in {"op", "at", "ofs", "session", "outcome", "got"} : NextRequest(s)[f] = s[f]
    BY DEF NextRequest, Task
<1>5. /\ NextRequest(s).op = s.op /\ NextRequest(s).at = s.at /\ NextRequest(s).ofs = s.ofs
      /\ NextRequest(s).session = s.session /\ NextRequest(s).outcome = s.outcome
      /\ NextRequest(s).got = s.got
    BY <1>4
<1> QED BY <1>3, <1>5 DEF Fits, Follows

LEMMA SendMoves ==
    ASSUME TypeInv, NEW t \in Transfers, NEW s, SendAndWait(t, s),
           replies' \subseteq replies, excused' \subseteq Transfers
    PROVE  Moves(t, NextRequest(s))
<1>1. task' = [task EXCEPT ![t] = NextRequest(s)] /\ task'[t] = NextRequest(s)
    BY DEF SendAndWait, NextRequest, TypeInv
<1>2. requests' \subseteq requests \cup {RequestOf(t, NextRequest(s))}
    BY <1>1, SomeArrive DEF SendAndWait, Asks
<1> QED BY <1>1, <1>2 DEF Moves, SendAndWait

LEMMA SendKeepsTypes ==
    ASSUME TypeInv, NEW t \in Transfers, NEW s \in Task, SendAndWait(t, s),
           Fits(s, t), s.at \in RequestKinds, Follows(task[t], s),
           replies' \subseteq replies, excused' \subseteq Transfers
    PROVE  TypeInv'
<1> DEFINE s2 == NextRequest(s)
<1>1. task[t] \in Task
    BY DEF TypeInv
<1>2. s2 \in Task /\ Fits(s2, t) /\ Follows(task[t], s2) /\ s2.at \in RequestKinds
    BY <1>1, NextRequestFits
<1>3. Moves(t, s2) /\ UNCHANGED complete
    BY SendMoves DEF SendAndWait
<1> HIDE DEF s2
<1> QED BY <1>2, <1>3, MoveKeepsTypes

\* The tasks that follow are of their type, and fit.
LEMMA IdleFits ==
    ASSUME NEW t \in Transfers
    PROVE  Idle \in Task /\ Fits(Idle, t) /\ Idle.op = Unknown /\ Idle.at = "new"
<1>1. <<>> \in Seq(Chunk) /\ 0 \in 0 .. SeqModulus - 1 /\ 0 \in Sessions /\ 0 \in 0 .. Chunks + 1
      /\ MaxRetries \in 0 .. MaxRetries
    BY NumbersAssumption
<1>2. Idle \in Task
    BY <1>1 DEF Idle, Task
<1> QED BY <1>2 DEF Fits, Idle, RequestKinds

LEMMA ClosingFits ==
    ASSUME TypeInv, NEW t \in Transfers, task[t].at \in {"write", "read"}, NEW v \in {"none", "failed"},
           NEW s \in Task,
           s = task[t] \/ s = [task[t] EXCEPT !.got = s.got]
    PROVE  LET c == Closing(s, v)
           IN  /\ c \in Task /\ Fits(c, t) /\ Follows(task[t], c) /\ c.at = "close"
               /\ c.seq = task[t].seq
               /\ v = "none" => c.got = s.got /\ c.op = task[t].op
               /\ v = "failed" => c.op = Unknown
<1>1. task[t] \in Task /\ Fits(task[t], t) /\ 0 \in 0 .. Chunks + 1
    BY NumbersAssumption DEF TypeInv
<1>2. /\ s.op = task[t].op /\ s.at = task[t].at /\ s.outcome = task[t].outcome
      /\ s.seq = task[t].seq
    BY <1>1 DEF Task
<1>3. CASE v = "none"
    <2> DEFINE c == Closing(s, v)
    <2>1. c = [s EXCEPT !.at = "close", !.ofs = 0]
        BY <1>3 DEF Closing
    <2>2. c \in Task
        BY <1>1, <2>1 DEF Task, RequestKinds
    <2>3. /\ c.op = s.op /\ c.at = "close" /\ c.outcome = s.outcome /\ c.seq = s.seq
          /\ c.got = s.got
        BY <2>1 DEF Task
    <2> HIDE DEF c
    <2>4. Fits(c, t)
        BY <1>1, <1>2, <2>3 DEF Fits, RequestKinds
    <2>5. Follows(task[t], c)
        BY <1>2, <2>3 DEF Follows
    <2> QED BY <1>2, <1>3, <2>2, <2>3, <2>4, <2>5 DEF c
<1>4. CASE v = "failed"
    <2> DEFINE c == Closing(s, v)
    <2>1. c = [Idle EXCEPT !.at = "close", !.seq = s.seq, !.session = s.session, !.outcome = "failed"]
        BY <1>4 DEF Closing
    <2>2. c \in Task
        BY <1>1, <2>1, IdleFits DEF Task, RequestKinds
    <2>3. c.op = Unknown /\ c.at = "close" /\ c.outcome = "failed" /\ c.seq = s.seq
        BY <2>1 DEF Idle
    <2> HIDE DEF c
    <2>4. Fits(c, t)
        BY <2>3 DEF Fits, RequestKinds
    <2>5. Follows(task[t], c)
        BY <1>2, <2>3 DEF Follows
    <2> QED BY <1>2, <1>4, <2>2, <2>3, <2>4, <2>5 DEF c
<1> QED BY <1>3, <1>4

LEMMA ResettingFits ==
    ASSUME TypeInv, NEW t \in Transfers, task[t].at \in RequestKinds, NEW v \in {"ok", "failed"}
    PROVE  LET c == Resetting(task[t], v)
           IN  /\ c \in Task /\ Fits(c, t) /\ Follows(task[t], c) /\ c.at = "reset"
               /\ c.seq = task[t].seq
               /\ c.op = Unknown /\ c.outcome = v
<1> DEFINE c == Resetting(task[t], v)
<1>1. task[t] \in Task
    BY DEF TypeInv
<1>2. c = [Idle EXCEPT !.at = "reset", !.seq = task[t].seq, !.outcome = v]
    BY DEF Resetting
<1>3. c \in Task
    BY <1>1, <1>2, IdleFits DEF Task, RequestKinds
<1>4. c.op = Unknown /\ c.at = "reset" /\ c.outcome = v /\ c.seq = task[t].seq
    BY <1>2 DEF Idle
<1> HIDE DEF c
<1>5. Fits(c, t)
    BY <1>4 DEF Fits, RequestKinds
<1>6. Follows(task[t], c)
    BY <1>4 DEF Follows, RequestKinds
<1> QED BY <1>3, <1>4, <1>5, <1>6 DEF c

LEMMA FinishKeepsTypes ==
    ASSUME TypeInv, NEW t \in Transfers, Finish(t), task[t].at # "new",
           replies' \subseteq replies, excused' \subseteq Transfers
    PROVE  TypeInv'
<1> DEFINE s2 == [Idle EXCEPT !.at = "done"]
<1>1. s2 \in Task /\ s2.op = Unknown /\ s2.at = "done" /\ Fits(s2, t)
    <2>1. s2 \in Task
        BY IdleFits DEF Task
    <2>2. s2.op = Unknown /\ s2.at = "done" /\ s2.outcome = "none"
        BY DEF Idle
    <2> QED BY <2>1, <2>2 DEF Fits, RequestKinds
<1> HIDE DEF s2
<1>2. task' = [task EXCEPT ![t] = s2]
    BY DEF Finish, s2
<1>3. task' \in [Transfers -> Task] /\ task'[t] = s2 /\ \A o \in Transfers \ {t} : task'[o] = task[o]
    BY <1>1, <1>2 DEF TypeInv
<1>4. \A m \in requests' : Sent(m, task[m.from])'
    <2> SUFFICES ASSUME NEW m \in requests PROVE Sent(m, task[m.from])'
        BY DEF Finish
    <2>1. m \in Request /\ m.from \in Transfers /\ Sent(m, task[m.from])
        BY DEF TypeInv, TransferTypeOK, Request
    <2>2. CASE m.from = t
        BY <1>1, <1>3, <2>1, <2>2 DEF Sent
    <2>3. CASE m.from # t
        BY <1>3, <2>1, <2>3 DEF Sent
    <2> QED BY <2>2, <2>3
<1>5. \A r \in replies' : ComparedWith(r, task[r.to])'
    <2> SUFFICES ASSUME NEW r \in replies PROVE ComparedWith(r, task[r.to])'
        OBVIOUS
    <2>1. r.to \in Transfers /\ ComparedWith(r, task[r.to])
        BY DEF TypeInv, TransferTypeOK, Reply
    <2>2. CASE r.to = t
        BY <1>1, <1>3, <2>1, <2>2 DEF ComparedWith
    <2>3. CASE r.to # t
        BY <1>3, <2>1, <2>3 DEF ComparedWith, Finish
    <2> QED BY <2>2, <2>3
<1>6. \A o \in Transfers : task'[o] \in Task /\ Fits(task'[o], o)
    BY <1>1, <1>3 DEF TypeInv
<1>7. complete' \subseteq Busy'
    BY <1>3 DEF TypeInv, TransferTypeOK, Busy, Finish
<1>8. TransferTypeOK' /\ (\A p \in Paths : FileFits(files[p]))'
    BY <1>6, <1>7 DEF TypeInv, TransferTypeOK, Finish, drone
<1> QED BY <1>3, <1>4, <1>5, <1>6, <1>8 DEF TypeInv

LEMMA StartKeepsTypes ==
    ASSUME TypeInv, NEW t \in Transfers, NEW o \in Operations[t], NEW k \in Starts[t],
           StartTransfer(t, o, k)
    PROVE  TypeInv'
<1> DEFINE s2 == [task[t] EXCEPT !.op = o, !.seq = k,
                                 !.at = IF o.kind = "put" THEN "create" ELSE "open"]
           q == RequestOf(t, s2)
<1>1. task[t] \in Task /\ Fits(task[t], t) /\ task[t].at = "new"
    BY DEF TypeInv, StartTransfer
<1>2. /\ o \in AllOperations /\ o.kind \in {"put", "get"} /\ o # Unknown
      /\ k \in 0 .. SeqModulus - 1
    BY OperationIsKnown, NumbersAssumption DEF AllOperations
<1>3. s2 \in Task
    BY <1>1, <1>2 DEF Task, RequestKinds
<1>4. /\ s2.op = o /\ s2.at = (IF o.kind = "put" THEN "create" ELSE "open")
      /\ s2.ofs = task[t].ofs /\ s2.got = task[t].got /\ s2.outcome = task[t].outcome
    BY <1>1 DEF Task
<1>5. task' = [task EXCEPT ![t] = s2] /\ requests' \subseteq requests \cup {q}
      /\ UNCHANGED <<replies, drone, history>>
    BY SomeArrive DEF StartTransfer, Asks
<1> HIDE DEF s2
<1>6. task' \in [Transfers -> Task] /\ task'[t] = s2 /\ \A u \in Transfers \ {t} : task'[u] = task[u]
    BY <1>3, <1>5 DEF TypeInv
<1>7. Fits(s2, t) /\ s2.at \in RequestKinds
    <2>1. s2.ofs = 0 /\ s2.got = <<>>
        BY <1>1, <1>4 DEF Fits
    <2> QED BY <1>1, <1>2, <1>4, <2>1 DEF Fits, RequestKinds
<1>8. q \in Request /\ q.from = t /\ Sent(q, s2)
    BY <1>2, <1>3, <1>4, <1>7, OwnRequest
<1> HIDE DEF q
<1>9. \A m \in requests : m \in Request /\ m.from \in Transfers \ {t} /\ Sent(m, task[m.from])
    BY <1>1 DEF TypeInv, TransferTypeOK, Request, Sent
<1>10. \A r \in replies : r \in Reply /\ r.to \in Transfers \ {t} /\ ComparedWith(r, task[r.to])
    BY <1>1 DEF TypeInv, TransferTypeOK, Reply, ComparedWith
<1>11. \A m \in requests' : m \in Request /\ Sent(m, task'[m.from])
    BY <1>5, <1>6, <1>8, <1>9
<1>12. \A r \in replies' : ComparedWith(r, task[r.to])'
    BY <1>5, <1>6, <1>10 DEF ComparedWith, history
<1>13. \A u \in Transfers : task'[u] \in Task /\ Fits(task'[u], u)
    BY <1>3, <1>6, <1>7 DEF TypeInv
<1>14. complete' \subseteq Busy'
    BY <1>5, <1>6, <1>7 DEF TypeInv, TransferTypeOK, Busy, history
<1>15. TransferTypeOK' /\ (\A p \in Paths : FileFits(files[p]))'
    BY <1>5, <1>11, <1>13, <1>14 DEF TypeInv, TransferTypeOK, history, drone
<1> QED BY <1>6, <1>11, <1>12, <1>13, <1>15 DEF TypeInv

LEMMA RepeatKeepsTypes ==
    ASSUME TypeInv, NEW t \in Transfers, RepeatRequest(t)
    PROVE  TypeInv'
<1> DEFINE s2 == [task[t] EXCEPT !.retries = @ - 1]
<1>1. task[t] \in Task /\ Fits(task[t], t) /\ task[t].at \in RequestKinds /\ task[t].retries > 0
    BY DEF TypeInv, RepeatRequest
<1>2. s2 \in Task
    <2>1. task[t].retries \in 0 .. MaxRetries /\ MaxRetries \in Nat
        BY <1>1, NumbersAssumption DEF Task
    <2>2. task[t].retries - 1 \in 0 .. MaxRetries
        BY <1>1, <2>1
    <2> QED BY <1>1, <2>2 DEF Task
<1>3. task' = [task EXCEPT ![t] = s2] /\ task'[t] = s2
    BY DEF RepeatRequest, TypeInv
<1>4. /\ s2.op = task[t].op /\ s2.at = task[t].at /\ s2.ofs = task[t].ofs
      /\ s2.session = task[t].session /\ s2.outcome = task[t].outcome
      /\ s2.got = task[t].got /\ s2.seq = task[t].seq
    BY <1>1 DEF Task
<1> HIDE DEF s2
<1>5. RequestOf(t, task[t]) = RequestOf(t, s2)
    BY <1>4 DEF RequestOf
<1>6. Moves(t, s2) /\ UNCHANGED complete
    BY <1>3, <1>5, SomeArrive DEF RepeatRequest, Asks, Moves, history, TypeInv, TransferTypeOK
<1>7. Fits(s2, t)
    BY <1>1, <1>4 DEF Fits
<1>8. Follows(task[t], s2)
    BY <1>1, <1>4, NumbersAssumption DEF Follows, RequestKinds, Task
<1> QED BY <1>1, <1>2, <1>4, <1>6, <1>7, <1>8, MoveKeepsTypes

\* A reply that was taken.
LEMMA GotReply ==
    ASSUME TypeInv, NEW t \in Transfers, NEW r \in replies, NEW stage, NEW types,
           Got(t, r, stage, types)
    PROVE  /\ task[t].at = stage /\ task[t].at \in RequestKinds
           /\ r \in Reply /\ r.type \in types
           /\ replies' \subseteq replies /\ excused' \subseteq Transfers
           /\ excused \subseteq excused'
           /\ t \notin excused' => t \notin excused /\ r.to = t
           /\ excused' \subseteq excused \cup {t}
           /\ r.seq = NextSeq(task[t].seq)
BY DEF Got, Takes, Matches, TypeInv, TransferTypeOK

\* The task that goes on with reply r, where it is not over.
AfterOpened(t, r) ==
    [task[t] EXCEPT !.session = r.session, !.at = IF @ = "create" THEN "write" ELSE "read"]
AfterWritten(t) == [task[t] EXCEPT !.ofs = @ + 1]
AfterRead(t, r) == [task[t] EXCEPT !.got = @ \o r.data]
AfterReadNext(t, r) == [AfterRead(t, r) EXCEPT !.ofs = @ + Len(r.data)]
AfterClosed(t) == [task[t] EXCEPT !.at = "crc", !.session = 0]

LEMMA OpenedFits ==
    ASSUME TypeInv, NEW t \in Transfers, NEW r \in Reply, task[t].at \in {"create", "open"}
    PROVE  LET c == AfterOpened(t, r)
           IN  /\ c \in Task /\ Fits(c, t) /\ Follows(task[t], c)
               /\ c.at = IF task[t].at = "create" THEN "write" ELSE "read"
               /\ c.seq = task[t].seq
               /\ c.session = r.session /\ c.op = task[t].op
               /\ c.ofs = 0 /\ c.got = <<>>
<1> DEFINE c == AfterOpened(t, r)
<1>1. task[t] \in Task /\ Fits(task[t], t) /\ r.session \in Sessions
    BY DEF TypeInv, Reply
<1>2. c \in Task
    BY <1>1 DEF AfterOpened, Task, RequestKinds
<1>3. /\ c.at = IF task[t].at = "create" THEN "write" ELSE "read"
      /\ c.seq = task[t].seq
      /\ c.session = r.session /\ c.op = task[t].op /\ c.outcome = task[t].outcome
      /\ c.ofs = task[t].ofs /\ c.got = task[t].got
    BY <1>1 DEF AfterOpened, Task
<1>4. c.ofs = 0 /\ c.got = <<>>
    BY <1>1, <1>3 DEF Fits
<1> HIDE DEF c
<1>5. Fits(c, t)
    <2>1. 0 < Chunks /\ 0 <= Chunks
        BY NumbersAssumption
    <2>2. CASE task[t].at = "create"
        BY <1>1, <1>3, <1>4, <2>1, <2>2 DEF Fits, RequestKinds
    <2>3. CASE task[t].at = "open"
        BY <1>1, <1>3, <1>4, <2>1, <2>3 DEF Fits, RequestKinds
    <2> QED BY <2>2, <2>3
<1>6. Follows(task[t], c)
    <2>1. CASE task[t].at = "create"
        BY <1>3, <2>1 DEF Follows
    <2>2. CASE task[t].at = "open"
        BY <1>3, <2>2 DEF Follows
    <2> QED BY <2>1, <2>2
<1> QED BY <1>2, <1>3, <1>4, <1>5, <1>6 DEF c

LEMMA WrittenFits ==
    ASSUME TypeInv, NEW t \in Transfers, task[t].at = "write", task[t].ofs + 1 < Chunks
    PROVE  LET c == AfterWritten(t)
           IN  /\ c \in Task /\ Fits(c, t) /\ Follows(task[t], c)
               /\ c.at = "write" /\ c.seq = task[t].seq /\ c.session = task[t].session
               /\ c.op = task[t].op /\ c.ofs = task[t].ofs + 1
<1> DEFINE c == AfterWritten(t)
<1>1. task[t] \in Task /\ Fits(task[t], t) /\ task[t].ofs \in Nat /\ Chunks \in Nat
    BY NumbersAssumption DEF TypeInv, Task
<1>2. task[t].ofs + 1 \in 0 .. Chunks + 1
    BY <1>1
<1>3. c \in Task
    BY <1>1, <1>2 DEF AfterWritten, Task
<1>4. /\ c.at = "write" /\ c.seq = task[t].seq /\ c.session = task[t].session
      /\ c.op = task[t].op /\ c.ofs = task[t].ofs + 1 /\ c.outcome = task[t].outcome
    BY <1>1 DEF AfterWritten, Task
<1> HIDE DEF c
<1>5. Fits(c, t)
    BY <1>1, <1>4 DEF Fits, RequestKinds
<1>6. Follows(task[t], c)
    BY <1>1, <1>4 DEF Follows
<1> QED BY <1>3, <1>4, <1>5, <1>6 DEF c

LEMMA ReadFits ==
    ASSUME TypeInv, NEW t \in Transfers, NEW r \in Reply, task[t].at = "read"
    PROVE  LET g == AfterRead(t, r)
               c == AfterReadNext(t, r)
           IN  /\ g \in Task /\ g = [task[t] EXCEPT !.got = g.got] /\ g.got = task[t].got \o r.data
               /\ task[t].ofs + Len(r.data) <= Chunks =>
                     /\ c \in Task /\ Fits(c, t) /\ Follows(task[t], c)
                     /\ c.at = "read" /\ c.seq = task[t].seq /\ c.session = task[t].session
                     /\ c.op = task[t].op /\ c.got = task[t].got \o r.data
                     /\ c.ofs = task[t].ofs + Len(r.data)
<1> DEFINE g == AfterRead(t, r)
           c == AfterReadNext(t, r)
<1>1. /\ task[t] \in Task /\ Fits(task[t], t) /\ task[t].ofs \in Nat /\ Chunks \in Nat
      /\ task[t].got \in Seq(Chunk) /\ r.data \in Seq(Chunk)
    BY NumbersAssumption DEF TypeInv, Task, Reply
<1>2. task[t].got \o r.data \in Seq(Chunk) /\ Len(r.data) \in Nat
    BY <1>1
<1>3. g \in Task /\ g = [task[t] EXCEPT !.got = g.got] /\ g.got = task[t].got \o r.data
    BY <1>1, <1>2 DEF AfterRead, Task
<1>4. g.ofs = task[t].ofs /\ g.at = "read" /\ g.seq = task[t].seq /\ g.session = task[t].session
      /\ g.op = task[t].op /\ g.outcome = task[t].outcome
    BY <1>1 DEF AfterRead, Task
<1>5. SUFFICES ASSUME task[t].ofs + Len(r.data) <= Chunks
               PROVE  /\ c \in Task /\ Fits(c, t) /\ Follows(task[t], c)
                      /\ c.at = "read" /\ c.seq = task[t].seq /\ c.session = task[t].session
                      /\ c.op = task[t].op /\ c.got = task[t].got \o r.data
                      /\ c.ofs = task[t].ofs + Len(r.data)
    BY <1>3
<1>6. task[t].ofs + Len(r.data) \in 0 .. Chunks + 1
    BY <1>1, <1>2, <1>5
<1>7. c = [g EXCEPT !.ofs = task[t].ofs + Len(r.data)]
    BY <1>4 DEF AfterReadNext
<1> HIDE DEF g
<1>8. c \in Task
    BY <1>3, <1>6, <1>7 DEF Task
<1>9. /\ c.at = "read" /\ c.seq = task[t].seq /\ c.session = task[t].session
      /\ c.op = task[t].op /\ c.got = task[t].got \o r.data
      /\ c.ofs = task[t].ofs + Len(r.data) /\ c.outcome = task[t].outcome
    BY <1>3, <1>4, <1>7 DEF Task
<1> HIDE DEF c
<1>10. Fits(c, t)
    BY <1>1, <1>5, <1>9 DEF Fits, RequestKinds
<1>11. Follows(task[t], c)
    BY <1>9 DEF Follows
<1> QED BY <1>8, <1>9, <1>10, <1>11

LEMMA ClosedFits ==
    ASSUME TypeInv, NEW t \in Transfers, task[t].at = "close", task[t].outcome = "none",
           task[t].op.check
    PROVE  LET c == AfterClosed(t)
           IN  /\ c \in Task /\ Fits(c, t) /\ Follows(task[t], c)
               /\ c.at = "crc" /\ c.seq = task[t].seq /\ c.op = task[t].op
<1> DEFINE c == AfterClosed(t)
<1>1. task[t] \in Task /\ Fits(task[t], t) /\ 0 \in Sessions
    BY NumbersAssumption DEF TypeInv
<1>2. c \in Task
    BY <1>1 DEF AfterClosed, Task, RequestKinds
<1>3. c.at = "crc" /\ c.seq = task[t].seq /\ c.op = task[t].op /\ c.outcome = task[t].outcome
    BY <1>1 DEF AfterClosed, Task
<1>4. c.op \in Operations[t] /\ c.op # Unknown /\ c.op.kind = "put" /\ c.op.check
    <2>1. task[t].op \in Operations[t]
        BY <1>1 DEF Fits, RequestKinds
    <2> QED BY <1>3, <2>1, OperationIsKnown
<1> HIDE DEF c
<1>5. Fits(c, t)
    BY <1>3, <1>4 DEF Fits, RequestKinds
<1>6. Follows(task[t], c)
    BY <1>3 DEF Follows
<1> QED BY <1>2, <1>3, <1>5, <1>6 DEF c

\* Was this the last chunk to read?
LastRead(t, r) == AtEnd(r.data) \/ r.type = "eof" \/ task[t].ofs + Len(r.data) > Chunks

\* How a transfer may go on by itself: after a failure, to compare or to end, or
\* to do its work with reply r.
Continues(t, r, s) ==
    \/ s.op = Unknown \/ s.op.check
    \/ task[t].at \in {"create", "open"} /\ r.type = "ack" /\ s = AfterOpened(t, r)
    \/ /\ task[t].at = "write" /\ r.type = "ack"
       /\ s = IF task[t].ofs + 1 < Chunks THEN AfterWritten(t) ELSE Closing(task[t], "none")
    \/ /\ task[t].at = "read" /\ r.type \in {"ack", "eof"}
       /\ s = IF LastRead(t, r) THEN Closing(AfterRead(t, r), "none") ELSE AfterReadNext(t, r)

\* What a transfer that ends well has done: there was nothing to compare, or the
\* checksum was the right one.
Earned(t, r) ==
    \/ task[t].outcome # "none"
    \/ task[t].at = "close" /\ ~task[t].op.check
    \/ task[t].at = "crc" /\ r.data = Data(t)

GoesOn(t, r, s) ==
    /\ SendAndWait(t, s)
    /\ Fits(s, t) /\ s.at \in RequestKinds /\ Follows(task[t], s)
    /\ s.seq = task[t].seq /\ Steps(s) > Steps(task[t])
    /\ Continues(t, r, s)
    /\ s.outcome = "ok" => Earned(t, r)

LEMMA StepsValue ==
    ASSUME NEW t \in Transfers, NEW s \in Task, Fits(s, t)
    PROVE  /\ Steps(s) \in 0 .. Chunks + 4
           /\ s.at \in {"new", "create", "open", "done"} => Steps(s) = 0
           /\ s.at \in {"write", "read"} => Steps(s) = s.ofs + 1 /\ Steps(s) < Chunks + 2
           /\ s.at = "close" => Steps(s) = Chunks + 2
           /\ s.at = "crc" => Steps(s) = Chunks + 3
           /\ s.at = "reset" => Steps(s) = Chunks + 4
<1>1. s.ofs \in Nat /\ Chunks \in Nat
    BY NumbersAssumption DEF Task
<1>2. s.at \in {"new", "create", "open", "done"} => Steps(s) = 0
    BY DEF Steps
<1>3. s.at \in {"write", "read"} => Steps(s) = s.ofs + 1 /\ Steps(s) < Chunks + 2
    BY <1>1 DEF Steps, Fits
<1>4. s.at = "close" => Steps(s) = Chunks + 2
    BY DEF Steps
<1>5. s.at = "crc" => Steps(s) = Chunks + 3
    BY DEF Steps
<1>6. s.at = "reset" => Steps(s) = Chunks + 4
    BY DEF Steps
<1>7. s.at \in {"new", "create", "open", "done", "write", "read", "close", "crc", "reset"}
    BY DEF Task, RequestKinds
<1>8. Steps(s) \in 0 .. Chunks + 4
    BY <1>1, <1>2, <1>3, <1>4, <1>5, <1>6, <1>7
<1> QED BY <1>2, <1>3, <1>4, <1>5, <1>6, <1>8

\* To close the session or the connection is a step further.
LEMMA LaterSteps ==
    ASSUME NEW t \in Transfers, NEW s \in Task, NEW s2 \in Task, Fits(s, t), Fits(s2, t),
           \/ s2.at = "close" /\ s.at \in {"create", "open", "write", "read"}
           \/ s2.at = "crc" /\ s.at \in {"create", "open", "write", "read", "close"}
           \/ s2.at = "reset" /\ s.at \in RequestKinds \ {"reset"}
           \/ s2.at \in {"write", "read"} /\ s.at \in {"create", "open"}
           \/ s2.at \in {"write", "read"} /\ s.at \in {"write", "read"} /\ s.ofs < s2.ofs
    PROVE  Steps(s2) > Steps(s)
<1>1. s.ofs \in Nat /\ s2.ofs \in Nat /\ Chunks \in Nat
    BY NumbersAssumption DEF Task
<1>2. CASE s2.at = "close" /\ s.at \in {"create", "open", "write", "read"}
    BY <1>1, <1>2, StepsValue
<1>3. CASE s2.at = "crc" /\ s.at \in {"create", "open", "write", "read", "close"}
    BY <1>1, <1>3, StepsValue
<1>4. CASE s2.at = "reset" /\ s.at \in RequestKinds \ {"reset"}
    BY <1>1, <1>4, StepsValue DEF RequestKinds
<1>5. CASE s2.at \in {"write", "read"} /\ s.at \in {"create", "open"}
    BY <1>1, <1>5, StepsValue
<1>6. CASE s2.at \in {"write", "read"} /\ s.at \in {"write", "read"} /\ s.ofs < s2.ofs
    BY <1>1, <1>6, StepsValue
<1> QED BY <1>2, <1>3, <1>4, <1>5, <1>6

\* After an exception, a transfer closes what is open, or is over.
LEMMA FailGoesOn ==
    ASSUME TypeInv, NEW t \in Transfers, NEW r, task[t].at \in RequestKinds, Fail(t)
    PROVE  Finish(t) \/ \E s \in Task : s.op = Unknown /\ s.outcome # "ok" /\ GoesOn(t, r, s)
<1>1. task[t] \in Task /\ Fits(task[t], t)
    BY DEF TypeInv
<1>2. CASE task[t].at \in {"write", "read"}
    <2> DEFINE c == Closing(task[t], "failed")
    <2>1. /\ c \in Task /\ Fits(c, t) /\ Follows(task[t], c) /\ c.at = "close"
          /\ c.op = Unknown /\ c.seq = task[t].seq
        BY <1>1, <1>2, ClosingFits
    <2>2. SendAndWait(t, c)
        BY <1>2 DEF Fail
    <2> HIDE DEF c
    <2>3. Steps(c) > Steps(task[t])
        BY <1>1, <1>2, <2>1, LaterSteps
    <2>4. c.outcome # "ok"
        BY <2>1 DEF Fits
    <2> QED BY <2>1, <2>2, <2>3, <2>4 DEF GoesOn, Continues, RequestKinds
<1>3. CASE task[t].at \in {"create", "open", "close", "crc"}
    <2> DEFINE c == Resetting(task[t], "failed")
    <2>1. /\ c \in Task /\ Fits(c, t) /\ Follows(task[t], c) /\ c.at = "reset"
          /\ c.op = Unknown /\ c.seq = task[t].seq /\ c.outcome = "failed"
        BY ResettingFits
    <2>2. SendAndWait(t, c)
        BY <1>3 DEF Fail
    <2> HIDE DEF c
    <2>3. Steps(c) > Steps(task[t])
        BY <1>1, <1>3, <2>1, LaterSteps DEF RequestKinds
    <2> QED BY <2>1, <2>2, <2>3 DEF GoesOn, Continues, RequestKinds
<1>4. CASE task[t].at = "reset"
    BY <1>4 DEF Fail
<1> QED BY <1>2, <1>3, <1>4 DEF RequestKinds

\* What a transfer does with a reply.
LEMMA ReceiveGoesOn ==
    ASSUME TypeInv, NEW t \in Transfers, NEW r \in replies, Receive(t, r)
    PROVE  Finish(t) \/ \E s \in Task : GoesOn(t, r, s)
<1> task[t] \in Task /\ Fits(task[t], t)
    BY DEF TypeInv
<1>1. CASE Refused(t, r)
    <2>1. PICK stage \in RequestKinds :
             Got(t, r, stage, IF stage = "read" THEN {"nak"} ELSE {"nak", "eof"})
        BY <1>1 DEF Refused
    <2> QED BY <1>1, <2>1, GotReply, FailGoesOn DEF Refused
<1>2. CASE Opened(t, r)
    <2> DEFINE c == AfterOpened(t, r)
    <2>1. task[t].at \in {"create", "open"} /\ r \in Reply /\ r.type = "ack"
        BY <1>2, GotReply DEF Opened
    <2>2. SendAndWait(t, c)
        BY <1>2 DEF Opened, AfterOpened
    <2>3. /\ c \in Task /\ Fits(c, t) /\ Follows(task[t], c) /\ c.at \in {"write", "read"}
          /\ c.seq = task[t].seq
        BY <2>1, OpenedFits
    <2>4. Continues(t, r, c)
        BY <2>1 DEF Continues
    <2> HIDE DEF c
    <2>5. Steps(c) > Steps(task[t])
        BY <2>1, <2>3, LaterSteps
    <2> QED BY <2>2, <2>3, <2>4, <2>5 DEF GoesOn, RequestKinds, Fits
<1>3. CASE ChunkWritten(t, r)
    <2>1. task[t].at = "write" /\ r.type = "ack"
        BY <1>3, GotReply DEF ChunkWritten
    <2>2. CASE task[t].ofs + 1 < Chunks
        <3> DEFINE c == AfterWritten(t)
        <3>1. SendAndWait(t, c)
            BY <1>3, <2>2 DEF ChunkWritten, AfterWritten
        <3>2. /\ c \in Task /\ Fits(c, t) /\ Follows(task[t], c) /\ c.at = "write"
              /\ c.seq = task[t].seq /\ c.ofs = task[t].ofs + 1
            BY <2>1, <2>2, WrittenFits
        <3>3. Continues(t, r, c)
            BY <2>1, <2>2 DEF Continues
        <3> HIDE DEF c
        <3>4. task[t].ofs < c.ofs
            BY <3>2, NumbersAssumption DEF Task
        <3>5. Steps(c) > Steps(task[t])
            BY <2>1, <3>2, <3>4, LaterSteps
        <3> QED BY <3>1, <3>2, <3>3, <3>5 DEF GoesOn, RequestKinds, Fits
    <2>3. CASE ~(task[t].ofs + 1 < Chunks)
        <3> DEFINE c == Closing(task[t], "none")
        <3>1. SendAndWait(t, c)
            BY <1>3, <2>3 DEF ChunkWritten
        <3>2. /\ c \in Task /\ Fits(c, t) /\ Follows(task[t], c) /\ c.at = "close"
              /\ c.seq = task[t].seq
            BY <2>1, ClosingFits
        <3>3. Continues(t, r, c)
            BY <2>1, <2>3 DEF Continues
        <3> HIDE DEF c
        <3>4. Steps(c) > Steps(task[t])
            BY <2>1, <3>2, LaterSteps
        <3> QED BY <3>1, <3>2, <3>3, <3>4 DEF GoesOn, RequestKinds, Fits
    <2> QED BY <2>2, <2>3
<1>4. CASE ChunkRead(t, r)
    <2> DEFINE g == AfterRead(t, r)
    <2>0. task[t].at = "read" /\ r \in Reply /\ r.type \in {"ack", "eof"}
        BY <1>4, GotReply DEF ChunkRead
    <2>1. /\ task[t].at = "read" /\ r \in Reply /\ r.type \in {"ack", "eof"}
          /\ g \in Task /\ g = [task[t] EXCEPT !.got = g.got]
        BY <2>0, ReadFits
    <2>2. CASE LastRead(t, r)
        <3> DEFINE c == Closing(AfterRead(t, r), "none")
        <3>1. SendAndWait(t, c)
            BY <1>4, <2>2 DEF ChunkRead, AfterRead, LastRead
        <3>2. /\ c \in Task /\ Fits(c, t) /\ Follows(task[t], c) /\ c.at = "close"
              /\ c.seq = task[t].seq
            BY <2>1, ClosingFits
        <3>3. Continues(t, r, c)
            BY <2>1, <2>2 DEF Continues
        <3> HIDE DEF c
        <3>4. Steps(c) > Steps(task[t])
            BY <2>1, <3>2, LaterSteps
        <3> QED BY <3>1, <3>2, <3>3, <3>4 DEF GoesOn, RequestKinds, Fits
    <2>3. CASE ~LastRead(t, r)
        <3> DEFINE c == AfterReadNext(t, r)
        <3>1. SendAndWait(t, c)
            BY <1>4, <2>3 DEF ChunkRead, AfterRead, AfterReadNext, LastRead
        <3>2. task[t].ofs + Len(r.data) <= Chunks /\ task[t].ofs < task[t].ofs + Len(r.data)
            <4>1. task[t].ofs \in Nat /\ Chunks \in Nat /\ r.data \in Seq(Chunk)
                BY <2>1, NumbersAssumption DEF Task, Reply
            <4>2. Len(r.data) \in Nat \ {0}
                BY <2>3, <4>1 DEF LastRead, AtEnd
            <4> QED BY <2>3, <4>1, <4>2 DEF LastRead
        <3>3. /\ c \in Task /\ Fits(c, t) /\ Follows(task[t], c) /\ c.at = "read"
              /\ c.seq = task[t].seq /\ c.ofs = task[t].ofs + Len(r.data)
            BY <2>1, <3>2, ReadFits
        <3>4. Continues(t, r, c)
            BY <2>1, <2>3 DEF Continues
        <3> HIDE DEF c
        <3>5. Steps(c) > Steps(task[t])
            BY <2>1, <3>2, <3>3, LaterSteps
        <3> QED BY <3>1, <3>3, <3>4, <3>5 DEF GoesOn, RequestKinds, Fits
    <2> QED BY <2>2, <2>3
<1>5. CASE SessionClosed(t, r)
    <2>1. task[t].at = "close" /\ task[t].at \in RequestKinds
        BY <1>5, GotReply DEF SessionClosed
    <2>2. task[t].outcome \in {"none", "failed"}
        BY <2>1 DEF Fits, Task
    <2>3. ASSUME NEW v \in {"ok", "failed"}, SendAndWait(t, Resetting(task[t], v)),
                 v = "ok" => Earned(t, r)
          PROVE  \E s \in Task : GoesOn(t, r, s)
        <3> DEFINE c == Resetting(task[t], v)
        <3>1. /\ c \in Task /\ Fits(c, t) /\ Follows(task[t], c) /\ c.at = "reset"
              /\ c.op = Unknown /\ c.seq = task[t].seq /\ c.outcome = v
            BY <2>1, ResettingFits
        <3>2. SendAndWait(t, c)
            BY <2>3
        <3> HIDE DEF c
        <3>3. Steps(c) > Steps(task[t])
            BY <2>1, <3>1, LaterSteps DEF RequestKinds
        <3> QED BY <2>3, <3>1, <3>2, <3>3 DEF GoesOn, Continues, RequestKinds
    <2>4. CASE task[t].outcome = "failed"
        BY <1>5, <2>3, <2>4 DEF SessionClosed
    <2>5. CASE task[t].outcome = "none" /\ ~task[t].op.check
        BY <1>5, <2>1, <2>3, <2>5 DEF SessionClosed, Earned
    <2>6. CASE task[t].outcome = "none" /\ task[t].op.check
        <3> DEFINE c == AfterClosed(t)
        <3>1. /\ c \in Task /\ Fits(c, t) /\ Follows(task[t], c) /\ c.at = "crc"
              /\ c.op.check /\ c.seq = task[t].seq
            BY <2>1, <2>6, ClosedFits
        <3>2. SendAndWait(t, c)
            BY <1>5, <2>6 DEF SessionClosed, AfterClosed
        <3> HIDE DEF c
        <3>3. Steps(c) > Steps(task[t])
            BY <2>1, <3>1, LaterSteps
        <3> QED BY <3>1, <3>2, <3>3 DEF GoesOn, Continues, RequestKinds, Fits
    <2> QED BY <2>2, <2>4, <2>5, <2>6
<1>6. CASE Checked(t, r)
    <2>1. task[t].at = "crc" /\ task[t].at \in RequestKinds
        BY <1>6, GotReply DEF Checked
    <2>2. CASE SameChecksum(t, r.data)
        <3> DEFINE c == Resetting(task[t], "ok")
        <3>1. /\ c \in Task /\ Fits(c, t) /\ Follows(task[t], c) /\ c.at = "reset"
              /\ c.op = Unknown /\ c.seq = task[t].seq
            BY <2>1, ResettingFits
        <3>2. SendAndWait(t, c)
            BY <1>6, <2>2 DEF Checked
        <3> HIDE DEF c
        <3>3. Steps(c) > Steps(task[t])
            BY <2>1, <3>1, LaterSteps
        <3>4. Earned(t, r)
            BY <2>1, <2>2 DEF Earned, SameChecksum
        <3> QED BY <3>1, <3>2, <3>3, <3>4 DEF GoesOn, Continues, RequestKinds
    <2>3. CASE ~SameChecksum(t, r.data)
        BY <1>6, <2>1, <2>3, FailGoesOn DEF Checked
    <2> QED BY <2>2, <2>3
<1>7. CASE ConnectionClosed(t, r)
    BY <1>7 DEF ConnectionClosed
<1> QED BY <1>1, <1>2, <1>3, <1>4, <1>5, <1>6, <1>7 DEF Receive

LEMMA ReceiveTakes ==
    ASSUME TypeInv, NEW t \in Transfers, NEW r \in replies, Receive(t, r)
    PROVE  /\ task[t].at \in RequestKinds
           /\ r \in Reply /\ r.seq = NextSeq(task[t].seq)
           /\ replies' \subseteq replies /\ excused' \subseteq Transfers
           /\ excused \subseteq excused' /\ excused' \subseteq excused \cup {t}
           /\ t \notin excused' => r.to = t
<1>1. PICK stage, types : Got(t, r, stage, types)
    BY DEF Receive, Refused, Opened, ChunkWritten, ChunkRead, SessionClosed, Checked, ConnectionClosed
<1> QED BY <1>1, GotReply

LEMMA TransferStepKeepsTypes ==
    ASSUME TypeInv, NEW t \in Transfers, Proceed(t) \/ CancelTransfer(t)
    PROVE  TypeInv'
<1>1. excused \subseteq Transfers
    BY DEF TypeInv, TransferTypeOK
<1>2. CASE RepeatRequest(t)
    BY <1>2, RepeatKeepsTypes
<1>3. ASSUME NEW r, replies' \subseteq replies, excused' \subseteq Transfers,
             task[t].at \in RequestKinds, Finish(t) \/ \E s \in Task : GoesOn(t, r, s)
      PROVE  TypeInv'
    <2>1. CASE Finish(t)
        BY <1>3, <2>1, FinishKeepsTypes DEF RequestKinds
    <2>2. CASE \E s \in Task : GoesOn(t, r, s)
        BY <1>3, <2>2, SendKeepsTypes DEF GoesOn
    <2> QED BY <1>3, <2>1, <2>2
<1>4. CASE TimeOut(t)
    <2>1. Finish(t) \/ \E s \in Task : GoesOn(t, t, s)
        BY <1>4, FailGoesOn DEF TimeOut
    <2> QED BY <1>1, <1>3, <1>4, <2>1 DEF TimeOut
<1>5. CASE \E r \in replies : Receive(t, r)
    BY <1>3, <1>5, ReceiveGoesOn, ReceiveTakes
<1>6. CASE CancelTransfer(t)
    <2>1. task[t].at # "new"
        BY <1>6 DEF CancelTransfer, Busy, RequestKinds
    <2> QED BY <1>1, <1>6, <2>1, FinishKeepsTypes DEF CancelTransfer
<1> QED BY <1>2, <1>4, <1>5, <1>6 DEF Proceed

-----------------------------------------------------------------------------
(* Type correctness: what the drone does.                                  *)

LEMMA AnswerKeepsTypes ==
    ASSUME TypeInv, NEW m \in requests, NEW type \in {"ack", "nak", "eof"}, NEW i \in Sessions,
           NEW d \in Seq(Chunk), NEW f \in [Paths -> Seq(Chunk)], \A p \in Paths : FileFits(f[p]),
           NEW ss \in [Sessions -> Session \cup {Absent}],
           task[m.from].op # Unknown /\ task[m.from].op.kind = "put" /\ d = Data(m.from)
               => f[task[m.from].op.path] = d,
           Answer(m, ReplyTo(m, type, i, d), f, ss)
    PROVE  TypeInv'
<1> DEFINE q == ReplyTo(m, type, i, d)
           t == m.from
<1>1. m \in Request /\ t \in Transfers /\ Sent(m, task[t]) /\ task[t] \in Task /\ Fits(task[t], t)
    BY DEF TypeInv, TransferTypeOK, Request
<1>2. q.to = t /\ q.data = d /\ q.seq = NextSeq(m.seq) /\ q.type = type /\ q.session = i
    BY DEF ReplyTo
<1>3. q \in Reply
    <2>1. NextSeq(m.seq) \in 0 .. SeqModulus - 1
        BY <1>1, NextSeqValue DEF Request
    <2> QED BY <1>1, <2>1 DEF ReplyTo, Reply
<1> HIDE DEF q
<1>4. /\ requests' = requests \ {m} /\ replies' \subseteq replies \cup {q} /\ task' = task
      /\ files' = f /\ sessions' = ss
    BY SomeArrive DEF Answer, q
<1>5. complete' = complete \cup {u \in Busy : task[u].op.kind = "put" /\ f[task[u].op.path] = Data(u)}
    BY DEF Answer
<1>6. complete' \subseteq Busy' /\ complete \subseteq complete'
    BY <1>4, <1>5 DEF TypeInv, TransferTypeOK, Busy
<1>7. excused' \subseteq Transfers
    BY DEF Answer, Busy, TypeInv, TransferTypeOK
<1>8. \A r \in replies' : ComparedWith(r, task[r.to])'
    <2> SUFFICES ASSUME NEW r \in replies' PROVE ComparedWith(r, task[r.to])'
        OBVIOUS
    <2>1. CASE r \in replies
        <3>1. ComparedWith(r, task[r.to])
            BY <2>1 DEF TypeInv
        <3> QED BY <1>4, <1>6, <3>1 DEF ComparedWith
    <2>2. CASE r = q
        <3>1. task'[t].at # "new"
            BY <1>1, <1>4 DEF Sent
        <3>2. task[t].op # Unknown => t \in Busy
            BY <1>1 DEF Fits, Busy
        <3>3. task[t].op # Unknown /\ task[t].op.kind = "put" /\ d = Data(t) => t \in complete'
            BY <1>5, <3>2
        <3>4. task'[r.to] = task[t] /\ r.data = d /\ r.to = t
            BY <1>2, <1>4, <2>2
        <3> QED BY <3>1, <3>3, <3>4, <1>4 DEF ComparedWith, Data, FileContent
    <2> QED BY <1>4, <2>1, <2>2
<1>9. TransferTypeOK'
    BY <1>3, <1>4, <1>6, <1>7 DEF TypeInv, TransferTypeOK, Task, Request, Reply
<1>10. /\ (task \in [Transfers -> Task])' /\ (\A u \in Transfers : Fits(task[u], u))'
       /\ (\A a \in requests : Sent(a, task[a.from]))' /\ (\A p \in Paths : FileFits(files[p]))'
    BY <1>4 DEF TypeInv, Fits, Sent, Task, Request
<1> QED BY <1>8, <1>9, <1>10 DEF TypeInv

\* Nothing is not all the data of a file.
LEMMA NothingIsNotAll ==
    ASSUME NEW t \in Transfers
    PROVE  <<>> \in Seq(Chunk) /\ <<>> # Data(t)
<1>1. Len(Data(t)) = Chunks /\ Chunks # 0
    BY ContentFits, NumbersAssumption DEF Data
<1> QED BY <1>1

LEMMA RefuseKeepsTypes ==
    ASSUME TypeInv, NEW m \in requests, Refuse(m)
    PROVE  TypeInv'
<1>1. m.from \in Transfers /\ m.session \in Sessions
    BY DEF TypeInv, TransferTypeOK, Request
<1>2. <<>> \in Seq(Chunk) /\ <<>> # Data(m.from)
    BY <1>1, NothingIsNotAll
<1>3. /\ files \in [Paths -> Seq(Chunk)] /\ \A p \in Paths : FileFits(files[p])
      /\ sessions \in [Sessions -> Session \cup {Absent}]
    BY DEF TypeInv, TransferTypeOK
<1> QED BY <1>1, <1>2, <1>3, AnswerKeepsTypes DEF Refuse

LEMMA HandleKeepsTypes ==
    ASSUME TypeInv, NEW m \in requests, Handle(m)
    PROVE  TypeInv'
<1> DEFINE t == m.from
           s == task[t]
<1>1. /\ m \in Request /\ t \in Transfers /\ m.session \in Sessions
      /\ Sent(m, s) /\ s \in Task /\ Fits(s, t)
    BY DEF TypeInv, TransferTypeOK, Request
<1>2. <<>> \in Seq(Chunk) /\ <<>> # Data(t)
    BY <1>1, NothingIsNotAll
<1>3. /\ files \in [Paths -> Seq(Chunk)] /\ \A p \in Paths : FileFits(files[p])
      /\ sessions \in [Sessions -> Session \cup {Absent}]
    BY DEF TypeInv, TransferTypeOK
<1> HIDE DEF t, s
<1>4. CASE HandleOpen(m)
    <2> DEFINE mode == IF m.op = "create" THEN "w" ELSE "r"
               file == IF m.op = "create" THEN <<>> ELSE files[m.path]
    <2>1. m.path \in Paths
        BY <1>1, <1>4 DEF HandleOpen, Sent
    <2>2. CASE Refuse(m)
        BY <2>2, RefuseKeepsTypes
    <2>3. CASE \E i \in Sessions : Answer(m, ReplyTo(m, "ack", i, <<>>), files, sessions)
        BY <1>2, <1>3, <2>3, AnswerKeepsTypes DEF t
    <2>4. ASSUME NEW i \in Sessions,
                 Answer(m, ReplyTo(m, "ack", i, <<>>), [files EXCEPT ![m.path] = file],
                        [sessions EXCEPT ![i] = [path |-> m.path, mode |-> mode]])
          PROVE  TypeInv'
        <3> DEFINE f == [files EXCEPT ![m.path] = file]
                   ss == [sessions EXCEPT ![i] = [path |-> m.path, mode |-> mode]]
        <3>1. file \in Seq(Chunk) /\ FileFits(file)
            BY <1>2, <1>3, <2>1, NumbersAssumption DEF FileFits
        <3>2. f \in [Paths -> Seq(Chunk)] /\ \A p \in Paths : FileFits(f[p])
            BY <1>3, <2>1, <3>1
        <3>3. [path |-> m.path, mode |-> mode] \in Session
            BY <2>1 DEF Session
        <3>4. ss \in [Sessions -> Session \cup {Absent}]
            BY <1>3, <3>3
        <3>5. Answer(m, ReplyTo(m, "ack", i, <<>>), f, ss)
            BY <2>4
        <3> HIDE DEF f, ss
        <3> QED BY <1>2, <3>2, <3>4, <3>5, AnswerKeepsTypes DEF t
    <2> QED BY <1>4, <2>2, <2>3, <2>4 DEF HandleOpen
<1>5. CASE HandleWrite(m)
    <2>1. m.op = "write" /\ m.ofs \in 0 .. Chunks - 1
        BY <1>1, <1>5, NumbersAssumption DEF HandleWrite, Sent, Request
    <2>2. CASE ~OpenIn(m.session, "w")
        BY <1>5, <2>2, RefuseKeepsTypes DEF HandleWrite
    <2>3. CASE OpenIn(m.session, "w")
        <3> DEFINE p == sessions[m.session].path
                   c == <<t, m.ofs + 1>>
                   f == [files EXCEPT ![p] = Written(@, m.ofs, c)]
        <3>1. p \in Paths
            BY <1>1, <1>3, <2>3 DEF OpenIn, Session
        <3>2. Data(t)[m.ofs + 1] = c
            <4>1. m.ofs + 1 \in 1 .. Chunks
                BY <2>1, NumbersAssumption
            <4> QED BY <1>1, <4>1, ContentFits DEF Data
        <3>3. Written(files[p], m.ofs, c) \in Seq(Chunk) /\ FileFits(Written(files[p], m.ofs, c))
            BY <1>1, <1>3, <2>1, <3>1, WriteFits
        <3>4. f \in [Paths -> Seq(Chunk)] /\ \A x \in Paths : FileFits(f[x])
            BY <1>3, <3>1, <3>3
        <3>5. Answer(m, ReplyTo(m, "ack", m.session, <<>>), f, sessions)
            BY <1>5, <2>3, <3>2 DEF HandleWrite, t
        <3> HIDE DEF f
        <3> QED BY <1>1, <1>2, <1>3, <3>4, <3>5, AnswerKeepsTypes DEF t
    <2> QED BY <2>2, <2>3
<1>6. CASE HandleRead(m)
    <2> DEFINE p == sessions[m.session].path
    <2>1. m.op = "read" /\ m.ofs \in Nat
        BY <1>1, <1>6, NumbersAssumption DEF HandleRead, Request
    <2>2. CASE ~OpenIn(m.session, "r")
        BY <1>6, <2>2, RefuseKeepsTypes DEF HandleRead
    <2>3. CASE OpenIn(m.session, "r") /\ ~(m.ofs < Len(files[p]))
        <3>1. Answer(m, ReplyTo(m, "eof", m.session, <<>>), files, sessions)
            BY <1>6, <2>3 DEF HandleRead
        <3> QED BY <1>1, <1>2, <1>3, <3>1, AnswerKeepsTypes DEF t
    <2>4. CASE OpenIn(m.session, "r") /\ m.ofs < Len(files[p])
        <3> DEFINE d == <<files[p][m.ofs + 1]>>
        <3>1. p \in Paths
            BY <1>1, <1>3, <2>4 DEF OpenIn, Session
        <3>2. d \in Seq(Chunk)
            <4>1. files[p] \in Seq(Chunk)
                BY <1>3, <3>1
            <4>2. m.ofs + 1 \in 1 .. Len(files[p])
                BY <2>1, <2>4, <4>1
            <4> QED BY <4>1, <4>2
        <3>3. s.op # Unknown => s.op.kind = "get"
            BY <1>1, <2>1 DEF Sent
        <3>4. Answer(m, ReplyTo(m, "ack", m.session, d), files, sessions)
            BY <1>6, <2>4 DEF HandleRead
        <3> HIDE DEF d
        <3> QED BY <1>1, <1>3, <3>2, <3>3, <3>4, AnswerKeepsTypes DEF s, t
    <2> QED BY <2>2, <2>3, <2>4
<1>7. CASE HandleClose(m)
    <2>1. CASE Refuse(m)
        BY <2>1, RefuseKeepsTypes
    <2>2. CASE Answer(m, ReplyTo(m, "ack", m.session, <<>>), files,
                      [sessions EXCEPT ![m.session] = Absent])
        <3> DEFINE ss == [sessions EXCEPT ![m.session] = Absent]
        <3>1. ss \in [Sessions -> Session \cup {Absent}]
            BY <1>3
        <3>2. Answer(m, ReplyTo(m, "ack", m.session, <<>>), files, ss)
            BY <2>2
        <3> HIDE DEF ss
        <3> QED BY <1>1, <1>2, <1>3, <3>1, <3>2, AnswerKeepsTypes DEF t
    <2> QED BY <1>7, <2>1, <2>2 DEF HandleClose
<1>8. CASE HandleCRC(m)
    <2>1. m.op = "crc" /\ m.path \in Paths /\ (s.op # Unknown => m.path = s.op.path)
        BY <1>1, <1>8 DEF HandleCRC, Sent
    <2>2. files[m.path] \in Seq(Chunk)
        BY <1>3, <2>1
    <2>3. Answer(m, ReplyTo(m, "ack", m.session, files[m.path]), files, sessions)
        BY <1>8 DEF HandleCRC
    <2> QED BY <1>1, <1>3, <2>1, <2>2, <2>3, AnswerKeepsTypes DEF s, t
<1>9. CASE HandleReset(m)
    <2> DEFINE ss == [i \in Sessions |-> Absent]
    <2>1. ss \in [Sessions -> Session \cup {Absent}]
        OBVIOUS
    <2>2. Answer(m, ReplyTo(m, "ack", m.session, <<>>), files, ss)
        BY <1>9 DEF HandleReset
    <2> HIDE DEF ss
    <2> QED BY <1>1, <1>2, <1>3, <2>1, <2>2, AnswerKeepsTypes DEF t
<1> QED BY <1>4, <1>5, <1>6, <1>7, <1>8, <1>9 DEF Handle

-----------------------------------------------------------------------------
LEMMA InitHasTypes == InitTransfers => TypeInv
<1> SUFFICES ASSUME InitTransfers PROVE TypeInv
    OBVIOUS
<1>1. \A p \in Paths : FileContent(p) \in Seq(Chunk) /\ FileFits(FileContent(p))
    BY ContentFits
<1>2. files \in [Paths -> Seq(Chunk)] /\ \A p \in Paths : FileFits(files[p])
    BY <1>1 DEF InitTransfers
<1>3. \A t \in Transfers : task[t] \in Task /\ Fits(task[t], t)
    BY IdleFits DEF InitTransfers
<1>4. task \in [Transfers -> Task]
    BY IdleFits DEF InitTransfers
<1> QED BY <1>2, <1>3, <1>4 DEF TypeInv, TransferTypeOK, InitTransfers

LEMMA NextHasTypes == TypeInv /\ [NextTransfer]_transferVars => TypeInv'
<1> SUFFICES ASSUME TypeInv, [NextTransfer]_transferVars PROVE TypeInv'
    OBVIOUS
<1>1. CASE UNCHANGED transferVars
    BY <1>1 DEF transferVars, drone, history, TypeInv, TransferTypeOK, Task, Request, Reply, Busy,
                Fits, Sent, ComparedWith, Data, FileContent
<1>2. CASE NextTransfer
    BY <1>2, StartKeepsTypes, TransferStepKeepsTypes, HandleKeepsTypes DEF NextTransfer
<1> QED BY <1>1, <1>2

\* Type correctness of transfers, requests and replies, and of the drone's
\* files and sessions.
THEOREM TransferTypeCorrect == TransferSpec => []TransferTypeOK
<1>1. TypeInv => TransferTypeOK
    BY DEF TypeInv
<1> QED BY <1>1, InitHasTypes, NextHasTypes, PTL DEF TransferSpec

-----------------------------------------------------------------------------
(* Checksums.                                                              *)

\* A transfer that ends well has earned it.
LEMMA SuccessIsEarned ==
    ASSUME TypeInv, [NextTransfer]_transferVars, NEW t \in Transfers, Succeeds(t)
    PROVE  /\ task[t].at \in {"close", "crc"} /\ task[t].op # Unknown /\ excused \subseteq excused'
           /\ task[t].at = "close" => ~task[t].op.check
           /\ task[t].at = "crc" /\ t \notin excused' =>
                 \E r \in replies : r.to = t /\ r.data = Data(t)
<1>1. task \in [Transfers -> Task] /\ task[t].outcome = "none" /\ task'[t].outcome = "ok" /\ Fits(task[t], t)
    BY DEF TypeInv, Succeeds
<1>2. ASSUME UNCHANGED task PROVE FALSE
    BY <1>1, <1>2
<1>3. ASSUME NEW u \in Transfers, NEW o \in Operations[u], NEW k \in Starts[u], StartTransfer(u, o, k)
      PROVE  FALSE
    <2> DEFINE s2 == [task[u] EXCEPT !.op = o, !.seq = k,
                                     !.at = IF o.kind = "put" THEN "create" ELSE "open"]
    <2>1. task' = [task EXCEPT ![u] = s2]
        BY <1>3 DEF StartTransfer
    <2>2. s2.outcome = task[u].outcome
        BY <1>1 DEF Task
    <2> HIDE DEF s2
    <2> QED BY <1>1, <2>1, <2>2
<1>4. ASSUME NEW m \in requests, Handle(m) PROVE FALSE
    <2>1. UNCHANGED task
        BY <1>4 DEF Handle, HandleOpen, HandleWrite, HandleRead, HandleClose, HandleCRC, HandleReset,
                    Refuse, Answer
    <2> QED BY <1>2, <2>1
<1>5. ASSUME NEW u \in Transfers, Finish(u) PROVE FALSE
    <2>1. [Idle EXCEPT !.at = "done"].outcome = "none"
        BY DEF Idle
    <2> QED BY <1>1, <1>5, <2>1 DEF Finish
<1>6. ASSUME NEW u \in Transfers, RepeatRequest(u) PROVE FALSE
    <2> DEFINE s2 == [task[u] EXCEPT !.retries = @ - 1]
    <2>1. task' = [task EXCEPT ![u] = s2] /\ s2.outcome = task[u].outcome
        BY <1>1, <1>6 DEF RepeatRequest, Task
    <2> HIDE DEF s2
    <2> QED BY <1>1, <2>1
<1>7. ASSUME NEW u \in Transfers, NEW s \in Task, SendAndWait(u, s)
      PROVE  u = t /\ s.outcome = "ok"
    <2>1. task' = [task EXCEPT ![u] = NextRequest(s)]
        BY <1>7 DEF SendAndWait, NextRequest
    <2>2. NextRequest(s).outcome = s.outcome
        BY DEF NextRequest, Task
    <2> QED BY <1>1, <2>1, <2>2
<1>8. ASSUME NEW u \in Transfers, TimeOut(u) PROVE FALSE
    <2>1. Finish(u) \/ \E s \in Task : s.op = Unknown /\ s.outcome # "ok" /\ GoesOn(u, u, s)
        BY <1>8, FailGoesOn DEF TimeOut
    <2> QED BY <1>5, <1>7, <2>1 DEF GoesOn
<1>9. ASSUME NEW u \in Transfers, NEW r \in replies, Receive(u, r)
      PROVE  u = t /\ Earned(t, r)
    <2>1. PICK s \in Task : GoesOn(u, r, s)
        BY <1>5, <1>9, ReceiveGoesOn
    <2> QED BY <1>7, <2>1 DEF GoesOn
<1>10. PICK r \in replies : Receive(t, r) /\ Earned(t, r)
    <2>1. NextTransfer
        BY <1>2 DEF transferVars
    <2> QED BY <1>3, <1>4, <1>5, <1>6, <1>8, <1>9, <2>1 DEF NextTransfer, Proceed, CancelTransfer
<1>11. excused \subseteq excused' /\ (t \notin excused' => r.to = t)
    BY <1>10, ReceiveTakes
<1>12. task[t].op # Unknown
    BY <1>1, <1>10 DEF Earned, Fits, RequestKinds
<1> QED BY <1>1, <1>10, <1>11, <1>12 DEF Earned

\* An upload whose checksum was compared, and ends well, had its file complete
\* on the drone, whatever the link and other transfers did.
CheckedUploadIsTrue ==
    [][\A t \in Transfers : Succeeds(t) /\ t \notin excused' /\ task[t].op.check =>
          t \in complete]_transferVars

LEMMA StepChecks ==
    ASSUME TypeInv, [NextTransfer]_transferVars, NEW t \in Transfers, Succeeds(t),
           t \notin excused', task[t].op.check
    PROVE  t \in complete /\ task[t].op.kind = "put"
<1>1. /\ task[t].at = "crc" /\ task[t].op # Unknown
      /\ \E r \in replies : r.to = t /\ r.data = Data(t)
    BY SuccessIsEarned
<1>2. task[t].op.kind = "put"
    BY <1>1 DEF TypeInv, Fits
<1> QED BY <1>1, <1>2 DEF TypeInv, ComparedWith

\* Comparing checksums, put_gen() reports success only for a complete file, for
\* any numbers, sessions, losses and delays.
THEOREM CheckedUploadsAreTrue == TransferSpec => CheckedUploadIsTrue
<1>1. TypeInv /\ [NextTransfer]_transferVars =>
         [\A t \in Transfers : Succeeds(t) /\ t \notin excused' /\ task[t].op.check =>
             t \in complete]_transferVars
    BY StepChecks
<1> QED BY <1>1, InitHasTypes, NextHasTypes, PTL DEF TransferSpec, CheckedUploadIsTrue

-----------------------------------------------------------------------------
(* Sequence numbers.                                                       *)

\* The sequence numbers of one transfer are all different.
NumbersSuffice == 2 * (Chunks + 4) < SeqModulus

LEMMA NumberGrows ==
    ASSUME NumbersSuffice, NEW x \in 0 .. SeqModulus - 1, NEW y \in 0 .. SeqModulus - 1,
           NEW a \in 0 .. Chunks + 3, Ahead(x, y, a)
    PROVE  Ahead(x, NextSeq(NextSeq(y)), a + 1)
<1> DEFINE z == NextSeq(y)
<1>1. SeqModulus \in Nat \ {0} /\ Chunks \in Nat
    BY NumbersAssumption
<1>2. z \in 0 .. SeqModulus - 1 /\ z = IF y + 1 = SeqModulus THEN 0 ELSE y + 1
    BY NextSeqValue
<1> HIDE DEF z
<1>3. NextSeq(z) \in 0 .. SeqModulus - 1 /\ NextSeq(z) = IF z + 1 = SeqModulus THEN 0 ELSE z + 1
    BY <1>2, NextSeqValue
<1>4. NextSeq(z) = y + 2 \/ NextSeq(z) = y + 2 - SeqModulus
    BY <1>1, <1>2, <1>3 DEF NumbersSuffice
<1>5. NextSeq(z) = x + 2 * (a + 1) \/ NextSeq(z) = x + 2 * (a + 1) - SeqModulus
      \/ NextSeq(z) = x + 2 * (a + 1) - 2 * SeqModulus
    BY <1>1, <1>4 DEF Ahead
<1>6. x + 2 * (a + 1) - 2 * SeqModulus < 0
    BY <1>1 DEF NumbersSuffice
<1>7. NextSeq(z) = x + 2 * (a + 1) \/ NextSeq(z) = x + 2 * (a + 1) - SeqModulus
    BY <1>1, <1>3, <1>5, <1>6
<1> QED BY <1>7 DEF Ahead, z

LEMMA NumbersDiffer ==
    ASSUME NumbersSuffice, NEW x \in 0 .. SeqModulus - 1, NEW y \in 0 .. SeqModulus - 1,
           NEW a \in 1 .. Chunks + 4, Ahead(x, y, a)
    PROVE  x # y /\ NextSeq(x) # NextSeq(y)
<1>1. SeqModulus \in Nat \ {0} /\ Chunks \in Nat
    BY NumbersAssumption
<1>2. x # y
    BY <1>1 DEF Ahead, NumbersSuffice
<1>3. /\ NextSeq(x) = IF x + 1 = SeqModulus THEN 0 ELSE x + 1
      /\ NextSeq(y) = IF y + 1 = SeqModulus THEN 0 ELSE y + 1
    BY NextSeqValue
<1> QED BY <1>1, <1>2, <1>3

\* What is under way grows older with every request.
LEMMA RequestGrowsOld ==
    ASSUME TypeInv, NumbersSuffice, NEW m \in requests, RequestInTime(m, m.from),
           NEW k \in 1 .. Chunks + 4, k > Steps(task[m.from]), m.from \in Busy
    PROVE  \E a \in 1 .. k : Ahead(m.seq, NextSeq(NextSeq(task[m.from].seq)), a)
<1> DEFINE t == m.from
           y == task[t].seq
<1>1. /\ t \in Transfers /\ m.seq \in 0 .. SeqModulus - 1 /\ y \in 0 .. SeqModulus - 1
      /\ task[t] \in Task /\ Fits(task[t], t)
    BY DEF TypeInv, TransferTypeOK, Request, Task
<1>2. Steps(task[t]) \in 0 .. Chunks + 4 /\ Chunks \in Nat /\ SeqModulus \in Nat
    BY <1>1, StepsValue, NumbersAssumption
<1>3. PICK a \in 0 .. Steps(task[t]) : Ahead(m.seq, y, a)
    <2>1. CASE m = RequestOf(t, task[t])
        <3>1. m.seq = y
            BY <2>1 DEF RequestOf
        <3>2. Ahead(m.seq, y, 0)
            BY <1>1, <3>1 DEF Ahead
        <3> QED BY <1>2, <3>2
    <2>2. CASE \E a \in 1 .. Steps(task[t]) : Ahead(m.seq, y, a)
        BY <1>2, <2>2
    <2> QED BY <2>1, <2>2 DEF RequestInTime
<1>4. a \in 0 .. Chunks + 3 /\ a + 1 \in 1 .. k
    BY <1>2
<1>5. Ahead(m.seq, NextSeq(NextSeq(y)), a + 1)
    BY <1>1, <1>3, <1>4, NumberGrows
<1> QED BY <1>4, <1>5

LEMMA ReplyGrowsOld ==
    ASSUME TypeInv, NumbersSuffice, NEW r \in replies, ReplyInTime(r, r.to),
           NEW k \in 1 .. Chunks + 4, k > Steps(task[r.to]), r.to \in Busy
    PROVE  \E a \in 1 .. k, x \in 0 .. SeqModulus - 1 :
              r.seq = NextSeq(x) /\ Ahead(x, NextSeq(NextSeq(task[r.to].seq)), a)
<1> DEFINE t == r.to
           y == task[t].seq
<1>1. /\ t \in Transfers /\ y \in 0 .. SeqModulus - 1
      /\ task[t] \in Task /\ Fits(task[t], t)
    BY DEF TypeInv, TransferTypeOK, Reply, Task
<1>2. Steps(task[t]) \in 0 .. Chunks + 4 /\ Chunks \in Nat /\ SeqModulus \in Nat
    BY <1>1, StepsValue, NumbersAssumption
<1>3. PICK a \in 0 .. Steps(task[t]), x \in 0 .. SeqModulus - 1 : r.seq = NextSeq(x) /\ Ahead(x, y, a)
    <2>1. CASE r.seq = NextSeq(y)
        <3>1. Ahead(y, y, 0)
            BY <1>1 DEF Ahead
        <3> QED BY <1>1, <1>2, <2>1, <3>1
    <2>2. CASE \E a \in 1 .. Steps(task[t]), x \in 0 .. SeqModulus - 1 : r.seq = NextSeq(x) /\ Ahead(x, y, a)
        BY <1>2, <2>2
    <2> QED BY <2>1, <2>2 DEF ReplyInTime
<1>4. a \in 0 .. Chunks + 3 /\ a + 1 \in 1 .. k
    BY <1>2
<1>5. Ahead(x, NextSeq(NextSeq(y)), a + 1)
    BY <1>1, <1>3, <1>4, NumberGrows
<1> QED BY <1>3, <1>4, <1>5

LEMMA SendKeepsTime ==
    ASSUME TypeInv, NumbersSuffice, InTime, NEW t \in Transfers, NEW r, NEW s \in Task, GoesOn(t, r, s),
           task[t].at \in RequestKinds, replies' \subseteq replies
    PROVE  InTime'
<1> DEFINE s2 == NextRequest(s)
<1>1. /\ task' = [task EXCEPT ![t] = s2] /\ task'[t] = s2 /\ (\A u \in Transfers \ {t} : task'[u] = task[u])
      /\ requests' \subseteq requests \cup {RequestOf(t, s2)}
    BY SomeArrive DEF GoesOn, SendAndWait, NextRequest, TypeInv, Asks
<1>2. /\ s2.seq = NextSeq(NextSeq(task[t].seq)) /\ s2.at = s.at /\ s2.ofs = s.ofs
    BY DEF NextRequest, Task, GoesOn
<1> HIDE DEF s2
<1>3. Steps(s2) = Steps(s)
    BY <1>2 DEF Steps
<1>4. Steps(s2) \in 1 .. Chunks + 4 /\ Steps(s2) > Steps(task[t])
    <2>1. Steps(s) \in 0 .. Chunks + 4 /\ Steps(task[t]) \in 0 .. Chunks + 4 /\ Steps(s) > Steps(task[t])
        BY StepsValue DEF GoesOn, TypeInv
    <2> QED BY <1>3, <2>1, NumbersAssumption
<1>5. t \in Busy
    BY DEF Busy
<1>6. \A u \in Transfers \ {t} : u \in Busy' => u \in Busy
    BY <1>1 DEF Busy
<1>7. ASSUME NEW m \in requests', m.from \in Busy' PROVE RequestInTime(m, m.from)'
    <2>1. CASE m = RequestOf(t, s2)
        <3>1. m.from = t
            BY <2>1 DEF RequestOf
        <3> QED BY <1>1, <2>1, <3>1 DEF RequestInTime, RequestOf
    <2>2. CASE m \in requests /\ m.from = t
        <3>1. \E a \in 1 .. Steps(s2) : Ahead(m.seq, s2.seq, a)
            BY <1>2, <1>4, <1>5, <2>2, RequestGrowsOld DEF InTime
        <3> QED BY <1>1, <2>2, <3>1 DEF RequestInTime, Ahead, Steps
    <2>3. CASE m \in requests /\ m.from # t
        <3>1. m.from \in Transfers \ {t} /\ m.from \in Busy
            BY <1>6, <1>7, <2>3 DEF TypeInv, TransferTypeOK, Request
        <3>2. RequestInTime(m, m.from) /\ task'[m.from] = task[m.from]
            BY <1>1, <2>3, <3>1 DEF InTime
        <3> QED BY <3>2 DEF RequestInTime, RequestOf, Ahead, Steps
    <2> QED BY <1>1, <2>1, <2>2, <2>3
<1>8. ASSUME NEW q \in replies', q.to \in Busy' PROVE ReplyInTime(q, q.to)'
    <2>1. CASE q.to = t
        <3>1. \E a \in 1 .. Steps(s2), x \in 0 .. SeqModulus - 1 : q.seq = NextSeq(x) /\ Ahead(x, s2.seq, a)
            BY <1>2, <1>4, <1>5, <2>1, ReplyGrowsOld DEF InTime
        <3> QED BY <1>1, <2>1, <3>1 DEF ReplyInTime, Ahead, Steps, NextSeq
    <2>2. CASE q.to # t
        <3>1. q.to \in Transfers \ {t} /\ q.to \in Busy
            BY <1>6, <1>8, <2>2 DEF TypeInv, TransferTypeOK, Reply
        <3>2. ReplyInTime(q, q.to) /\ task'[q.to] = task[q.to]
            BY <1>1, <3>1 DEF InTime
        <3> QED BY <3>2 DEF ReplyInTime, Ahead, Steps, NextSeq
    <2> QED BY <2>1, <2>2
<1> QED BY <1>7, <1>8 DEF InTime

\* What is under way for other transfers is not affected.
LEMMA OthersKeepTime ==
    ASSUME TypeInv, InTime, NEW t \in Transfers,
           \A u \in Transfers \ {t} : task'[u] = task[u],
           replies' \subseteq replies,
           \A m \in requests' : m.from = t /\ t \in Busy' => RequestInTime(m, t)',
           \A m \in requests' : m.from # t => m \in requests,
           \A r \in replies' : r.to = t /\ t \in Busy' => ReplyInTime(r, t)'
    PROVE  InTime'
<1>1. \A u \in Transfers \ {t} : u \in Busy' => u \in Busy
    BY DEF Busy
<1>2. ASSUME NEW m \in requests', m.from \in Busy' PROVE RequestInTime(m, m.from)'
    <2>1. CASE m.from = t
        BY <1>2, <2>1 DEF RequestInTime, RequestOf, Ahead, Steps
    <2>2. CASE m.from # t
        <3>1. m \in requests /\ m.from \in Transfers \ {t} /\ m.from \in Busy
            BY <1>1, <1>2, <2>2 DEF TypeInv, TransferTypeOK, Request
        <3>2. RequestInTime(m, m.from) /\ task'[m.from] = task[m.from]
            BY <3>1 DEF InTime
        <3> QED BY <3>2 DEF RequestInTime, RequestOf, Ahead, Steps
    <2> QED BY <2>1, <2>2
<1>3. ASSUME NEW q \in replies', q.to \in Busy' PROVE ReplyInTime(q, q.to)'
    <2>1. CASE q.to = t
        BY <1>3, <2>1 DEF ReplyInTime, Ahead, Steps, NextSeq
    <2>2. CASE q.to # t
        <3>1. q.to \in Transfers \ {t} /\ q.to \in Busy
            BY <1>1, <1>3, <2>2 DEF TypeInv, TransferTypeOK, Reply
        <3>2. ReplyInTime(q, q.to) /\ task'[q.to] = task[q.to]
            BY <3>1 DEF InTime
        <3> QED BY <3>2 DEF ReplyInTime, Ahead, Steps, NextSeq
    <2> QED BY <2>1, <2>2
<1> QED BY <1>2, <1>3 DEF InTime

LEMMA FinishKeepsTime ==
    ASSUME TypeInv, InTime, NEW t \in Transfers, Finish(t), replies' \subseteq replies
    PROVE  InTime'
<1> DEFINE s2 == [Idle EXCEPT !.at = "done"]
<1>1. s2.at = "done"
    BY DEF Idle
<1>2. task' = [task EXCEPT ![t] = s2] /\ requests' = requests
    BY DEF Finish
<1> HIDE DEF s2
<1>3. t \notin Busy' /\ \A u \in Transfers \ {t} : task'[u] = task[u]
    BY <1>1, <1>2 DEF Busy, RequestKinds, TypeInv
<1> QED BY <1>2, <1>3, OthersKeepTime

LEMMA RepeatKeepsTime ==
    ASSUME TypeInv, InTime, NEW t \in Transfers, RepeatRequest(t)
    PROVE  InTime'
<1> DEFINE s2 == [task[t] EXCEPT !.retries = @ - 1]
           q == RequestOf(t, task[t])
<1>1. /\ s2.op = task[t].op /\ s2.at = task[t].at /\ s2.ofs = task[t].ofs
      /\ s2.session = task[t].session /\ s2.seq = task[t].seq
    BY DEF Task, TypeInv
<1>2. /\ task' = [task EXCEPT ![t] = s2] /\ requests' \subseteq requests \cup {q} /\ replies' = replies
    BY SomeArrive DEF RepeatRequest, Asks
<1> HIDE DEF s2
<1>3. task'[t] = s2 /\ (\A u \in Transfers \ {t} : task'[u] = task[u]) /\ t \in Busy
    BY <1>2 DEF TypeInv, RepeatRequest, Busy
<1>4. RequestOf(t, task'[t]) = q /\ Steps(task'[t]) = Steps(task[t])
    BY <1>1, <1>3 DEF RequestOf, Steps
<1>5. q.from = t
    BY DEF RequestOf
<1> HIDE DEF q
<1>6. ASSUME NEW m \in requests', m.from = t PROVE RequestInTime(m, t)'
    <2>1. m = q \/ RequestInTime(m, t)
        BY <1>2, <1>3, <1>6 DEF InTime
    <2> QED BY <1>1, <1>3, <1>4, <2>1 DEF RequestInTime, Ahead, q
<1>7. ASSUME NEW r \in replies', r.to = t PROVE ReplyInTime(r, t)'
    <2>1. ReplyInTime(r, t)
        BY <1>2, <1>3, <1>7 DEF InTime
    <2> QED BY <1>1, <1>3, <1>4, <2>1 DEF ReplyInTime, Ahead
<1> QED BY <1>2, <1>3, <1>5, <1>6, <1>7, OthersKeepTime

LEMMA StartKeepsTime ==
    ASSUME TypeInv, InTime, NEW t \in Transfers, NEW o \in Operations[t], NEW k \in Starts[t],
           StartTransfer(t, o, k)
    PROVE  InTime'
<1> DEFINE s2 == [task[t] EXCEPT !.op = o, !.seq = k,
                                 !.at = IF o.kind = "put" THEN "create" ELSE "open"]
           q == RequestOf(t, s2)
<1>1. /\ task' = [task EXCEPT ![t] = s2] /\ requests' \subseteq requests \cup {q} /\ replies' = replies
    BY SomeArrive DEF StartTransfer, Asks
<1>2. q.from = t
    BY DEF RequestOf
<1> HIDE DEF s2
<1>3. task'[t] = s2 /\ \A u \in Transfers \ {t} : task'[u] = task[u]
    BY <1>1 DEF TypeInv
<1>4. /\ \A m \in requests : m.from # t
      /\ \A r \in replies : r.to # t
    BY DEF TypeInv, Sent, ComparedWith, StartTransfer
<1>5. ASSUME NEW m \in requests', m.from = t PROVE RequestInTime(m, t)'
    <2>1. m = RequestOf(t, s2)
        BY <1>1, <1>4, <1>5
    <2> QED BY <1>3, <2>1 DEF RequestInTime, RequestOf
<1> HIDE DEF q
<1> QED BY <1>1, <1>2, <1>3, <1>4, <1>5, OthersKeepTime

LEMMA AnswerKeepsTime ==
    ASSUME TypeInv, InTime, NEW m \in requests, NEW type, NEW i, NEW d, NEW f, NEW ss,
           Answer(m, ReplyTo(m, type, i, d), f, ss)
    PROVE  InTime'
<1> DEFINE q == ReplyTo(m, type, i, d)
<1>1. /\ requests' \subseteq requests /\ replies' \subseteq replies \cup {q} /\ task' = task
    BY SomeArrive DEF Answer
<1>2. q.to = m.from /\ q.seq = NextSeq(m.seq)
    BY DEF ReplyTo
<1> HIDE DEF q
<1>3. Busy' = Busy
    BY <1>1 DEF Busy
<1>4. ASSUME NEW a \in requests', a.from \in Busy' PROVE RequestInTime(a, a.from)'
    <2>1. RequestInTime(a, a.from)
        BY <1>1, <1>3, <1>4 DEF InTime
    <2> QED BY <1>1, <2>1 DEF RequestInTime, RequestOf, Ahead, Steps
<1>5. ASSUME NEW r \in replies', r.to \in Busy' PROVE ReplyInTime(r, r.to)'
    <2>1. CASE r \in replies
        <3>1. ReplyInTime(r, r.to)
            BY <1>3, <1>5, <2>1 DEF InTime
        <3> QED BY <1>1, <3>1 DEF ReplyInTime, Ahead, Steps, NextSeq
    <2>2. CASE r = q
        <3>1. RequestInTime(m, m.from) /\ m.seq \in 0 .. SeqModulus - 1
            BY <1>2, <1>3, <1>5, <2>2 DEF InTime, TypeInv, TransferTypeOK, Request
        <3>2. m = RequestOf(m.from, task[m.from]) => m.seq = task[m.from].seq
            BY DEF RequestOf
        <3>3. ReplyInTime(r, r.to)
            BY <1>2, <2>2, <3>1, <3>2 DEF RequestInTime, ReplyInTime
        <3> QED BY <1>1, <3>3 DEF ReplyInTime, Ahead, Steps, NextSeq
    <2> QED BY <1>1, <2>1, <2>2
<1> QED BY <1>4, <1>5 DEF InTime

LEMMA HandleKeepsTime ==
    ASSUME TypeInv, InTime, NEW m \in requests, Handle(m)
    PROVE  InTime'
<1>1. PICK type, i, d, f, ss : Answer(m, ReplyTo(m, type, i, d), f, ss)
    BY DEF Handle, HandleOpen, HandleWrite, HandleRead, HandleClose, HandleCRC, HandleReset, Refuse
<1> QED BY <1>1, AnswerKeepsTime

LEMMA NextKeepsTime ==
    ASSUME TypeInv, NumbersSuffice, InTime, [NextTransfer]_transferVars
    PROVE  InTime'
<1>1. CASE UNCHANGED transferVars
    BY <1>1 DEF transferVars, drone, history, InTime, RequestInTime, ReplyInTime, RequestOf, Ahead,
                Steps, NextSeq, Busy
<1>2. ASSUME NEW t \in Transfers, Proceed(t) \/ CancelTransfer(t) PROVE InTime'
    <2>1. CASE RepeatRequest(t)
        BY <2>1, RepeatKeepsTime
    <2>2. CASE TimeOut(t)
        <3>1. Finish(t) \/ \E s \in Task : GoesOn(t, t, s)
            BY <2>2, FailGoesOn DEF TimeOut
        <3> QED BY <2>2, <3>1, FinishKeepsTime, SendKeepsTime DEF TimeOut
    <2>3. ASSUME NEW r \in replies, Receive(t, r) PROVE InTime'
        BY <2>3, ReceiveGoesOn, ReceiveTakes, FinishKeepsTime, SendKeepsTime
    <2>4. CASE CancelTransfer(t)
        BY <2>4, FinishKeepsTime DEF CancelTransfer
    <2> QED BY <1>2, <2>1, <2>2, <2>3, <2>4 DEF Proceed
<1> QED BY <1>1, <1>2, StartKeepsTime, HandleKeepsTime DEF NextTransfer

-----------------------------------------------------------------------------
(* Transfers that are alone: what a transfer does.                         *)

\* A file is read chunk by chunk.
LEMMA ReadOneMore ==
    ASSUME NEW f \in Seq(Chunk), NEW k \in 0 .. Len(f) - 1
    PROVE  [j \in 1 .. k |-> f[j]] \o <<f[k + 1]>> = [j \in 1 .. k + 1 |-> f[j]]
<1> DEFINE g == [j \in 1 .. k |-> f[j]]
           h == [j \in 1 .. k + 1 |-> f[j]]
<1>1. Len(f) \in Nat /\ k \in Nat /\ k + 1 \in 1 .. Len(f)
    OBVIOUS
<1>2. \A j \in 1 .. k + 1 : f[j] \in Chunk
    BY <1>1
<1>3. g \in Seq(Chunk) /\ Len(g) = k /\ h \in Seq(Chunk) /\ Len(h) = k + 1
    BY <1>1, <1>2
<1>4. \A j \in 1 .. k : g[j] = f[j]
    OBVIOUS
<1>5. \A j \in 1 .. k + 1 : h[j] = f[j]
    OBVIOUS
<1> HIDE DEF g, h
<1>6. <<f[k + 1]>> \in Seq(Chunk) /\ Len(<<f[k + 1]>>) = 1
    BY <1>1, <1>2
<1>7. g \o <<f[k + 1]>> \in Seq(Chunk) /\ Len(g \o <<f[k + 1]>>) = k + 1
    BY <1>1, <1>3, <1>6
<1>8. \A j \in 1 .. k + 1 : (g \o <<f[k + 1]>>)[j] = h[j]
    BY <1>1, <1>3, <1>4, <1>5, <1>6
<1> QED BY <1>1, <1>3, <1>7, <1>8, SeqEqual DEF g, h

LEMMA ReadAll ==
    ASSUME NEW f \in Seq(Chunk)
    PROVE  /\ [j \in 1 .. Len(f) |-> f[j]] = f
           /\ [j \in 1 .. 0 |-> f[j]] = <<>>
           /\ f \o <<>> = f
OBVIOUS

\* Transfers but t are where they were, and so is the drone.
LEMMA OthersKeepStep ==
    ASSUME TypeInv, InStep, NEW t \in Transfers,
           \A u \in Transfers \ {t} : task'[u] = task[u],
           UNCHANGED drone, complete \ {t} \subseteq complete', excused \subseteq excused',
           replies' \subseteq replies,
           Alone(t, task'[t], excused') => Progress(t, task'[t], files, sessions, complete'),
           \A r \in replies : r.to = t /\ Alone(t, task'[t], excused') /\ r.seq = NextSeq(task'[t].seq) =>
               Told(r, t, task'[t], files, sessions, complete')
    PROVE  InStep'
<1>1. files' = files /\ sessions' = sessions
    BY DEF drone
<1>2. ASSUME NEW u \in Transfers, Alone(u, task'[u], excused')
      PROVE  Progress(u, task'[u], files, sessions, complete')
    <2>1. CASE u = t
        BY <1>2, <2>1
    <2>2. CASE u # t
        <3>1. Alone(u, task[u], excused) /\ task'[u] = task[u]
            BY <1>2, <2>2 DEF Alone
        <3>2. Progress(u, task[u], files, sessions, complete)
            BY <3>1 DEF InStep
        <3>3. u \in complete => u \in complete'
            BY <2>2
        <3> QED BY <3>1, <3>2, <3>3 DEF Progress
    <2> QED BY <2>1, <2>2
<1>3. ASSUME NEW r \in replies', Alone(r.to, task'[r.to], excused'), r.seq = NextSeq(task'[r.to].seq)
      PROVE  Told(r, r.to, task'[r.to], files, sessions, complete')
    <2>1. CASE r.to = t
        BY <1>3, <2>1
    <2>2. CASE r.to # t
        <3>1. r.to \in Transfers \ {t}
            BY <2>2 DEF TypeInv, TransferTypeOK, Reply
        <3>2. Alone(r.to, task[r.to], excused) /\ task'[r.to] = task[r.to]
            BY <1>3, <3>1 DEF Alone
        <3>3. Told(r, r.to, task[r.to], files, sessions, complete)
            BY <1>3, <3>2 DEF InStep
        <3>4. r.to \in complete => r.to \in complete'
            BY <2>2
        <3> QED BY <3>2, <3>3, <3>4 DEF Told
    <2> QED BY <2>1, <2>2
<1>4. (\A u \in Transfers :
           Alone(u, task[u], excused) => Progress(u, task[u], files, sessions, complete))'
    BY <1>1, <1>2 DEF Alone, Progress, OpenAs, WrittenUpTo, Unknown
<1>5. (\A r \in replies :
           Alone(r.to, task[r.to], excused) /\ r.seq = NextSeq(task[r.to].seq) =>
               Told(r, r.to, task[r.to], files, sessions, complete))'
    BY <1>1, <1>3 DEF Alone, Told, OpenAs, WrittenUpTo, Unknown, NextSeq
<1> QED BY <1>4, <1>5 DEF InStep

\* A transfer that goes on with a true reply is still in step.
LEMMA GoingOnIsProgress ==
    ASSUME TypeInv, NEW t \in Transfers, NEW r \in Reply, NEW s \in Task, GoesOn(t, r, s),
           s.op # Unknown, ~s.op.check,
           Progress(t, task[t], files, sessions, complete),
           Told(r, t, task[t], files, sessions, complete)
    PROVE  Progress(t, s, files, sessions, complete) /\ s.op = task[t].op
<1> DEFINE p == task[t].op.path
           f == files[p]
<1>1. /\ task[t] \in Task /\ Fits(task[t], t) /\ s.op = task[t].op /\ Continues(t, r, s)
      /\ task[t].ofs \in Nat /\ Chunks \in Nat \ {0}
    BY NumbersAssumption DEF TypeInv, GoesOn, Follows, Task
<1>2. p \in Paths /\ f \in Seq(Chunk) /\ FileFits(f)
    <2>1. p \in Paths
        BY <1>1, OperationIsKnown DEF Fits
    <2> QED BY <2>1 DEF TypeInv, TransferTypeOK
<1>3. Len(f) \in Nat /\ Len(f) <= Chunks
    BY <1>2 DEF FileFits
<1> HIDE DEF f
<1>4. CASE task[t].at \in {"create", "open"} /\ r.type = "ack" /\ s = AfterOpened(t, r)
    <2>1. /\ s.at = IF task[t].at = "create" THEN "write" ELSE "read"
          /\ s.session = r.session /\ s.ofs = 0 /\ s.got = <<>>
        BY <1>4, OpenedFits
    <2>2. OpenAs(sessions, s.session, p, IF task[t].at = "create" THEN "w" ELSE "r")
        BY <1>4, <2>1 DEF Told
    <2>3. s.got = [j \in 1 .. s.ofs |-> f[j]]
        BY <1>2, <2>1, ReadAll
    <2>4. WrittenUpTo(t, f, 0)
        BY <1>3 DEF WrittenUpTo
    <2>5. s.at \in {"write", "read"} /\ (s.at = "write" <=> task[t].at = "create")
        BY <1>4, <2>1
    <2> QED BY <1>1, <1>3, <2>1, <2>2, <2>3, <2>4, <2>5 DEF Progress, f
<1>5. CASE task[t].at = "write" /\ r.type = "ack" /\ task[t].ofs + 1 < Chunks /\ s = AfterWritten(t)
    <2>1. s.at = "write" /\ s.session = task[t].session /\ s.ofs = task[t].ofs + 1
        BY <1>5, WrittenFits
    <2>2. OpenAs(sessions, task[t].session, p, "w") /\ WrittenUpTo(t, f, task[t].ofs + 1)
        BY <1>5 DEF Progress, Told, f
    <2> QED BY <1>1, <2>1, <2>2 DEF Progress, f
<1>6. CASE task[t].at = "write" /\ r.type = "ack" /\ ~(task[t].ofs + 1 < Chunks)
           /\ s = Closing(task[t], "none")
    <2>1. s.at = "close" /\ s.op.kind = "put"
        BY <1>1, <1>6, ClosingFits DEF Fits
    <2>2. task[t].ofs + 1 = Chunks
        BY <1>1, <1>6 DEF Fits
    <2>3. t \in complete
        BY <1>6, <2>2 DEF Told
    <2> QED BY <1>1, <2>1, <2>3 DEF Progress
<1>7. ASSUME task[t].at = "read" PROVE
         /\ task[t].got = [j \in 1 .. task[t].ofs |-> f[j]] /\ OpenAs(sessions, task[t].session, p, "r")
         /\ r.type = "ack" => task[t].ofs < Len(f) /\ r.data = <<f[task[t].ofs + 1]>>
         /\ r.type = "eof" => task[t].ofs = Len(f) /\ r.data = <<>>
         /\ task[t].op.kind = "get"
    BY <1>1, <1>7 DEF Progress, Told, Fits, f
<1>8. CASE task[t].at = "read" /\ r.type \in {"ack", "eof"} /\ LastRead(t, r)
           /\ s = Closing(AfterRead(t, r), "none")
    <2> DEFINE g == AfterRead(t, r)
    <2>1. g \in Task /\ g = [task[t] EXCEPT !.got = g.got] /\ g.got = task[t].got \o r.data
        BY <1>8, ReadFits
    <2>2. s.at = "close" /\ s.got = task[t].got \o r.data
        <3>1. s = Closing(g, "none") /\ task[t].at \in {"write", "read"}
            BY <1>8
        <3> HIDE DEF g
        <3>2. s.at = "close" /\ s.got = g.got
            BY <2>1, <3>1, ClosingFits
        <3> QED BY <2>1, <3>2
    <2>3. task[t].got \o r.data = f
        <3>1. CASE r.type = "eof"
            <4>1. task[t].got = f /\ r.data = <<>>
                BY <1>2, <1>7, <1>8, <3>1, ReadAll
            <4> QED BY <1>2, <4>1, ReadAll
        <3>2. CASE r.type = "ack"
            <4> DEFINE k == task[t].ofs
            <4>1. k \in 0 .. Len(f) - 1 /\ r.data = <<f[k + 1]>> /\ r.data # <<>> /\ Len(r.data) = 1
                <5>1. k \in 0 .. Len(f) - 1 /\ r.data = <<f[k + 1]>>
                    BY <1>1, <1>3, <1>7, <1>8, <3>2
                <5> QED BY <5>1
            <4>2. f[k + 1][2] = Chunks
                <5>1. ~(k + Len(r.data) > Chunks)
                    BY <1>1, <1>3, <4>1
                <5>2. AtEnd(r.data)
                    BY <1>8, <3>2, <5>1 DEF LastRead
                <5> QED BY <4>1, <5>2 DEF AtEnd
            <4>3. k + 1 = Chunks /\ Len(f) = k + 1
                BY <1>1, <1>2, <1>3, <4>1, <4>2 DEF FileFits
            <4>4. task[t].got \o r.data = [j \in 1 .. k + 1 |-> f[j]]
                BY <1>2, <1>7, <1>8, <4>1, ReadOneMore
            <4> QED BY <1>2, <4>3, <4>4, ReadAll
        <3> QED BY <1>8, <3>1, <3>2
    <2> QED BY <1>1, <1>7, <1>8, <2>2, <2>3 DEF Progress, f
<1>9. CASE task[t].at = "read" /\ r.type \in {"ack", "eof"} /\ ~LastRead(t, r) /\ s = AfterReadNext(t, r)
    <2> DEFINE k == task[t].ofs
    <2>1. r.type = "ack" /\ k \in 0 .. Len(f) - 1 /\ r.data = <<f[k + 1]>> /\ Len(r.data) = 1
        <3>1. r.type = "ack"
            BY <1>9 DEF LastRead
        <3>2. k \in 0 .. Len(f) - 1 /\ r.data = <<f[k + 1]>>
            BY <1>1, <1>3, <1>7, <1>9, <3>1
        <3> QED BY <3>1, <3>2
    <2>2. k + Len(r.data) <= Chunks
        BY <1>1, <1>3, <2>1
    <2>3. /\ s.at = "read" /\ s.session = task[t].session
          /\ s.got = task[t].got \o r.data /\ s.ofs = k + 1
        BY <1>9, <2>1, <2>2, ReadFits
    <2>4. s.got = [j \in 1 .. k + 1 |-> f[j]]
        BY <1>2, <1>7, <1>9, <2>1, <2>3, ReadOneMore
    <2>5. k + 1 <= Len(f)
        BY <1>3, <2>1
    <2> QED BY <1>1, <1>7, <1>9, <2>3, <2>4, <2>5 DEF Progress, f
<1> QED BY <1>1, <1>4, <1>5, <1>6, <1>8, <1>9 DEF Continues

LEMMA FinishKeepsStep ==
    ASSUME TypeInv, InStep, NEW t \in Transfers, Finish(t), replies' \subseteq replies,
           excused \subseteq excused'
    PROVE  InStep'
<1> DEFINE s2 == [Idle EXCEPT !.at = "done"]
<1>1. s2.op = Unknown
    BY DEF Idle
<1>2. task' = [task EXCEPT ![t] = s2]
    BY DEF Finish
<1> HIDE DEF s2
<1>3. task'[t] = s2 /\ \A u \in Transfers \ {t} : task'[u] = task[u]
    BY <1>2 DEF TypeInv
<1>4. UNCHANGED drone /\ complete \ {t} \subseteq complete' /\ ~Alone(t, task'[t], excused')
    BY <1>1, <1>3 DEF Finish, Alone
<1> QED BY <1>3, <1>4, OthersKeepStep

LEMMA RepeatKeepsStep ==
    ASSUME TypeInv, InStep, NEW t \in Transfers, RepeatRequest(t)
    PROVE  InStep'
<1> DEFINE s2 == [task[t] EXCEPT !.retries = @ - 1]
<1>1. /\ s2.op = task[t].op /\ s2.at = task[t].at /\ s2.ofs = task[t].ofs /\ s2.got = task[t].got
      /\ s2.session = task[t].session /\ s2.seq = task[t].seq
    BY DEF Task, TypeInv
<1>2. /\ task' = [task EXCEPT ![t] = s2] /\ replies' = replies /\ UNCHANGED drone
      /\ complete' = complete /\ excused' = excused
    BY DEF RepeatRequest, history
<1> HIDE DEF s2
<1>3. task'[t] = s2 /\ \A u \in Transfers \ {t} : task'[u] = task[u]
    BY <1>2 DEF TypeInv
<1>4. Alone(t, s2, excused) => Progress(t, s2, files, sessions, complete)
    BY <1>1 DEF InStep, Alone, Progress
<1>5. \A r \in replies : r.to = t /\ Alone(t, s2, excused) /\ r.seq = NextSeq(s2.seq) =>
          Told(r, t, s2, files, sessions, complete)
    <2> SUFFICES ASSUME NEW r \in replies, r.to = t, Alone(t, s2, excused), r.seq = NextSeq(s2.seq)
                 PROVE  Told(r, t, s2, files, sessions, complete)
        OBVIOUS
    <2>1. Told(r, t, task[t], files, sessions, complete)
        BY <1>1 DEF InStep, Alone
    <2> QED BY <1>1, <2>1 DEF Told
<1> QED BY <1>2, <1>3, <1>4, <1>5, OthersKeepStep

LEMMA StartKeepsStep ==
    ASSUME TypeInv, InStep, NEW t \in Transfers, NEW o \in Operations[t], NEW k \in Starts[t],
           StartTransfer(t, o, k)
    PROVE  InStep'
<1> DEFINE s2 == [task[t] EXCEPT !.op = o, !.seq = k,
                                 !.at = IF o.kind = "put" THEN "create" ELSE "open"]
<1>1. s2.at \in {"create", "open"}
    BY DEF Task, TypeInv
<1>2. /\ task' = [task EXCEPT ![t] = s2] /\ replies' = replies /\ UNCHANGED drone
      /\ complete' = complete /\ excused' = excused
    BY DEF StartTransfer, history
<1> HIDE DEF s2
<1>3. task'[t] = s2 /\ \A u \in Transfers \ {t} : task'[u] = task[u]
    BY <1>2 DEF TypeInv
<1>4. Progress(t, s2, files, sessions, complete)
    BY <1>1 DEF Progress
<1>5. \A r \in replies : r.to # t
    BY DEF TypeInv, ComparedWith, StartTransfer
<1> QED BY <1>2, <1>3, <1>4, <1>5, OthersKeepStep

LEMMA SendKeepsStep ==
    ASSUME TypeInv, NumbersSuffice, InTime, InStep, NEW t \in Transfers, NEW r, NEW s \in Task,
           GoesOn(t, r, s), task[t].at \in RequestKinds, replies' \subseteq replies,
           excused \subseteq excused',
           Alone(t, s, excused') => Progress(t, s, files, sessions, complete)
    PROVE  InStep'
<1> DEFINE s2 == NextRequest(s)
           next == NextSeq(NextSeq(task[t].seq))
<1>1. /\ task' = [task EXCEPT ![t] = s2] /\ UNCHANGED drone /\ complete' = complete
    BY DEF GoesOn, SendAndWait, NextRequest
<1>2. /\ s2.seq = next /\ s2.at = s.at /\ s2.ofs = s.ofs /\ s2.op = s.op
      /\ s2.session = s.session /\ s2.got = s.got
    BY DEF NextRequest, Task, GoesOn
<1> HIDE DEF s2
<1>3. task'[t] = s2 /\ \A u \in Transfers \ {t} : task'[u] = task[u]
    BY <1>1 DEF TypeInv
<1>4. Alone(t, s2, excused') => Progress(t, s2, files, sessions, complete)
    BY <1>2 DEF Alone, Progress
<1>5. ASSUME NEW q \in replies, q.to = t PROVE q.seq # NextSeq(next)
    <2>1. t \in Busy /\ ReplyInTime(q, t)
        BY <1>5 DEF InTime, Busy
    <2>2. Steps(s) \in 1 .. Chunks + 4 /\ Steps(s) > Steps(task[t])
        <3>1. Steps(s) \in 0 .. Chunks + 4 /\ Steps(task[t]) \in 0 .. Chunks + 4 /\ Steps(s) > Steps(task[t])
            BY StepsValue DEF GoesOn, TypeInv
        <3> QED BY <3>1, NumbersAssumption
    <2>3. PICK a \in 1 .. Steps(s), x \in 0 .. SeqModulus - 1 : q.seq = NextSeq(x) /\ Ahead(x, next, a)
        BY <1>5, <2>1, <2>2, ReplyGrowsOld
    <2>4. next \in 0 .. SeqModulus - 1
        BY NextSeqValue DEF TypeInv, Task
    <2>5. a \in 1 .. Chunks + 4
        BY <2>2, NumbersAssumption
    <2> HIDE DEF next
    <2> QED BY <2>3, <2>4, <2>5, NumbersDiffer
<1> HIDE DEF next
<1> QED BY <1>1, <1>2, <1>3, <1>4, <1>5, OthersKeepStep

LEMMA TransferStepKeepsStep ==
    ASSUME TypeInv, NumbersSuffice, InTime, InStep, NEW t \in Transfers, Proceed(t) \/ CancelTransfer(t)
    PROVE  InStep'
<1>1. CASE RepeatRequest(t)
    BY <1>1, RepeatKeepsStep
<1>2. CASE TimeOut(t)
    <2>1. Finish(t) \/ \E s \in Task : s.op = Unknown /\ GoesOn(t, t, s)
        BY <1>2, FailGoesOn DEF TimeOut
    <2>2. ASSUME NEW s \in Task, s.op = Unknown, GoesOn(t, t, s) PROVE InStep'
        <3>1. ~Alone(t, s, excused')
            BY <2>2 DEF Alone
        <3> QED BY <1>2, <2>2, <3>1, SendKeepsStep DEF TimeOut
    <2> QED BY <1>2, <2>1, <2>2, FinishKeepsStep DEF TimeOut
<1>3. ASSUME NEW r \in replies, Receive(t, r) PROVE InStep'
    <2>1. /\ task[t].at \in RequestKinds /\ replies' \subseteq replies /\ excused \subseteq excused'
          /\ t \notin excused' => r.to = t
          /\ r \in Reply /\ r.seq = NextSeq(task[t].seq)
        BY <1>3, ReceiveTakes
    <2>2. CASE Finish(t)
        BY <2>1, <2>2, FinishKeepsStep
    <2>3. ASSUME NEW s \in Task, GoesOn(t, r, s) PROVE InStep'
        <3>1. ASSUME Alone(t, s, excused') PROVE Progress(t, s, files, sessions, complete)
            <4>1. t \notin excused' /\ s.op # Unknown /\ ~s.op.check /\ s.op = task[t].op
                BY <2>3, <3>1 DEF Alone, GoesOn, Follows
            <4>2. Alone(t, task[t], excused)
                BY <2>1, <4>1 DEF Alone
            <4>3. /\ Progress(t, task[t], files, sessions, complete)
                  /\ Told(r, t, task[t], files, sessions, complete)
                BY <2>1, <4>1, <4>2 DEF InStep
            <4> QED BY <2>1, <2>3, <4>1, <4>3, GoingOnIsProgress
        <3> QED BY <2>1, <2>3, <3>1, SendKeepsStep
    <2> QED BY <1>3, <2>2, <2>3, ReceiveGoesOn
<1>4. CASE CancelTransfer(t)
    BY <1>4, FinishKeepsStep DEF CancelTransfer
<1> QED BY <1>1, <1>2, <1>3, <1>4 DEF Proceed

-----------------------------------------------------------------------------
(* Transfers that are alone: what the drone does.                          *)

\* A step of the drone to files fs and sessions ss leaves what task s of transfer
\* t has done.
Leaves(t, s, fs, ss) ==
    LET p == s.op.path
    IN /\ \A i \in Sessions :
             /\ sessions[i] # Absent
             /\ \/ s.at \in {"create", "open"}
                \/ s.at \in {"write", "read"} /\ i = s.session
             => ss[i] = sessions[i]
       /\ s.at = "write" =>
             /\ Len(fs[p]) >= Len(files[p])
             /\ \A j \in 1 .. Len(files[p]) : files[p][j] = <<t, j>> => fs[p][j] = <<t, j>>
       /\ s.op.kind = "get" => fs[p] = files[p]

LEMMA LeftInStep ==
    ASSUME TypeInv, NEW t \in Transfers, NEW fs \in [Paths -> Seq(Chunk)], NEW ss, NEW c,
           Leaves(t, task[t], fs, ss), complete \subseteq c, task[t].op # Unknown
    PROVE  /\ Progress(t, task[t], files, sessions, complete) => Progress(t, task[t], fs, ss, c)
           /\ \A r \in Reply : Told(r, t, task[t], files, sessions, complete) =>
                                   Told(r, t, task[t], fs, ss, c)
<1> DEFINE s == task[t]
           p == s.op.path
<1>1. s \in Task /\ Fits(s, t) /\ s.ofs \in Nat /\ Chunks \in Nat \ {0} /\ s.session \in Sessions
    BY NumbersAssumption DEF TypeInv, Task
<1>2. p \in Paths
    BY <1>1, OperationIsKnown DEF Fits
<1>3. files[p] \in Seq(Chunk) /\ fs[p] \in Seq(Chunk) /\ Len(files[p]) \in Nat /\ Len(fs[p]) \in Nat
    BY <1>2 DEF TypeInv, TransferTypeOK
<1>4. ASSUME NEW k \in Nat, s.at = "write", WrittenUpTo(t, files[p], k)
      PROVE  WrittenUpTo(t, fs[p], k)
    <2>1. /\ Len(fs[p]) >= Len(files[p])
          /\ \A j \in 1 .. Len(files[p]) : files[p][j] = <<t, j>> => fs[p][j] = <<t, j>>
        BY <1>4 DEF Leaves
    <2> QED BY <1>3, <1>4, <2>1 DEF WrittenUpTo
<1>5. ASSUME NEW i \in Sessions, NEW mode,
             s.at \in {"create", "open"} \/ (s.at \in {"write", "read"} /\ i = s.session),
             OpenAs(sessions, i, p, mode), mode \in {"r", "w"}
      PROVE  OpenAs(ss, i, p, mode)
    <2>1. [path |-> p, mode |-> mode] \in Session
        BY <1>2, <1>5 DEF Session
    <2>2. sessions[i] # Absent
        BY <1>5, <2>1, AbsentAssumption DEF OpenAs
    <2> QED BY <1>5, <2>2 DEF Leaves, OpenAs
<1>6. s.at \in {"open", "read"} \/ (s.at = "close" /\ s.op.kind # "put") => fs[p] = files[p]
    <2>1. s.op.kind \in {"put", "get"}
        BY <1>1, OperationIsKnown DEF Fits
    <2> QED BY <1>1, <2>1 DEF Leaves, Fits
<1>7. Progress(t, s, files, sessions, complete) => Progress(t, s, fs, ss, c)
    <2> SUFFICES ASSUME Progress(t, s, files, sessions, complete) PROVE Progress(t, s, fs, ss, c)
        OBVIOUS
    <2>1. s.at = "write" => OpenAs(ss, s.session, p, "w") /\ WrittenUpTo(t, fs[p], s.ofs)
        BY <1>1, <1>4, <1>5 DEF Progress
    <2>2. s.at = "read" =>
             /\ OpenAs(ss, s.session, p, "r")
             /\ s.ofs <= Len(fs[p]) /\ s.got = [j \in 1 .. s.ofs |-> fs[p][j]]
        BY <1>1, <1>5, <1>6 DEF Progress
    <2>3. s.at = "close" => IF s.op.kind = "put" THEN t \in c ELSE s.got = fs[p]
        BY <1>6 DEF Progress
    <2> QED BY <2>1, <2>2, <2>3 DEF Progress
<1>8. ASSUME NEW r \in Reply, Told(r, t, s, files, sessions, complete) PROVE Told(r, t, s, fs, ss, c)
    <2>1. r.session \in Sessions /\ s.ofs + 1 \in Nat
        BY <1>1 DEF Reply
    <2>2. /\ s.at = "create" /\ r.type = "ack" => OpenAs(ss, r.session, p, "w")
          /\ s.at = "open" /\ r.type = "ack" => OpenAs(ss, r.session, p, "r")
        BY <1>5, <1>8, <2>1 DEF Told
    <2>3. s.at = "write" /\ r.type = "ack" =>
             WrittenUpTo(t, fs[p], s.ofs + 1) /\ (s.ofs + 1 = Chunks => t \in c)
        BY <1>4, <1>8, <2>1 DEF Told
    <2>4. /\ s.at = "read" /\ r.type = "ack" => s.ofs < Len(fs[p]) /\ r.data = <<fs[p][s.ofs + 1]>>
          /\ s.at = "read" /\ r.type = "eof" => s.ofs = Len(fs[p]) /\ r.data = <<>>
        BY <1>6, <1>8 DEF Told
    <2> QED BY <2>2, <2>3, <2>4 DEF Told
<1> QED BY <1>7, <1>8

\* An answer that leaves what its own transfer has done, and tells what the
\* drone does now, keeps all those that are alone in step.
LEMMA AnswerKeepsStep ==
    ASSUME TypeInv, NumbersSuffice, InTime, InStep, NEW m \in requests, NEW type \in {"ack", "nak", "eof"},
           NEW i \in Sessions, NEW d \in Seq(Chunk), NEW f \in [Paths -> Seq(Chunk)], NEW ss,
           Answer(m, ReplyTo(m, type, i, d), f, ss),
           \A j \in Sessions : sessions[j] # Absent => ss[j] \in {sessions[j], Absent},
           Alone(m.from, task[m.from], excused) =>
               /\ Leaves(m.from, task[m.from], f, ss)
               /\ m = RequestOf(m.from, task[m.from]) =>
                     Told(ReplyTo(m, type, i, d), m.from, task[m.from], f, ss, complete')
    PROVE  InStep'
<1> DEFINE q == ReplyTo(m, type, i, d)
           t == m.from
<1>1. /\ replies' \subseteq replies \cup {q} /\ task' = task /\ files' = f /\ sessions' = ss
      /\ complete \subseteq complete' /\ excused \subseteq excused'
    BY SomeArrive DEF Answer
<1>2. /\ t \in Transfers /\ m \in Request /\ m.seq \in 0 .. SeqModulus - 1
      /\ q.to = t /\ q.seq = NextSeq(m.seq)
    BY DEF TypeInv, TransferTypeOK, Request, ReplyTo
<1>3. ASSUME NEW u \in Transfers, Alone(u, task[u], excused')
      PROVE  Leaves(u, task[u], f, ss) /\ Alone(u, task[u], excused)
    <2>1. Alone(u, task[u], excused)
        BY <1>1, <1>3 DEF Alone
    <2>2. CASE u = t
        BY <2>1, <2>2
    <2>3. CASE u # t
        <3> DEFINE s == task[u]
                   closed == {j \in Sessions : sessions[j] # Absent /\ ss[j] = Absent}
        <3>1. u \in Busy /\ s.op # Unknown /\ ~s.op.check /\ u \notin excused'
            BY <1>3 DEF Alone, TypeInv, Fits, Busy
        <3>2. /\ f[s.op.path] = files[s.op.path]
              /\ s.at \in {"create", "open"} => closed = {}
              /\ s.at \in {"write", "read"} => s.session \notin closed
            BY <2>3, <3>1 DEF Answer
        <3>3. \A j \in Sessions :
                 /\ sessions[j] # Absent
                 /\ \/ s.at \in {"create", "open"}
                    \/ s.at \in {"write", "read"} /\ j = s.session
                 => ss[j] = sessions[j]
            BY <3>2
        <3>4. s.op.path \in Paths
            BY <3>1, OperationIsKnown DEF TypeInv, Fits
        <3>5. Len(f[s.op.path]) >= Len(files[s.op.path])
            BY <3>2, <3>4
        <3> QED BY <2>1, <3>2, <3>3, <3>5 DEF Leaves
    <2> QED BY <2>2, <2>3
<1>4. ASSUME NEW u \in Transfers, Alone(u, task[u], excused')
      PROVE  Progress(u, task[u], f, ss, complete')
    <2>1. Progress(u, task[u], files, sessions, complete) /\ task[u].op # Unknown
        BY <1>3, <1>4 DEF InStep, Alone
    <2> QED BY <1>1, <1>3, <1>4, <2>1, LeftInStep
<1>5. ASSUME NEW r \in replies', Alone(r.to, task[r.to], excused'), r.seq = NextSeq(task[r.to].seq)
      PROVE  Told(r, r.to, task[r.to], f, ss, complete')
    <2>1. CASE r \in replies
        <3>1. r \in Reply /\ r.to \in Transfers
            BY <2>1 DEF TypeInv, TransferTypeOK, Reply
        <3>2. Told(r, r.to, task[r.to], files, sessions, complete) /\ task[r.to].op # Unknown
            BY <1>3, <1>5, <2>1, <3>1 DEF InStep, Alone
        <3> QED BY <1>1, <1>3, <1>5, <3>1, <3>2, LeftInStep
    <2>2. CASE r = q
        <3>1. Alone(t, task[t], excused) /\ t \in Busy
            BY <1>2, <1>3, <1>5, <2>2 DEF Alone, TypeInv, Fits, Busy
        <3>2. RequestInTime(m, t)
            BY <3>1 DEF InTime
        <3>3. m = RequestOf(t, task[t])
            <4>1. SUFFICES ASSUME NEW a \in 1 .. Steps(task[t]), Ahead(m.seq, task[t].seq, a) PROVE FALSE
                BY <3>2 DEF RequestInTime
            <4>2. a \in 1 .. Chunks + 4 /\ task[t].seq \in 0 .. SeqModulus - 1
                <5>1. Steps(task[t]) \in 0 .. Chunks + 4 /\ task[t] \in Task
                    BY <1>2, StepsValue DEF TypeInv
                <5>2. a \in 1 .. Chunks + 4
                    BY <5>1, NumbersAssumption
                <5>3. task[t].seq \in 0 .. SeqModulus - 1
                    BY <5>1 DEF Task
                <5> QED BY <5>2, <5>3
            <4>3. NextSeq(m.seq) # NextSeq(task[t].seq)
                BY <1>2, <4>1, <4>2, NumbersDiffer
            <4> QED BY <1>2, <1>5, <2>2, <4>3
        <3> QED BY <1>2, <2>2, <3>1, <3>3
    <2> QED BY <1>1, <2>1, <2>2
<1>6. (\A u \in Transfers :
           Alone(u, task[u], excused) => Progress(u, task[u], files, sessions, complete))'
    BY <1>1, <1>4 DEF Alone, Progress, OpenAs, WrittenUpTo, Unknown
<1>7. (\A r \in replies :
           Alone(r.to, task[r.to], excused) /\ r.seq = NextSeq(task[r.to].seq) =>
               Told(r, r.to, task[r.to], files, sessions, complete))'
    BY <1>1, <1>5 DEF Alone, Told, OpenAs, WrittenUpTo, Unknown, NextSeq
<1> QED BY <1>6, <1>7 DEF InStep

\* The task of a transfer that is alone, its file, and the request of it that
\* the drone handles.
LEMMA AloneTask ==
    ASSUME TypeInv, InStep, NEW m \in requests, Alone(m.from, task[m.from], excused)
    PROVE  LET t == m.from
               s == task[t]
           IN  /\ t \in Transfers /\ s \in Task /\ Fits(s, t) /\ s.op # Unknown
               /\ s.op.path \in Paths /\ s.op.kind \in {"put", "get"}
               /\ Progress(t, s, files, sessions, complete) /\ Sent(m, s) /\ m \in Request
               /\ files[s.op.path] \in Seq(Chunk) /\ Len(files[s.op.path]) \in Nat
               /\ FileFits(files[s.op.path])
               /\ m = RequestOf(t, s) =>
                     /\ m.op = s.at /\ m.session = s.session /\ m.ofs = s.ofs
                     /\ m.op \in {"create", "open", "crc"} => m.path = s.op.path
<1> DEFINE t == m.from
           s == task[t]
<1>1. t \in Transfers /\ m \in Request /\ s \in Task /\ Fits(s, t) /\ Sent(m, s) /\ s.op # Unknown
    BY DEF TypeInv, TransferTypeOK, Request, Alone
<1>2. s.op.path \in Paths /\ s.op.kind \in {"put", "get"}
    BY <1>1, OperationIsKnown DEF Fits
<1>3. Progress(t, s, files, sessions, complete)
    BY <1>1 DEF InStep
<1>4. files[s.op.path] \in Seq(Chunk) /\ FileFits(files[s.op.path])
    BY <1>2 DEF TypeInv, TransferTypeOK
<1>5. m = RequestOf(t, s) =>
          /\ m.op = s.at /\ m.session = s.session /\ m.ofs = s.ofs
          /\ m.op \in {"create", "open", "crc"} => m.path = s.op.path
    BY DEF RequestOf
<1> HIDE DEF s
<1> QED BY <1>1, <1>2, <1>3, <1>4, <1>5 DEF s

\* Answers that change no file, and close sessions only of those that are done.
LEMMA HarmlessAnswer ==
    ASSUME TypeInv, NumbersSuffice, InTime, InStep, NEW m \in requests, NEW type \in {"ack", "nak", "eof"},
           NEW i \in Sessions, NEW d \in Seq(Chunk), NEW ss,
           Answer(m, ReplyTo(m, type, i, d), files, ss),
           \A j \in Sessions : sessions[j] # Absent => ss[j] \in {sessions[j], Absent},
           \/ \A j \in Sessions : sessions[j] # Absent => ss[j] = sessions[j]
           \/ m.op \notin {"create", "open", "write", "read"},
           Alone(m.from, task[m.from], excused) /\ m = RequestOf(m.from, task[m.from]) =>
               Told(ReplyTo(m, type, i, d), m.from, task[m.from], files, ss, complete')
    PROVE  InStep'
<1>1. ASSUME Alone(m.from, task[m.from], excused) PROVE Leaves(m.from, task[m.from], files, ss)
    <2> DEFINE s == task[m.from]
    <2>1. Sent(m, s) /\ Len(files[s.op.path]) \in Nat
        BY <1>1, AloneTask
    <2>2. \A j \in Sessions :
             /\ sessions[j] # Absent
             /\ \/ s.at \in {"create", "open"}
                \/ s.at \in {"write", "read"} /\ j = s.session
             => ss[j] = sessions[j]
        BY <2>1 DEF Sent
    <2> HIDE DEF s
    <2> QED BY <2>1, <2>2 DEF Leaves, s
<1>2. files \in [Paths -> Seq(Chunk)]
    BY DEF TypeInv, TransferTypeOK
<1> QED BY <1>1, <1>2, AnswerKeepsStep

LEMMA RefuseKeepsStep ==
    ASSUME TypeInv, NumbersSuffice, InTime, InStep, NEW m \in requests, Refuse(m)
    PROVE  InStep'
<1>1. m.session \in Sessions /\ <<>> \in Seq(Chunk)
    BY DEF TypeInv, TransferTypeOK, Request
<1>2. ReplyTo(m, "nak", m.session, <<>>).type = "nak"
    BY DEF ReplyTo
<1>3. Told(ReplyTo(m, "nak", m.session, <<>>), m.from, task[m.from], files, sessions, complete')
    BY <1>2 DEF Told
<1> QED BY <1>1, <1>3, HarmlessAnswer DEF Refuse

LEMMA OpenKeepsStep ==
    ASSUME TypeInv, NumbersSuffice, InTime, InStep, NEW m \in requests, HandleOpen(m)
    PROVE  InStep'
<1> DEFINE t == m.from
           s == task[t]
           p == s.op.path
           mode == IF m.op = "create" THEN "w" ELSE "r"
           file == IF m.op = "create" THEN <<>> ELSE files[m.path]
           isOpen(i) == sessions[i] # Absent /\ sessions[i].path = m.path
<1>1. /\ m.op \in {"create", "open"} /\ m.path \in Paths /\ <<>> \in Seq(Chunk)
      /\ sessions \in [Sessions -> Session \cup {Absent}] /\ files \in [Paths -> Seq(Chunk)]
    BY DEF HandleOpen, TypeInv, TransferTypeOK, Sent
<1>2. CASE Refuse(m)
    BY <1>2, RefuseKeepsStep
<1>3. ASSUME NEW i \in Sessions, isOpen(i), OpenIn(i, mode),
             Answer(m, ReplyTo(m, "ack", i, <<>>), files, sessions)
      PROVE  InStep'
    <2> DEFINE q == ReplyTo(m, "ack", i, <<>>)
    <2>1. sessions[i] = [path |-> m.path, mode |-> mode]
        <3>1. sessions[i] \in Session /\ sessions[i].path = m.path /\ sessions[i].mode = mode
            BY <1>1, <1>3 DEF OpenIn
        <3> QED BY <3>1 DEF Session
    <2>2. q.session = i /\ q.type = "ack"
        BY DEF ReplyTo
    <2>3. ASSUME Alone(t, s, excused), m = RequestOf(t, s) PROVE Told(q, t, s, files, sessions, complete')
        <3>1. s.at = m.op /\ m.path = p
            BY <1>1, <2>3, AloneTask
        <3>2. OpenAs(sessions, i, p, mode)
            BY <2>1, <3>1 DEF OpenAs
        <3> HIDE DEF q
        <3> QED BY <1>1, <2>2, <3>1, <3>2 DEF Told
    <2> QED BY <1>1, <1>3, <2>3, HarmlessAnswer
<1>4. ASSUME NEW i \in Sessions, sessions[i] = Absent, \A j \in Sessions : ~isOpen(j),
             Answer(m, ReplyTo(m, "ack", i, <<>>), [files EXCEPT ![m.path] = file],
                    [sessions EXCEPT ![i] = [path |-> m.path, mode |-> mode]])
      PROVE  InStep'
    <2> DEFINE fs == [files EXCEPT ![m.path] = file]
               ss == [sessions EXCEPT ![i] = [path |-> m.path, mode |-> mode]]
               q == ReplyTo(m, "ack", i, <<>>)
    <2>1. /\ fs \in [Paths -> Seq(Chunk)] /\ fs[m.path] = file
          /\ ss[i] = [path |-> m.path, mode |-> mode]
          /\ \A j \in Sessions : sessions[j] # Absent => ss[j] = sessions[j]
          /\ m.op = "open" => fs = files
        <3>1. file \in Seq(Chunk)
            BY <1>1
        <3> QED BY <1>1, <1>4, <3>1
    <2>2. q.session = i /\ q.type = "ack"
        BY DEF ReplyTo
    <2> HIDE DEF fs, ss
    <2>3. ASSUME Alone(t, s, excused)
          PROVE  /\ Leaves(t, s, fs, ss)
                 /\ m = RequestOf(t, s) => Told(q, t, s, fs, ss, complete')
        <3>1. /\ Sent(m, s) /\ Progress(t, s, files, sessions, complete) /\ Len(files[p]) \in Nat
              /\ s.op # Unknown /\ p \in Paths /\ s \in Task /\ Fits(s, t)
              /\ m = RequestOf(t, s) => m.op = s.at /\ m.path = p
            BY <1>1, <2>3, AloneTask
        <3>2. s.at # "write"
            <4>1. SUFFICES ASSUME s.at = "write" PROVE FALSE
                OBVIOUS
            <4>2. sessions[s.session] = [path |-> p, mode |-> "w"] /\ s.session \in Sessions
                BY <3>1, <4>1 DEF Progress, OpenAs, Task
            <4>3. sessions[s.session] # Absent
                BY <3>1, <4>2, AbsentAssumption DEF Session
            <4>4. m.path = p
                BY <1>1, <3>1 DEF Sent
            <4> QED BY <1>4, <4>2, <4>3, <4>4
        <3>3. s.op.kind = "get" => fs = files
            BY <1>1, <2>1, <3>1 DEF Sent
        <3>4. Leaves(t, s, fs, ss)
            BY <2>1, <3>2, <3>3 DEF Leaves
        <3>5. ASSUME m = RequestOf(t, s) PROVE Told(q, t, s, fs, ss, complete')
            <4>1. m.op = s.at /\ OpenAs(ss, i, p, mode)
                BY <2>1, <3>1, <3>5 DEF OpenAs
            <4> HIDE DEF q
            <4> QED BY <1>1, <2>2, <4>1 DEF Told
        <3> QED BY <3>4, <3>5
    <2>4. Answer(m, q, fs, ss)
        BY <1>4 DEF fs, ss
    <2> QED BY <1>1, <2>1, <2>3, <2>4, AnswerKeepsStep
<1> QED BY <1>2, <1>3, <1>4 DEF HandleOpen

LEMMA WriteKeepsStep ==
    ASSUME TypeInv, NumbersSuffice, InTime, InStep, NEW m \in requests, HandleWrite(m)
    PROVE  InStep'
<1> DEFINE t == m.from
           s == task[t]
           p == s.op.path
           w == sessions[m.session].path
           k == m.ofs
           chunk == <<t, k + 1>>
           fs == [files EXCEPT ![w] = Written(@, k, chunk)]
           q == ReplyTo(m, "ack", m.session, <<>>)
<1>1. CASE ~OpenIn(m.session, "w")
    BY <1>1, RefuseKeepsStep DEF HandleWrite
<1>2. CASE OpenIn(m.session, "w")
    <2>1. /\ m.op = "write" /\ k \in 0 .. Chunks - 1 /\ t \in Transfers /\ <<>> \in Seq(Chunk)
          /\ m.session \in Sessions
          /\ sessions \in [Sessions -> Session \cup {Absent}] /\ files \in [Paths -> Seq(Chunk)]
        BY NumbersAssumption DEF HandleWrite, TypeInv, TransferTypeOK, Sent, Request
    <2>2. w \in Paths /\ files[w] \in Seq(Chunk) /\ FileFits(files[w])
        BY <1>2, <2>1 DEF OpenIn, Session, TypeInv
    <2>3. Data(t)[k + 1] = chunk
        <3>1. k + 1 \in 1 .. Chunks
            BY <2>1, NumbersAssumption
        <3> QED BY <2>1, <3>1, ContentFits DEF Data
    <2>4. LET f == Written(files[w], k, chunk)
          IN  /\ f \in Seq(Chunk) /\ FileFits(f)
              /\ Len(f) > k /\ Len(f) >= Len(files[w])
              /\ f[k + 1] = chunk
              /\ \A j \in 1 .. Len(files[w]) : j # k + 1 => f[j] = files[w][j]
        <3>1. t \in Transfers \cup Paths
            BY <2>1
        <3> HIDE DEF t, k, w
        <3> QED BY <2>1, <2>2, <3>1, WriteFits
    <2>5. /\ fs \in [Paths -> Seq(Chunk)] /\ FileFits(fs[w])
          /\ Len(fs[w]) > k /\ Len(fs[w]) >= Len(files[w])
          /\ fs[w][k + 1] = chunk
          /\ \A j \in 1 .. Len(files[w]) : j # k + 1 => fs[w][j] = files[w][j]
        <3>1. fs \in [Paths -> Seq(Chunk)] /\ fs[w] = Written(files[w], k, chunk)
            BY <2>1, <2>2, <2>4
        <3> HIDE DEF fs
        <3> QED BY <2>4, <3>1
    <2>6. Answer(m, q, fs, sessions)
        BY <1>2, <2>3 DEF HandleWrite
    <2>7. q.type = "ack"
        BY DEF ReplyTo
    <2> HIDE DEF fs
    <2>8. ASSUME Alone(t, s, excused)
          PROVE  /\ Leaves(t, s, fs, sessions)
                 /\ m = RequestOf(t, s) => Told(q, t, s, fs, sessions, complete')
        <3>1. /\ Sent(m, s) /\ Progress(t, s, files, sessions, complete)
              /\ s.op # Unknown /\ p \in Paths /\ s \in Task /\ Fits(s, t)
              /\ s.op.kind = "put"
            <4>1. /\ Sent(m, s) /\ Progress(t, s, files, sessions, complete)
                  /\ s.op # Unknown /\ p \in Paths /\ s \in Task /\ Fits(s, t)
                BY <2>8, AloneTask
            <4> QED BY <2>1, <4>1 DEF Sent
        <3>2. s.at = "write" => m.session = s.session /\ w = p
            BY <2>1, <3>1 DEF Sent, Progress, OpenAs
        <3>3. s.at = "write" =>
                 /\ Len(fs[p]) >= Len(files[p])
                 /\ \A j \in 1 .. Len(files[p]) : files[p][j] = <<t, j>> => fs[p][j] = <<t, j>>
            BY <2>5, <3>2
        <3>4. Leaves(t, s, fs, sessions)
            BY <3>1, <3>3 DEF Leaves
        <3>5. ASSUME m = RequestOf(t, s) PROVE Told(q, t, s, fs, sessions, complete')
            <4>1. s.at = "write" /\ s.ofs = k /\ w = p
                BY <2>1, <2>8, <3>2, <3>5, AloneTask
            <4>2. Len(files[p]) \in Nat /\ Len(fs[p]) \in Nat /\ k \in Nat /\ Chunks \in Nat
                <5>1. files[p] \in Seq(Chunk) /\ fs[p] \in Seq(Chunk)
                    BY <2>1, <2>5, <3>1
                <5>2. k \in Nat /\ Chunks \in Nat
                    BY <2>1, NumbersAssumption
                <5>3. Len(files[p]) \in Nat
                    BY <5>1
                <5>4. Len(fs[p]) \in Nat
                    BY <5>1
                <5> QED BY <5>2, <5>3, <5>4
            <4>3. WrittenUpTo(t, fs[p], k + 1)
                <5>1. Len(files[p]) >= k /\ \A j \in 1 .. k : files[p][j] = <<t, j>>
                    BY <3>1, <4>1 DEF Progress, WrittenUpTo
                <5>2. Len(fs[p]) >= k + 1 /\ fs[p][k + 1] = <<t, k + 1>>
                    <6>1. Len(fs[p]) > k /\ fs[p][k + 1] = <<t, k + 1>>
                        BY <2>5, <4>1
                    <6> HIDE DEF p, k
                    <6> QED BY <4>2, <6>1
                <5>3. \A j \in 1 .. k : fs[p][j] = <<t, j>>
                    <6> SUFFICES ASSUME NEW j \in 1 .. k PROVE fs[p][j] = <<t, j>>
                        OBVIOUS
                    <6>1. j \in 1 .. Len(files[p]) /\ files[p][j] = <<t, j>>
                        BY <4>2, <5>1
                    <6> QED BY <3>3, <4>1, <6>1
                <5>4. \A j \in 1 .. k + 1 : j \in 1 .. k \/ j = k + 1
                    BY <4>2
                <5> QED BY <5>2, <5>3, <5>4 DEF WrittenUpTo
            <4>4. ASSUME k + 1 = Chunks PROVE t \in complete'
                <5>1. fs[p] \in Seq(Chunk) /\ Len(fs[p]) = Chunks
                    <6>1. fs[p] \in Seq(Chunk)
                        BY <2>5, <3>1
                    <6>2. Len(fs[p]) <= Chunks /\ Len(fs[p]) >= Chunks
                        BY <2>5, <4>1, <4>3, <4>4 DEF FileFits, WrittenUpTo
                    <6> QED BY <4>2, <6>1, <6>2
                <5>2. \A j \in 1 .. Chunks : fs[p][j] = <<t, j>>
                    BY <4>3, <4>4 DEF WrittenUpTo
                <5>3. Data(t) \in Seq(Chunk) /\ Len(Data(t)) = Chunks
                      /\ \A j \in 1 .. Chunks : Data(t)[j] = <<t, j>>
                    BY <2>1, ContentFits DEF Data
                <5>4. fs[p] = Data(t)
                    <6>1. \A j \in 1 .. Len(fs[p]) : fs[p][j] = Data(t)[j]
                        BY <5>1, <5>2, <5>3
                    <6> HIDE DEF p, t
                    <6> QED BY <5>1, <5>3, <6>1, SeqEqual
                <5>5. t \in Busy
                    BY <2>1, <4>1 DEF Busy, RequestKinds
                <5> QED BY <2>6, <3>1, <5>4, <5>5 DEF Answer
            <4> HIDE DEF q
            <4> QED BY <4>1, <4>3, <4>4 DEF Told
        <3> QED BY <3>4, <3>5
    <2> QED BY <2>1, <2>5, <2>6, <2>8, AnswerKeepsStep
<1> QED BY <1>1, <1>2

LEMMA ReadKeepsStep ==
    ASSUME TypeInv, NumbersSuffice, InTime, InStep, NEW m \in requests, HandleRead(m)
    PROVE  InStep'
<1> DEFINE t == m.from
           s == task[t]
           p == s.op.path
           w == sessions[m.session].path
           k == m.ofs
<1>1. /\ m.op = "read" /\ k \in Nat /\ t \in Transfers /\ <<>> \in Seq(Chunk) /\ m.session \in Sessions
      /\ sessions \in [Sessions -> Session \cup {Absent}] /\ files \in [Paths -> Seq(Chunk)]
    BY NumbersAssumption DEF HandleRead, TypeInv, TransferTypeOK, Request
<1>2. CASE ~OpenIn(m.session, "r")
    BY <1>2, RefuseKeepsStep DEF HandleRead
<1>3. CASE OpenIn(m.session, "r")
    <2>1. w \in Paths /\ files[w] \in Seq(Chunk) /\ Len(files[w]) \in Nat
        BY <1>1, <1>3 DEF OpenIn, Session
    <2>2. ASSUME Alone(t, s, excused), m = RequestOf(t, s)
          PROVE  s.at = "read" /\ s.ofs = k /\ w = p /\ k <= Len(files[p])
        <3>1. s.at = "read" /\ s.ofs = k /\ s.session = m.session /\ Progress(t, s, files, sessions, complete)
            BY <1>1, <2>2, AloneTask
        <3> QED BY <3>1 DEF Progress, OpenAs
    <2>3. CASE k < Len(files[w])
        <3> DEFINE d == <<files[w][k + 1]>>
                   q == ReplyTo(m, "ack", m.session, d)
        <3>1. d \in Seq(Chunk)
            <4>1. k + 1 \in 1 .. Len(files[w])
                BY <1>1, <2>1, <2>3
            <4> QED BY <2>1, <4>1
        <3>2. q.type = "ack" /\ q.data = d
            BY DEF ReplyTo
        <3>3. Answer(m, q, files, sessions)
            BY <1>3, <2>3 DEF HandleRead
        <3> HIDE DEF q
        <3>4. ASSUME Alone(t, s, excused), m = RequestOf(t, s) PROVE Told(q, t, s, files, sessions, complete')
            BY <2>2, <2>3, <3>2, <3>4 DEF Told
        <3> HIDE DEF d
        <3> QED BY <1>1, <3>1, <3>3, <3>4, HarmlessAnswer DEF q
    <2>4. CASE ~(k < Len(files[w]))
        <3> DEFINE q == ReplyTo(m, "eof", m.session, <<>>)
        <3>1. q.type = "eof" /\ q.data = <<>>
            BY DEF ReplyTo
        <3>2. Answer(m, q, files, sessions)
            BY <1>3, <2>4 DEF HandleRead
        <3> HIDE DEF q
        <3>3. ASSUME Alone(t, s, excused), m = RequestOf(t, s) PROVE Told(q, t, s, files, sessions, complete')
            <4>1. s.at = "read" /\ s.ofs = Len(files[p])
                BY <1>1, <2>1, <2>2, <2>4, <3>3
            <4> QED BY <3>1, <4>1 DEF Told
        <3> QED BY <1>1, <3>2, <3>3, HarmlessAnswer DEF q
    <2> QED BY <2>3, <2>4
<1> QED BY <1>2, <1>3

\* What closes sessions, or is a checksum, concerns no transfer that still
\* writes or reads.
LEMMA OtherAnswer ==
    ASSUME TypeInv, NumbersSuffice, InTime, InStep, NEW m \in requests, NEW d \in Seq(Chunk),
           NEW ss, Answer(m, ReplyTo(m, "ack", m.session, d), files, ss),
           m.op \in {"close", "crc", "reset"},
           \A j \in Sessions : sessions[j] # Absent => ss[j] \in {sessions[j], Absent}
    PROVE  InStep'
<1> DEFINE q == ReplyTo(m, "ack", m.session, d)
<1>1. m.session \in Sessions
    BY DEF TypeInv, TransferTypeOK, Request
<1>2. ASSUME Alone(m.from, task[m.from], excused), m = RequestOf(m.from, task[m.from])
      PROVE  Told(q, m.from, task[m.from], files, ss, complete')
    <2>1. task[m.from].at = m.op
        BY <1>2, AloneTask
    <2> HIDE DEF q
    <2> QED BY <2>1 DEF Told
<1> QED BY <1>1, <1>2, HarmlessAnswer

LEMMA HandleKeepsStep ==
    ASSUME TypeInv, NumbersSuffice, InTime, InStep, NEW m \in requests, Handle(m)
    PROVE  InStep'
<1>1. /\ <<>> \in Seq(Chunk) /\ m.session \in Sessions
      /\ sessions \in [Sessions -> Session \cup {Absent}] /\ files \in [Paths -> Seq(Chunk)]
    BY DEF TypeInv, TransferTypeOK, Request
<1>2. CASE HandleClose(m)
    <2>1. CASE Refuse(m)
        BY <2>1, RefuseKeepsStep
    <2>2. CASE Answer(m, ReplyTo(m, "ack", m.session, <<>>), files,
                      [sessions EXCEPT ![m.session] = Absent])
        <3> DEFINE ss == [sessions EXCEPT ![m.session] = Absent]
        <3>1. \A j \in Sessions : ss[j] \in {sessions[j], Absent}
            BY <1>1
        <3>2. Answer(m, ReplyTo(m, "ack", m.session, <<>>), files, ss)
            BY <2>2
        <3> HIDE DEF ss
        <3> QED BY <1>1, <1>2, <3>1, <3>2, OtherAnswer DEF HandleClose
    <2> QED BY <1>2, <2>1, <2>2 DEF HandleClose
<1>3. CASE HandleCRC(m)
    <2>1. m.path \in Paths
        BY <1>3 DEF HandleCRC, TypeInv, Sent
    <2>2. files[m.path] \in Seq(Chunk)
        BY <1>1, <2>1
    <2> QED BY <1>3, <2>2, OtherAnswer DEF HandleCRC
<1>4. CASE HandleReset(m)
    <2> DEFINE ss == [i \in Sessions |-> Absent]
    <2>1. \A j \in Sessions : ss[j] \in {sessions[j], Absent}
        OBVIOUS
    <2>2. Answer(m, ReplyTo(m, "ack", m.session, <<>>), files, ss) /\ m.op = "reset"
        BY <1>4 DEF HandleReset
    <2> HIDE DEF ss
    <2> QED BY <1>1, <2>1, <2>2, OtherAnswer
<1> QED BY <1>2, <1>3, <1>4, OpenKeepsStep, WriteKeepsStep, ReadKeepsStep DEF Handle

LEMMA NextKeepsStep ==
    ASSUME TypeInv, NumbersSuffice, InTime, InStep, [NextTransfer]_transferVars
    PROVE  InStep'
<1>1. CASE UNCHANGED transferVars
    BY <1>1 DEF transferVars, drone, history, InStep, Alone, Progress, Told, OpenAs, WrittenUpTo,
                NextSeq, Unknown
<1> QED BY <1>1, StartKeepsStep, TransferStepKeepsStep, HandleKeepsStep DEF NextTransfer

-----------------------------------------------------------------------------
(* Every transfer that ends well.                                           *)

\* A transfer that ends well did what it says, unless it took a reply meant
\* for another, or another came between and it does not compare checksums.
LEMMA StepIsTrue ==
    ASSUME TypeInv, NumbersSuffice, InStep, [NextTransfer]_transferVars,
           NEW t \in Transfers, Succeeds(t), t \notin excused'
    PROVE  IF task[t].op.kind = "put" THEN t \in complete
                                      ELSE task[t].got = files[task[t].op.path]
<1>1. CASE task[t].op.check
    BY <1>1, StepChecks
<1>2. CASE ~task[t].op.check
    <2>1. task[t].at \in {"close", "crc"} /\ task[t].op # Unknown /\ t \notin excused
        BY SuccessIsEarned
    <2>2. task[t].at = "close"
        BY <1>2, <2>1 DEF TypeInv, Fits
    <2>3. Progress(t, task[t], files, sessions, complete)
        BY <1>2, <2>1 DEF InStep, Alone
    <2> QED BY <2>2, <2>3 DEF Progress
<1> QED BY <1>1, <1>2

LEMMA InitIsInStep ==
    ASSUME InitTransfers
    PROVE  InTime /\ InStep
<1>1. \A t \in Transfers : ~Alone(t, task[t], excused)
    BY DEF InitTransfers, Idle, Alone
<1> QED BY <1>1 DEF InitTransfers, InTime, InStep

\* If a transfer sends less than half as many requests as there are sequence
\* numbers, so that no old reply passes for a new one, then every transfer that
\* ends well did what it says.
THEOREM TransfersAreTrue ==
    ASSUME NumbersSuffice
    PROVE  TransferSpec => TransferIsTrue
<1>1. InitTransfers => TypeInv /\ InTime /\ InStep
    BY InitHasTypes, InitIsInStep
<1>2. TypeInv /\ InTime /\ InStep /\ [NextTransfer]_transferVars => (TypeInv /\ InTime /\ InStep)'
    BY NextHasTypes, NextKeepsTime, NextKeepsStep
<1>3. TypeInv /\ InTime /\ InStep /\ [NextTransfer]_transferVars =>
         [\A t \in Transfers : Succeeds(t) /\ t \notin excused' =>
             IF task[t].op.kind = "put" THEN t \in complete
                                       ELSE task[t].got = files[task[t].op.path]]_transferVars
    BY StepIsTrue
<1> QED BY <1>1, <1>2, <1>3, PTL DEF TransferSpec, TransferIsTrue
=============================================================================
