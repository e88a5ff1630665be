------------------------------ MODULE LogDownload ------------------------------
(***************************************************************************)
(* Listing and downloading the flight logs of one drone over a lossy link: *)
(* MAVLinkLogDownloader, its ChunkAssembler, and the futures and handlers  *)
(* of the MAVLink network that feed them.                                  *)
(*                                                                         *)
(* The drone is external: it answers a request with all the messages that  *)
(* it asks for.  Each of them may be lost or delivered late, in any order; *)
(* what a drone does not send because another request came is lost, too.   *)
(* Data are counted in the blocks of LOG_DATA packets (90 bytes).          *)
(***************************************************************************)
EXTENDS Integers, Sequences, FiniteSets

CONSTANTS
    Logs,           \* ids of the logs on the drone
    Size,           \* number of blocks of each log
    MaxBlocks,      \* size of the longest log
    MaxRange,       \* blocks that are requested at once (512)
    QueueCapacity,  \* size of the queue of messages to process (128)
    Retries,        \* retries of a request (5)
    None            \* no message, no block, no log

ASSUME LogsAssumption == IsFiniteSet(Logs) /\ Logs \cap {"idle", "list"} = {}
ASSUME SizeAssumption ==
    /\ MaxBlocks \in Nat
    /\ Size \in [Logs -> 0 .. MaxBlocks]
ASSUME CapacityAssumption == {MaxRange, QueueCapacity} \subseteq Nat \ {0}
ASSUME RetriesAssumption == Retries \in Nat
ASSUME NoneAssumption == None \notin Logs \cup Nat

VARIABLES
    op,         \* what is in progress: nothing, a list or the download of a log
    at,         \* where its task waits
    retries,    \* retries that _send_and_wait() has left
    future,     \* the message that resolved the future of _send_and_wait()
    queue,      \* _message_channel
    air,        \* external: messages of the drone that are on their way
    entry,      \* the log whose metadata tells the size of the download
    got,        \* blocks that the ChunkAssembler has flushed or keeps
    flushed,    \* _num_flushed
    range,      \* the range that was requested last
    listed,     \* logs that the listing has found
    result,     \* what the last operation returned
    mixed       \* what was taken from messages of another log (history)

taskVars == <<op, at, retries>>
chunkVars == <<entry, got, flushed, range>>
vars == <<taskVars, future, queue, air, chunkVars, listed, result, mixed>>

-----------------------------------------------------------------------------
Offsets == 0 .. MaxBlocks
Block == [log : Logs, ofs : Offsets]
BlockOf(l, k) == [log |-> l, ofs |-> k]
DataOf(l, from, to) ==
    {[type |-> "data", log |-> l, ofs |-> k] : k \in from .. (IF to < Size[l] THEN to ELSE Size[l]) - 1}
EntryOf(l) == [type |-> "entry", log |-> l, ofs |-> 0]
Message == [type : {"data", "entry"}, log : Logs, ofs : Offsets]

Content(l) == [k \in 0 .. Size[l] - 1 |-> BlockOf(l, k)]
Nothing == [k \in Offsets |-> None]

\* Results: a list of logs, a log (the id that was asked for, the id in its
\* metadata, its body), an error.
NoResult == [kind |-> "none"]
Failed == [kind |-> "failed"]

TypeOK ==
    /\ op \in {"idle", "list"} \cup Logs
    /\ at \in {"nowhere", "entry", "data", "rest"}
    /\ retries \in 0 .. Retries
    /\ future \in Message \cup {None}
    /\ queue \in Seq(Message) /\ Len(queue) <= QueueCapacity
    /\ air \subseteq Message
    /\ entry \in Logs \cup {None}
    /\ got \in [Offsets -> Block \cup {None}]
    /\ flushed \in Offsets
    /\ range \in [from : Offsets, to : Offsets]
    /\ listed \subseteq Logs
    /\ mixed \subseteq {"entry", "data"}

Init ==
    /\ op = "idle" /\ at = "nowhere" /\ retries = Retries
    /\ future = None /\ queue = <<>> /\ air = {}
    /\ entry = None /\ got = Nothing /\ flushed = 0
    /\ range = [from |-> 0, to |-> 0]
    /\ listed = {} /\ result = NoResult /\ mixed = {}

-----------------------------------------------------------------------------
(* The link and the drone.                                                 *)

\* A request goes out; it may be lost, and so may some of the answers.
Ask(answers) ==
    \E arriving \in SUBSET answers : air' = air \cup arriving

\* Broken: put into the queue whether or not there is room for it.
QueuedAnyhow(m) == Append(queue, m)

\* handle_message_log_data(), handle_message_log_entry(): dropped when full.
Queued(m) == IF Len(queue) < QueueCapacity THEN Append(queue, m) ELSE queue

\* The types of the futures that wait for a message in expect_packet().
Expected == CASE at = "entry" -> {"entry"} [] at = "data" -> {"data"} [] OTHER -> {}

\* _handle_inbound_messages(): the future is resolved, then the handler is called.
Deliver(m) ==
    /\ m \in air
    /\ air' = air \ {m}
    /\ future' = IF m.type \in Expected /\ future = None THEN m ELSE future
    /\ queue' = IF op = "idle" THEN queue ELSE Queued(m)
    /\ UNCHANGED <<taskVars, chunkVars, listed, result, mixed>>

-----------------------------------------------------------------------------
(* The chunk assembler.                                                    *)

\* Broken: the blocks that are waiting behind a gap are not looked at.
GapAfterNext(g, n) == IF g[n] = None THEN n ELSE n + 1

\* The end of the blocks without gaps that start at n.
GapAfter(g, n) ==
    CHOOSE k \in n .. MaxBlocks :
        /\ k = MaxBlocks \/ g[k] = None
        /\ \A j \in n .. k - 1 : g[j] # None

\* Broken: a block behind a gap is appended to what is there.
AddChunkAtEnd(m) ==
    IF m.ofs < flushed
    THEN UNCHANGED <<got, flushed>>
    ELSE /\ got' = [got EXCEPT ![flushed] = BlockOf(m.log, m.ofs)]
         /\ flushed' = flushed + 1

\* add_chunk(): of two blocks with one offset, either may be in front.
AddChunk(m) ==
    IF m.ofs < flushed
    THEN UNCHANGED <<got, flushed>>
    ELSE /\ \E b \in {BlockOf(m.log, m.ofs), got[m.ofs]} \ {None} :
               got' = [got EXCEPT ![m.ofs] = b]
         /\ flushed' = GapAfter(got', flushed)

\* get_next_range(): up to the first block that is kept behind the gap.
NextRange(g, n, size) ==
    LET kept == {k \in Offsets : k >= n /\ g[k] # None}
        end == IF kept = {} THEN size
               ELSE CHOOSE k \in kept : \A j \in kept : k <= j
    IN  [from |-> n, to |-> IF end < n + MaxRange THEN end ELSE n + MaxRange]

-----------------------------------------------------------------------------
(* Operations.                                                             *)

\* The operation is over; the drone is told to stop, which it may not hear.
End(r) ==
    /\ op' = "idle" /\ at' = "nowhere" /\ retries' = Retries
    /\ future' = None /\ queue' = <<>>
    /\ entry' = None /\ got' = Nothing /\ flushed' = 0
    /\ range' = [from |-> 0, to |-> 0]
    /\ listed' = {}
    /\ result' = r
    /\ UNCHANGED air

\* get_log() and get_log_list() are refused while another one is in progress;
\* a second list waits for the first.  Both ask for entries first.
Start(operation, answers) ==
    /\ op = "idle"
    /\ op' = operation /\ at' = "entry"
    /\ Ask(answers)
    /\ result' = NoResult /\ mixed' = {}
    /\ UNCHANGED <<retries, future, queue, chunkVars, listed>>

GetLog(l) == Start(l, {EntryOf(l)})
GetLogList == Start("list", {EntryOf(l) : l \in Logs})

\* The messages that the last request asked for.
Answers ==
    CASE at = "data" -> DataOf(op, range.from, range.to)
      [] at = "entry" /\ op = "list" -> {EntryOf(l) : l \in Logs}
      [] at = "entry" /\ op # "list" -> {EntryOf(op)}

\* _send_and_wait(): no response in time.
Resend ==
    /\ at \in {"entry", "data"} /\ future = None
    /\ retries > 0
    /\ retries' = retries - 1
    /\ Ask(Answers)
    /\ UNCHANGED <<op, at, future, queue, chunkVars, listed, result, mixed>>

GiveUp ==
    /\ at \in {"entry", "data"} /\ future = None
    /\ retries = 0
    /\ End(Failed)
    /\ UNCHANGED mixed

\* The user cancels the operation, or its deadline passes.
Cancel ==
    /\ op # "idle"
    /\ End(NoResult)
    /\ UNCHANGED mixed

\* The metadata are those of the first entry, whatever log it is about.
GotMetadata ==
    /\ op \in Logs /\ at = "entry" /\ future # None
    /\ entry' = future.log
    /\ mixed' = IF future.log # op THEN {"entry"} ELSE {}
    /\ at' = "rest" /\ future' = None
    /\ UNCHANGED <<op, retries, queue, air, got, flushed, range, listed, result>>

\* A message with data is processed; its log is compared with the one that is
\* being downloaded, and then the block is taken all the same.
Process(m) ==
    /\ AddChunk(m)
    /\ mixed' = IF m.log # op /\ got' # got THEN mixed \cup {"data"} ELSE mixed

GotData ==
    /\ at = "data" /\ future # None
    /\ Process(future)
    /\ at' = "rest" /\ future' = None
    /\ UNCHANGED <<op, retries, queue, air, entry, range, listed, result>>

\* rx.receive() in the inner loop of a download
ReceiveData ==
    /\ op \in Logs /\ at = "rest"
    /\ flushed < range.to
    /\ queue # <<>>
    /\ queue' = Tail(queue)
    /\ IF Head(queue).type = "data" THEN Process(Head(queue))
                                   ELSE UNCHANGED <<got, flushed, mixed>>
    /\ UNCHANGED <<taskVars, future, air, entry, range, listed, result>>

\* Broken: a range that does not arrive is never requested again.
RangeIsComplete == flushed >= range.to

\* The inner loop ends: the range is there, or nothing came for 3 seconds.
RangeIsOver == flushed >= range.to \/ queue = <<>>

RequestRange ==
    /\ op \in Logs /\ at = "rest"
    /\ RangeIsOver
    /\ flushed < Size[entry]
    /\ range' = NextRange(got, flushed, Size[entry])
    /\ at' = "data" /\ retries' = Retries
    /\ Ask(DataOf(op, range'.from, range'.to))
    /\ UNCHANGED <<op, future, queue, entry, got, flushed, listed, result, mixed>>

ReturnLog ==
    /\ op \in Logs /\ at = "rest"
    /\ RangeIsOver
    /\ flushed >= Size[entry]
    /\ End([kind |-> "log", log |-> op, meta |-> entry,
            body |-> [k \in 0 .. flushed - 1 |-> got[k]]])
    /\ UNCHANGED mixed

\* The first entry of a list, and the entries after it.
GotEntry ==
    /\ op = "list" /\ at = "entry" /\ future # None
    /\ listed' = {future.log}
    /\ at' = "rest" /\ future' = None
    /\ UNCHANGED <<op, retries, queue, air, chunkVars, result, mixed>>

\* The inner loop waits for as long as entries are missing: when it waits in
\* vain for 3 seconds, it waits again, and nothing is requested again.
ReceiveEntry ==
    /\ op = "list" /\ at = "rest"
    /\ Cardinality(listed) < Cardinality(Logs)
    /\ queue # <<>>
    /\ queue' = Tail(queue)
    /\ listed' = listed \cup {m.log : m \in {n \in {Head(queue)} : n.type = "entry"}}
    /\ UNCHANGED <<taskVars, future, air, chunkVars, result, mixed>>

ReturnList ==
    /\ op = "list" /\ at = "rest"
    /\ Cardinality(listed) >= Cardinality(Logs)
    /\ End([kind |-> "list", logs |-> listed])
    /\ UNCHANGED mixed

-----------------------------------------------------------------------------
TaskStep ==
    \/ Resend \/ GiveUp
    \/ GotMetadata \/ GotData \/ ReceiveData \/ RequestRange \/ ReturnLog
    \/ GotEntry \/ ReceiveEntry \/ ReturnList

\* The drone is asked for logs that it has.
User == GetLogList \/ Cancel \/ \E l \in Logs : GetLog(l)

Next == TaskStep \/ User \/ \E m \in air : Deliver(m)

Spec == Init /\ [][Next]_vars

\* The task of an operation is scheduled and the clock goes on; the link may
\* lose everything.
FairSpec == Spec /\ WF_vars(TaskStep)

-----------------------------------------------------------------------------
(* Properties.                                                             *)

\* Whatever the link loses, delays, reorders and repeats, and however often
\* the queue overflows: a log that is returned is the log on the drone, and a
\* list has all logs, provided that no message of another log was used.
ResultIsTrue ==
    /\ result.kind = "log" /\ mixed = {} =>
           result.meta = result.log /\ result.body = Content(result.log)
    /\ result.kind = "list" => result.logs = Logs

\* A request of data asks for one block at least, from the first block that was
\* not written yet, and only for blocks that are missing.  It stops for three
\* reasons only: there are as many as may be requested at once, the log ends, or
\* the next block is there already (get_next_range(), add_chunk()).
RequestsWhatIsMissing ==
    [][RequestRange =>
          /\ range'.from = flushed /\ range'.to > flushed
          /\ \A k \in range'.from .. range'.to - 1 : got[k] = None
          /\ range'.to <= flushed + MaxRange
          /\ \/ range'.to \in {flushed + MaxRange, Size[entry]}
             \/ got[range'.to] # None]_vars

\* Every download comes to an end, with a log or an error: the retries are
\* limited, and every response to a request brings the download forward.
EveryDownloadEnds == \A l \in Logs : op = l ~> op # l
=============================================================================
