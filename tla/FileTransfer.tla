------------------------------ MODULE FileTransfer ------------------------------
(***************************************************************************)
(* Uploading and downloading files of one drone by MAVFTP: the MAVFTP and  *)
(* MAVFTPSession objects of ext/mavlink/ftp.py, of which every transfer    *)
(* has its own.  A request is sent until a reply comes that has the next   *)
(* sequence number; transfers start at a random number and know nothing of *)
(* each other, though they share the sessions of the drone.                *)
(*                                                                         *)
(* The drone and the link are external: requests and replies may be lost   *)
(* or delayed for any time, and a repeated request is handled again.  Data *)
(* are counted in chunks of the size that is requested at once (239        *)
(* bytes); the last chunk of a file is shorter.                            *)
(***************************************************************************)
EXTENDS Naturals, Sequences, FiniteSets

CONSTANTS
    Transfers,      \* uploads and downloads
    Operations,     \* what each of them may do
    Paths,          \* files of the drone
    Chunks,         \* number of chunks of a file
    Sessions,       \* ids of the sessions of the drone, natural numbers
    SeqModulus,     \* sequence numbers are below this (65536)
    Starts,         \* the sequence numbers that each transfer may start with
    MaxRetries,     \* how often a request is repeated (600)
    MaxRequests,    \* bound: requests on their way to the drone
    MaxReplies,     \* bound: replies on their way to the server
    MaxConcurrent,  \* bound: transfers in progress
    Absent          \* no session, no operation

\* get() compares no checksum.
ASSUME OperationsAssumption ==
    /\ Operations \in [Transfers -> SUBSET [kind : {"put", "get"}, path : Paths, check : BOOLEAN]]
    /\ \A t \in Transfers : \A op \in Operations[t] : op.kind = "get" => ~op.check
ASSUME NumbersAssumption ==
    /\ {Chunks, SeqModulus, MaxRequests, MaxReplies, MaxConcurrent} \subseteq Nat \ {0}
    /\ MaxRetries \in Nat
    /\ Sessions \subseteq Nat /\ 0 \in Sessions
    /\ Starts \in [Transfers -> SUBSET (0 .. SeqModulus - 1)]
Session == [path : Paths, mode : {"r", "w"}]
ASSUME AbsentAssumption == Absent \notin Transfers \cup Paths \cup Session

VARIABLES
    task,       \* each transfer: where it waits, and its local variables
    requests,   \* external: requests on their way to the drone
    replies,    \* external: replies on their way to the server
    files,      \* external: the files of the drone
    sessions,   \* external: the open sessions of the drone
    complete,   \* history: uploads whose file was complete at some moment
    excused     \* history: transfers that took a reply to another's request, or
                \* whose session or file another touched and that do not check

drone == <<files, sessions>>
history == <<complete, excused>>
transferVars == <<task, requests, replies, drone, history>>

-----------------------------------------------------------------------------
Chunk == (Transfers \cup Paths \cup {Absent}) \X (1 .. Chunks)
FileContent(owner) == [k \in 1 .. Chunks |-> <<owner, k>>]
Data(t) == FileContent(t)

RequestKinds == {"create", "open", "write", "read", "close", "crc", "reset"}
Busy == {t \in Transfers : task[t].at \in RequestKinds}
Unknown == [kind |-> Absent, path |-> Absent, check |-> FALSE]

AllOperations == UNION {Operations[t] : t \in Transfers}
Task == [op : AllOperations \cup {Unknown},
         at : RequestKinds \cup {"new", "done"},
         seq : 0 .. SeqModulus - 1, session : Sessions, ofs : 0 .. Chunks + 1,
         got : Seq(Chunk), retries : 0 .. MaxRetries, outcome : {"none", "ok", "failed"}]
Request == [from : Transfers, seq : 0 .. SeqModulus - 1, op : RequestKinds, path : Paths \cup {Absent},
            session : Sessions, ofs : 0 .. Chunks + 1]
Reply == [to : Transfers, seq : 0 .. SeqModulus - 1, type : {"ack", "nak", "eof"},
          session : Sessions, data : Seq(Chunk)]

TransferTypeOK ==
    /\ \A t \in Transfers : task[t] \in Task
    /\ requests \subseteq Request /\ replies \subseteq Reply
    /\ files \in [Paths -> Seq(Chunk)]
    /\ sessions \in [Sessions -> Session \cup {Absent}]
    /\ complete \subseteq Busy /\ excused \subseteq Transfers

Idle == [op |-> Unknown, at |-> "new", seq |-> 0, session |-> 0, ofs |-> 0,
         got |-> <<>>, retries |-> MaxRetries, outcome |-> "none"]

InitTransfers ==
    /\ task = [t \in Transfers |-> Idle]
    /\ requests = {} /\ replies = {}
    /\ files = [p \in Paths |-> FileContent(p)]
    /\ sessions = [s \in Sessions |-> Absent]
    /\ complete = {} /\ excused = {}

-----------------------------------------------------------------------------
(* The link.                                                               *)

\* Message m is sent, and what is under way may get lost.
Travels(air, m, capacity) == {a \in SUBSET (air \cup {m}) : Cardinality(a) <= capacity}
Asks(m) == requests' \in Travels(requests, m, MaxRequests)

\* The request that task s of transfer t sends.
RequestOf(t, s) ==
    [from |-> t, seq |-> s.seq, op |-> s.at, session |-> s.session, ofs |-> s.ofs,
     path |-> IF s.at \in {"create", "open", "crc"} THEN s.op.path ELSE Absent]

\* Broken: sequence numbers grow beyond 16 bits.
NextSeqUnbounded(n) == n + 1

NextSeq(n) == (n + 1) % SeqModulus

\* matches_sequence_no() for what task s expects.
Matches(s, r) == s.at \in RequestKinds /\ r.seq = NextSeq(s.seq)

\* _handle_inbound_messages(): task t takes reply r, which is there for every
\* other task that it matches, too.
Takes(t, r) ==
    replies' = IF \E o \in Transfers \ {t} : Matches(task[o], r) THEN replies ELSE replies \ {r}

-----------------------------------------------------------------------------
(* The drone.                                                              *)

\* It answers request m with reply r, which may get lost; its files and
\* sessions are f and s from now on.
Answer(m, r, f, s) ==
    /\ requests' = requests \ {m}
    /\ replies' \in Travels(replies, r, MaxReplies)
    /\ files' = f /\ sessions' = s
    /\ complete' = complete \cup
           {t \in Busy : task[t].op.kind = "put" /\ f[task[t].op.path] = Data(t)}
    /\ LET closed == {i \in Sessions : sessions[i] # Absent /\ s[i] = Absent}
           Disturbs(e) == \/ f[e.op.path] # files[e.op.path]
                          \/ e.at \in {"create", "open"} /\ closed # {}
                          \/ e.at \in {"write", "read"} /\ e.session \in closed
       IN excused' = excused \cup
              {t \in Busy \ {m.from} : /\ task[t].op # Unknown /\ ~task[t].op.check
                                        /\ Disturbs(task[t])}
    /\ UNCHANGED task

ReplyTo(m, type, session, data) ==
    [to |-> m.from, seq |-> NextSeq(m.seq), type |-> type, session |-> session, data |-> data]
Refuse(m) == Answer(m, ReplyTo(m, "nak", m.session, <<>>), files, sessions)

OpenIn(i, mode) == sessions[i] # Absent /\ sessions[i].mode = mode

\* A file is opened in a free session; if it is open already, because the
\* request is repeated, the reply may be, too.
HandleOpen(m) ==
    LET mode == IF m.op = "create" THEN "w" ELSE "r"
        file == IF m.op = "create" THEN <<>> ELSE files[m.path]
        isOpen(i) == sessions[i] # Absent /\ sessions[i].path = m.path
    IN /\ m.op \in {"create", "open"}
       /\ \/ Refuse(m)
          \/ \E i \in Sessions :
                /\ isOpen(i) /\ OpenIn(i, mode)
                /\ Answer(m, ReplyTo(m, "ack", i, <<>>), files, sessions)
          \/ \E i \in Sessions :
                /\ sessions[i] = Absent /\ \A j \in Sessions : ~isOpen(j)
                /\ Answer(m, ReplyTo(m, "ack", i, <<>>), [files EXCEPT ![m.path] = file],
                          [sessions EXCEPT ![i] = [path |-> m.path, mode |-> mode]])

\* File f after chunk c was written at offset k; a gap is filled.
Written(f, k, c) ==
    [j \in 1 .. (IF Len(f) > k THEN Len(f) ELSE k + 1) |->
        IF j = k + 1 THEN c ELSE IF j <= Len(f) THEN f[j] ELSE <<Absent, 1>>]

HandleWrite(m) ==
    /\ m.op = "write"
    /\ IF OpenIn(m.session, "w")
       THEN LET p == sessions[m.session].path
            IN Answer(m, ReplyTo(m, "ack", m.session, <<>>),
                      [files EXCEPT ![p] = Written(@, m.ofs, Data(m.from)[m.ofs + 1])], sessions)
       ELSE Refuse(m)

HandleRead(m) ==
    /\ m.op = "read"
    /\ IF OpenIn(m.session, "r")
       THEN LET f == files[sessions[m.session].path]
            IN IF m.ofs < Len(f)
               THEN Answer(m, ReplyTo(m, "ack", m.session, <<f[m.ofs + 1]>>), files, sessions)
               ELSE Answer(m, ReplyTo(m, "eof", m.session, <<>>), files, sessions)
       ELSE Refuse(m)

\* A session that is not open may be refused or not.
HandleClose(m) ==
    /\ m.op = "close"
    /\ \/ sessions[m.session] = Absent /\ Refuse(m)
       \/ Answer(m, ReplyTo(m, "ack", m.session, <<>>), files,
                 [sessions EXCEPT ![m.session] = Absent])

HandleCRC(m) ==
    /\ m.op = "crc"
    /\ Answer(m, ReplyTo(m, "ack", m.session, files[m.path]), files, sessions)

HandleReset(m) ==
    /\ m.op = "reset"
    /\ Answer(m, ReplyTo(m, "ack", m.session, <<>>), files, [i \in Sessions |-> Absent])

Handle(m) ==
    \/ HandleOpen(m) \/ HandleWrite(m) \/ HandleRead(m)
    \/ HandleClose(m) \/ HandleCRC(m) \/ HandleReset(m)

-----------------------------------------------------------------------------
(* Transfers.                                                              *)

\* Transfer t goes on with task s, which sends its next request, with the next
\* sequence number but one: the reply has used the one between.
SendAndWait(t, s) ==
    /\ task' = [task EXCEPT ![t] = [s EXCEPT !.seq = NextSeq(NextSeq(@)), !.retries = MaxRetries]]
    /\ Asks(RequestOf(t, task'[t]))
    /\ UNCHANGED <<drone, complete>>

\* What is left to do for task s: to close its session, or its connection.
Closing(s, outcome) ==
    IF outcome = "failed" THEN [Idle EXCEPT !.at = "close", !.seq = s.seq, !.session = s.session,
                                            !.outcome = "failed"]
                          ELSE [s EXCEPT !.at = "close", !.ofs = 0]
Resetting(s, outcome) == [Idle EXCEPT !.at = "reset", !.seq = s.seq, !.outcome = outcome]

\* The connection is closed, and the transfer is over; how it ended is known
\* since it began to close the connection.
Finish(t) ==
    /\ task' = [task EXCEPT ![t] = [Idle EXCEPT !.at = "done"]]
    /\ complete' = complete \ {t}
    /\ UNCHANGED <<requests, drone>>

\* put_gen() and get() begin with a request that opens the file.
StartTransfer(t, op, n) ==
    /\ task[t].at = "new"
    /\ Cardinality(Busy) < MaxConcurrent
    /\ LET s == [task[t] EXCEPT !.op = op, !.seq = n,
                                !.at = IF op.kind = "put" THEN "create" ELSE "open"]
       IN /\ task' = [task EXCEPT ![t] = s]
          /\ Asks(RequestOf(t, s))
    /\ UNCHANGED <<replies, drone, history>>

\* An exception: a session that is open is closed, and then the connection,
\* whose own failure ends the transfer.
Fail(t) ==
    LET s == task[t]
    IN CASE s.at \in {"write", "read"} -> SendAndWait(t, Closing(s, "failed"))
         [] s.at \in {"create", "open", "close", "crc"} -> SendAndWait(t, Resetting(s, "failed"))
         [] s.at = "reset" -> Finish(t)

\* Reply r, of one of the types, comes to transfer t, which is at this stage.
Got(t, r, stage, types) ==
    /\ task[t].at = stage
    /\ Matches(task[t], r)
    /\ r.type \in types
    /\ Takes(t, r)
    /\ excused' = IF r.to # t THEN excused \cup {t} ELSE excused

\* OperationNotAcknowledgedError
Refused(t, r) ==
    /\ \E stage \in RequestKinds :
          Got(t, r, stage, IF stage = "read" THEN {"nak"} ELSE {"nak", "eof"})
    /\ Fail(t)

Opened(t, r) ==
    /\ Got(t, r, "create", {"ack"}) \/ Got(t, r, "open", {"ack"})
    /\ SendAndWait(t, [task[t] EXCEPT !.session = r.session,
                           !.at = IF @ = "create" THEN "write" ELSE "read"])

\* The loop of put_gen(): the next chunk is written, if there is one.
ChunkWritten(t, r) ==
    /\ Got(t, r, "write", {"ack"})
    /\ SendAndWait(t, IF task[t].ofs + 1 < Chunks THEN [task[t] EXCEPT !.ofs = @ + 1]
                                                  ELSE Closing(task[t], "none"))

\* Shorter than what was requested, or nothing?
AtEnd(data) == data = <<>> \/ data[Len(data)][2] = Chunks

\* The loop of get(): the next chunk is read, unless this was the last one; as
\* a bound, nothing is read past Chunks.
ChunkRead(t, r) ==
    /\ Got(t, r, "read", {"ack", "eof"})
    /\ LET data == r.data
           last == AtEnd(data) \/ r.type = "eof" \/ task[t].ofs + Len(data) > Chunks
           s == [task[t] EXCEPT !.got = @ \o data]
       IN SendAndWait(t, IF last THEN Closing(s, "none") ELSE [s EXCEPT !.ofs = @ + Len(data)])

\* After an exception, with a checksum to compare, or done but for the reset.
SessionClosed(t, r) ==
    /\ Got(t, r, "close", {"ack"})
    /\ SendAndWait(t,
          CASE task[t].outcome = "failed" -> Resetting(task[t], "failed")
            [] task[t].outcome = "none" /\ task[t].op.check ->
                   [task[t] EXCEPT !.at = "crc", !.session = 0]
            [] task[t].outcome = "none" /\ ~task[t].op.check -> Resetting(task[t], "ok"))

\* Broken: the checksum is requested, but not compared.
SameChecksumAnyhow(t, data) == TRUE

\* The checksums of the two contents are equal only if the contents are.
SameChecksum(t, data) == data = Data(t)

Checked(t, r) ==
    /\ Got(t, r, "crc", {"ack"})
    /\ IF SameChecksum(t, r.data)
       THEN SendAndWait(t, Resetting(task[t], "ok"))
       ELSE Fail(t)

ConnectionClosed(t, r) ==
    /\ Got(t, r, "reset", {"ack"})
    /\ Finish(t)

\* Broken: the request is repeated for ever.
RepeatForEver(t) ==
    /\ task[t].at \in RequestKinds
    /\ Asks(RequestOf(t, task[t]))
    /\ UNCHANGED <<task, replies, drone, history>>

\* run_with_retries(): no reply in time, and the request is sent again ...
RepeatRequest(t) ==
    /\ task[t].at \in RequestKinds
    /\ task[t].retries > 0
    /\ task' = [task EXCEPT ![t].retries = @ - 1]
    /\ Asks(RequestOf(t, task[t]))
    /\ UNCHANGED <<replies, drone, history>>

\* ... or TooSlowError is raised; closing the connection just takes 10 s at most.
TimeOut(t) ==
    /\ task[t].at \in RequestKinds
    /\ task[t].retries = 0
    /\ IF task[t].at = "reset" THEN Finish(t) ELSE Fail(t)
    /\ UNCHANGED <<replies, excused>>

\* The command is cancelled: no request is sent any more, not even those that
\* close the session and the connection.
CancelTransfer(t) ==
    /\ t \in Busy
    /\ Finish(t)
    /\ UNCHANGED <<replies, excused>>

Receive(t, r) ==
    \/ Refused(t, r) \/ Opened(t, r) \/ ChunkWritten(t, r) \/ ChunkRead(t, r)
    \/ SessionClosed(t, r) \/ Checked(t, r) \/ ConnectionClosed(t, r)

Proceed(t) == RepeatRequest(t) \/ TimeOut(t) \/ \E r \in replies : Receive(t, r)

NextTransfer ==
    \/ \E t \in Transfers : \E op \in Operations[t], n \in Starts[t] : StartTransfer(t, op, n)
    \/ \E t \in Transfers : Proceed(t) \/ CancelTransfer(t)
    \/ \E m \in requests : Handle(m)

TransferSpec == InitTransfers /\ [][NextTransfer]_transferVars

\* trio schedules the task of a transfer, and time goes by; the link may lose
\* everything.
FairTransferSpec == TransferSpec /\ \A t \in Transfers : WF_transferVars(Proceed(t))

-----------------------------------------------------------------------------
(* Properties.                                                             *)

\* A transfer that ends well did what it says: an upload whose checksum was
\* compared had its file complete on the drone, whatever got lost or delayed,
\* was repeated or handled late, and whatever other transfers did to its
\* session and its file; an upload without a checksum, and a download, which
\* has the content of the file, are true if no other transfer came between.
\* None of this holds for one that took a reply meant for another transfer,
\* whose sequence number happened to be the same.
Succeeds(t) == task[t].outcome = "none" /\ task'[t].outcome = "ok"
TransferIsTrue ==
    [][\A t \in Transfers : Succeeds(t) /\ t \notin excused' =>
          IF task[t].op.kind = "put" THEN t \in complete
                                    ELSE task[t].got = files[task[t].op.path]]_transferVars

\* Every transfer ends, on a link that loses everything and when others keep
\* closing its session.
EveryTransferEnds == \A t \in Transfers : t \in Busy ~> t \notin Busy
=============================================================================
