-------------------------- MODULE CommandExecution --------------------------
(***************************************************************************)
(* The asynchronous command machinery of the server: the handlers of       *)
(* SkybrushServer that issue receipts, the message hub that delivers them, *)
(* CommandExecutionManager with its executor, cleanup and per-command      *)
(* tasks, and the notifications that go back to the clients.               *)
(*                                                                         *)
(* Trio runs one task at a time and switches only at checkpoints, so an    *)
(* action is the code between two checkpoints of one task.  A step of a    *)
(* driver's coroutine runs from the moment it was woken ("woken") to the   *)
(* next checkpoint ("running"), and a cancelled scope bites only at a      *)
(* checkpoint.  Time is abstracted to whether the deadline of a command    *)
(* lies ahead, has passed, or was lifted by a suspension.                  *)
(***************************************************************************)
EXTENDS Integers, FiniteSets

CONSTANTS
    Receipts,          \* receipt identifiers, each issued at most once
    Clients,           \* clients that may ask for commands
    OutboxCapacity,    \* room in the outbound queue of the hub (4096)
    ExecutorCapacity,  \* room in the queue of the executor (2048)
    MaxReports         \* bound: reports and suspensions of one command

ASSUME ConstantsAssumption ==
    /\ OutboxCapacity \in Nat
    /\ ExecutorCapacity \in Nat \ {0}
    /\ MaxReports \in Nat
    /\ IsFiniteSet(Receipts)

VARIABLES
    owner,       \* the client each command is executed for
    dispatching, \* groups of receipts whose request is still being handled
    outbox,      \* messages in the outbound queue of the hub
    sending,     \* groups of receipts whose response is being sent
    notifying,   \* groups of receipts whose response was sent and whose
                 \* when_sent() callbacks are being called
    entries,     \* receipts that the manager knows about (_entries)
    outcome,     \* cancelled / finished timestamps of a command
    notified,    \* whether client_notified is set
    deadline,    \* _deadline, relative to the current time
    scope,       \* whether _cancel_scope has been cancelled
    suspension,  \* _suspension_future
    task,        \* where the awaitable of the command is
    reports,     \* number of reports and suspensions so far
    known,       \* history: the response with the receipt was delivered
    verdicts     \* history: how many times a verdict was announced

hubVars == <<dispatching, outbox, sending, notifying>>
statusVars == <<entries, outcome, notified, deadline, scope, suspension>>
vars == <<owner, dispatching, outbox, sending, notifying, entries,
          outcome, notified, deadline, scope, suspension, task, reports,
          known, verdicts>>

-----------------------------------------------------------------------------
(* Messages in the outbound queue.                                         *)

Response(R) == [type |-> "response", ids |-> R, n |-> 0]
AsyncSt(r) == [type |-> "ASYNC-ST", ids |-> {r}, n |-> reports[r] + 1]
AsyncResp(r) == [type |-> "ASYNC-RESP", ids |-> {r}, n |-> 0]
AsyncTimeout(R) == [type |-> "ASYNC-TIMEOUT", ids |-> R, n |-> 0]

Message ==
    [type : {"response"}, ids : SUBSET Receipts, n : {0}] \cup
    [type : {"ASYNC-ST", "ASYNC-RESP", "ASYNC-TIMEOUT"}, ids : SUBSET Receipts,
     n : 0..MaxReports]

\* enqueue_message() for each message of ms: those that find the queue full
\* are dropped.
Enqueue(ms) ==
    LET room == OutboxCapacity - Cardinality(outbox) IN
    \E kept \in SUBSET ms :
        /\ \/ kept = ms /\ Cardinality(ms) <= room
           \/ Cardinality(ms) > room /\ Cardinality(kept) = room
        /\ outbox' = outbox \cup kept

-----------------------------------------------------------------------------
InProgress(r) == outcome[r] = "inProgress"

Init ==
    /\ owner \in [Receipts -> Clients]
    /\ dispatching = {} /\ outbox = {} /\ sending = {} /\ notifying = {}
    /\ entries = {}
    /\ outcome = [r \in Receipts |-> "none"]
    /\ notified = [r \in Receipts |-> FALSE]
    /\ deadline = [r \in Receipts |-> "lifted"]
    /\ scope = [r \in Receipts |-> FALSE]
    /\ suspension = [r \in Receipts |-> "none"]
    /\ task = [r \in Receipts |-> "none"]
    /\ reports = [r \in Receipts |-> 0]
    /\ known = [r \in Receipts |-> FALSE]
    /\ verdicts = [r \in Receipts |-> [resp |-> 0, timeout |-> 0]]

-----------------------------------------------------------------------------
(* From the request to the executor.                                       *)

\* dispatch_to_uav(s): a driver returned an awaitable for each UAV in R; the
\* receipts D of the drivers asked before may be waiting in the same response.
NewReceipts(R, D) ==
    /\ R # {}
    /\ \A r \in R : outcome[r] = "none"
    /\ D \in dispatching \cup {{}}
    /\ \A r, s \in D \cup R : owner[r] = owner[s]
    /\ entries' = entries \cup R
    /\ outcome' = [r \in Receipts |-> IF r \in R THEN "inProgress" ELSE outcome[r]]
    /\ deadline' = [r \in Receipts |-> IF r \in R THEN "ahead" ELSE deadline[r]]
    /\ task' = [r \in Receipts |-> IF r \in R THEN "held" ELSE task[r]]
    /\ dispatching' = (dispatching \ {D}) \cup {D \cup R}
    /\ UNCHANGED <<owner, outbox, sending, notifying, notified, scope,
                   suspension, reports, known, verdicts>>

\* The handler is done with every driver: the hub enqueues the response, or
\* drops it and the awaitables with it.
RespondToRequest(R) ==
    /\ R \in dispatching
    /\ dispatching' = dispatching \ {R}
    /\ Enqueue({Response(R)})
    /\ UNCHANGED <<owner, sending, notifying, statusVars, task, reports,
                   known, verdicts>>

\* MessageHub.run() takes a message and starts the task that sends it.  What
\* happens to a notification from here on has no effect on the server.
HubTake(m) ==
    /\ m \in outbox
    /\ outbox' = outbox \ {m}
    /\ sending' = IF m.type = "response" THEN sending \cup {m.ids} ELSE sending
    /\ UNCHANGED <<owner, dispatching, notifying, statusVars, task,
                   reports, known, verdicts>>

\* _send_message(): the channel accepted the response.
SendResponse(R) ==
    /\ R \in sending
    /\ sending' = sending \ {R}
    /\ notifying' = notifying \cup {R}
    /\ known' = [r \in Receipts |-> known[r] \/ r \in R]
    /\ UNCHANGED <<owner, dispatching, outbox, statusVars, task, reports,
                   verdicts>>

\* Broken: calls the when_sent() callbacks although the channel failed.
LoseResponseButNotify(R) ==
    /\ R \in sending
    /\ sending' = sending \ {R}
    /\ notifying' = notifying \cup {R}
    /\ UNCHANGED <<owner, dispatching, outbox, statusVars, task, reports, known, verdicts>>

\* _send_message(): the client is gone, a middleware swallowed the response
\* or the channel failed; the awaitables are never looked at again.
LoseResponse(R) ==
    /\ R \in sending
    /\ sending' = sending \ {R}
    /\ UNCHANGED <<owner, dispatching, outbox, notifying, statusVars, task,
                   reports, known, verdicts>>

Queued == {r \in Receipts : task[r] = "queued"}

\* The group R of a sent response without its member r.
NotifyRest(R, r) == (notifying \ {R}) \cup ({R \ {r}} \ {{}})

\* FlockwaveResponse._notify_sent() calls mark_as_clients_notified() for one
\* more receipt, and waits while the queue of the executor is full.
MarkAsClientsNotified(R, r) ==
    /\ R \in notifying
    /\ r \in R
    /\ \A s \in R : task[s] # "blocked"
    /\ IF r \notin entries
       THEN /\ notifying' = NotifyRest(R, r)
            /\ UNCHANGED <<notified, task>>
       ELSE /\ notified' = [notified EXCEPT ![r] = TRUE]
            /\ \/ /\ Cardinality(Queued) < ExecutorCapacity
                  /\ task' = [task EXCEPT ![r] = "queued"]
                  /\ notifying' = NotifyRest(R, r)
               \/ /\ Cardinality(Queued) >= ExecutorCapacity
                  /\ task' = [task EXCEPT ![r] = "blocked"]
                  /\ UNCHANGED notifying
    /\ UNCHANGED <<owner, dispatching, outbox, sending, entries, outcome,
                   deadline, scope, suspension, reports, known, verdicts>>

\* _run_execution() receives a command, which lets a blocked sender go on,
\* and starts the task of the command.
ExecutorReceive(r) ==
    /\ task[r] = "queued"
    /\ \/ /\ \A s \in Receipts : task[s] # "blocked"
          /\ task' = [task EXCEPT ![r] = "starting"]
          /\ UNCHANGED notifying
       \/ \E s \in Receipts, S \in notifying :
             /\ task[s] = "blocked"
             /\ s \in S
             /\ task' = [task EXCEPT ![r] = "starting", ![s] = "queued"]
             /\ notifying' = NotifyRest(S, s)
    /\ UNCHANGED <<owner, dispatching, outbox, sending, statusVars, reports,
                   known, verdicts>>

-----------------------------------------------------------------------------
(* The end of a command.                                                   *)

\* Broken: does not look whether the cleanup has removed the entry.
FinishAnnouncesExpired(r, exit, out) ==
    IF ~notified[r] THEN "nothing"
    ELSE IF exit = "caught" /\ out = "inProgress" THEN "timeout"
    ELSE IF exit # "caught" /\ out = "finished" THEN "resp"
    ELSE "nothing"

\* Broken: takes every command that was not stopped by its scope for finished.
FinishAnnouncesAnyEnd(r, exit, out) ==
    IF r \notin entries \/ ~notified[r] THEN "nothing"
    ELSE IF exit = "caught" /\ out = "inProgress" THEN "timeout"
    ELSE IF exit # "caught" THEN "resp"
    ELSE "nothing"

\* What _finish() announces when the outcome of the command is out and the
\* cancel scope has caught a Cancelled exception or not.
FinishAnnounces(r, exit, out) ==
    IF r \notin entries \/ ~notified[r] THEN "nothing"
    ELSE IF exit = "caught" /\ out = "inProgress" THEN "timeout"
    ELSE IF exit # "caught" /\ out = "finished" THEN "resp"
    ELSE "nothing"

\* _finish(): the task of r ends with the outcome out.
Finish(r, exit, out) ==
    LET announced == FinishAnnounces(r, exit, out) IN
    /\ task' = [task EXCEPT ![r] = "done"]
    /\ entries' = entries \ {r}
    /\ outcome' = [outcome EXCEPT ![r] =
                      IF r \in entries /\ exit = "caught" /\ out = "inProgress"
                      THEN "timedOut" ELSE out]
    /\ \/ /\ announced = "timeout"
          /\ verdicts' = [verdicts EXCEPT ![r].timeout = @ + 1]
          /\ Enqueue({AsyncTimeout({r})})
       \/ /\ announced = "resp"
          /\ verdicts' = [verdicts EXCEPT ![r].resp = @ + 1]
          /\ Enqueue({AsyncResp(r)})
       \/ /\ announced = "nothing"
          /\ UNCHANGED <<verdicts, outbox>>

\* Broken: swaps how the command was left and its outcome.
FinishAfterErrorSwapped(r) == Finish(r, outcome[r], "normal")

\* A RuntimeError of the command machinery ends the task of a command that is
\* no longer in progress; mark_as_finished() then has no effect.
FinishAfterError(r) == Finish(r, "normal", outcome[r])

-----------------------------------------------------------------------------
(* The task of a command (_wait_for and _wait_for_generator).              *)

\* The task enters the cancel scope, which is cancelled at once if its
\* deadline is over, and the coroutine of the driver starts.
StartTask(r) ==
    /\ task[r] = "starting"
    /\ task' = [task EXCEPT ![r] = "woken"]
    /\ scope' = [scope EXCEPT ![r] = @ \/ deadline[r] = "passed"]
    /\ UNCHANGED <<owner, hubVars, entries, outcome, notified, deadline, suspension,
                   reports, known, verdicts>>

\* The coroutine waits for something.
Park(r) ==
    /\ task[r] = "woken"
    /\ task' = [task EXCEPT ![r] = "running"]
    /\ UNCHANGED <<owner, hubVars, statusVars, reports, known, verdicts>>

\* What the coroutine waits for happened.  Trio expires the deadlines before
\* it gives the woken task its turn.
Wake(r) ==
    /\ task[r] = "running"
    /\ ~scope[r]
    /\ task' = [task EXCEPT ![r] = "woken"]
    /\ scope' = [scope EXCEPT ![r] = deadline[r] = "passed"]
    /\ UNCHANGED <<owner, hubVars, entries, outcome, notified, deadline, suspension,
                   reports, known, verdicts>>

\* The generator yields a Progress object.
Report(r) ==
    /\ task[r] = "woken"
    /\ reports[r] < MaxReports
    /\ \/ /\ InProgress(r)
          /\ deadline' = [deadline EXCEPT ![r] = "ahead"]
          /\ reports' = [reports EXCEPT ![r] = @ + 1]
          /\ Enqueue({AsyncSt(r)})
          /\ UNCHANGED <<task, entries, outcome, verdicts>>
       \/ /\ ~InProgress(r)
          /\ FinishAfterError(r)
          /\ UNCHANGED <<deadline, reports>>
    /\ UNCHANGED <<owner, dispatching, sending, notifying, notified, scope,
                   suspension, known>>

\* The generator yields a Suspend object.
Suspend(r) ==
    /\ task[r] = "woken"
    /\ reports[r] < MaxReports
    /\ suspension' = [suspension EXCEPT ![r] = "waiting"]
    /\ \/ /\ InProgress(r)
          /\ deadline' = [deadline EXCEPT ![r] = "lifted"]
          /\ reports' = [reports EXCEPT ![r] = @ + 1]
          /\ task' = [task EXCEPT ![r] = "suspended"]
          /\ Enqueue({AsyncSt(r)})
          /\ UNCHANGED <<entries, outcome, verdicts>>
       \/ /\ ~InProgress(r)
          /\ FinishAfterError(r)
          /\ UNCHANGED <<deadline, reports>>
    /\ UNCHANGED <<owner, dispatching, sending, notifying, notified, scope,
                   known>>

\* The awaitable returns a value or raises an exception, mark_as_finished().
Return(r) ==
    /\ task[r] = "woken"
    /\ Finish(r, "normal", IF InProgress(r) THEN "finished" ELSE outcome[r])
    /\ UNCHANGED <<owner, dispatching, sending, notifying, notified,
                   deadline, scope, suspension, reports, known>>

\* Cancelled is raised at the checkpoint where the coroutine waits.
CancelledWhileRunning(r) ==
    /\ task[r] = "running"
    /\ scope[r]
    /\ Finish(r, "caught", outcome[r])
    /\ UNCHANGED <<owner, dispatching, sending, notifying, notified,
                   deadline, scope, suspension, reports, known>>

\* Broken: leaves suspended() without a post_timeout.
NoPostTimeout(r) == deadline

\* suspended() sets a new deadline when it is left.
PostTimeout(r) == [deadline EXCEPT ![r] = "ahead"]

\* The future of the suspension is resolved.  Leaving suspended() restores
\* the deadline, which fails when the user has cancelled the command.
ContinueAfterResume(r) ==
    /\ task[r] = "suspended"
    /\ suspension[r] = "resolved"
    /\ \/ /\ InProgress(r)
          /\ ~scope[r]
          /\ deadline' = PostTimeout(r)
          /\ suspension' = [suspension EXCEPT ![r] = "none"]
          /\ task' = [task EXCEPT ![r] = "woken"]
          /\ UNCHANGED <<entries, outcome, verdicts, outbox>>
       \/ /\ ~InProgress(r)
          /\ FinishAfterError(r)
          /\ UNCHANGED <<deadline, suspension>>
    /\ UNCHANGED <<owner, dispatching, sending, notifying, notified, scope,
                   reports, known>>

\* Cancelled is raised while the command is suspended.
CancelledWhileSuspended(r) ==
    /\ task[r] = "suspended"
    /\ scope[r]
    /\ \/ /\ InProgress(r)
          /\ deadline' = PostTimeout(r)
          /\ suspension' = [suspension EXCEPT ![r] = "none"]
          /\ Finish(r, "caught", outcome[r])
       \/ /\ ~InProgress(r)
          /\ FinishAfterError(r)
          /\ UNCHANGED <<deadline, suspension>>
    /\ UNCHANGED <<owner, dispatching, sending, notifying, notified, scope,
                   reports, known>>

-----------------------------------------------------------------------------
(* Requests about a command, time and the cleanup.                         *)

\* Broken: marks the command only, its task is not told.
CancelMarkOnly(r) ==
    /\ r \in entries
    /\ InProgress(r)
    /\ outcome' = [outcome EXCEPT ![r] = "cancelled"]
    /\ UNCHANGED <<owner, hubVars, entries, notified, deadline, scope, suspension, task,
                   reports, known, verdicts>>

\* ASYNC-CANCEL from any client.
Cancel(r) ==
    /\ r \in entries
    /\ InProgress(r)
    /\ outcome' = [outcome EXCEPT ![r] = "cancelled"]
    /\ scope' = [scope EXCEPT ![r] = TRUE]
    /\ UNCHANGED <<owner, hubVars, entries, notified, deadline, suspension, task,
                   reports, known, verdicts>>

\* ASYNC-RESUME from any client; a second one before the task continues
\* finds the future resolved and has no effect.
Resume(r) ==
    /\ r \in entries
    /\ suspension[r] = "waiting"
    /\ suspension' = [suspension EXCEPT ![r] = "resolved"]
    /\ UNCHANGED <<owner, hubVars, entries, outcome, notified, deadline, scope, task,
                   reports, known, verdicts>>

DeadlinePasses(r) ==
    /\ deadline[r] = "ahead"
    /\ deadline' = [deadline EXCEPT ![r] = "passed"]
    /\ UNCHANGED <<owner, hubVars, entries, outcome, notified, scope, suspension, task,
                   reports, known, verdicts>>

\* Trio cancels an entered scope whose deadline has passed.
ScopeExpires(r) ==
    /\ deadline[r] = "passed"
    /\ task[r] \in {"running", "woken", "suspended"}
    /\ ~scope[r]
    /\ scope' = [scope EXCEPT ![r] = TRUE]
    /\ UNCHANGED <<owner, hubVars, entries, outcome, notified, deadline, suspension,
                   task, reports, known, verdicts>>

\* Broken: leaves the entries of ended commands to their tasks.
ToRemoveExpiredOnly == {r \in entries : InProgress(r) /\ deadline[r] = "passed"}

\* _cleanup() pops what is not in progress or expired, and announces the
\* timeout of the latter in one message for each client.
ToRemove == {r \in entries : ~InProgress(r) \/ deadline[r] = "passed"}
ExpiredUnfiltered == ToRemove  \* broken: does not leave out what has ended
Expired == {r \in ToRemove : InProgress(r)}
TimeoutsFor(R) == {AsyncTimeout({r \in R : owner[r] = c}) : c \in {owner[r] : r \in R}}

Cleanup ==
    /\ ToRemove # {}
    /\ entries' = entries \ ToRemove
    /\ verdicts' = [r \in Receipts |->
                       IF r \in Expired
                       THEN [verdicts[r] EXCEPT !.timeout = @ + 1]
                       ELSE verdicts[r]]
    /\ Enqueue(TimeoutsFor(Expired))
    /\ UNCHANGED <<owner, dispatching, sending, notifying, outcome,
                   notified, deadline, scope, suspension, task, reports, known>>

-----------------------------------------------------------------------------
TaskStep(r) ==
    \/ StartTask(r) \/ Park(r) \/ Report(r) \/ Suspend(r) \/ Return(r)
    \/ CancelledWhileRunning(r) \/ CancelledWhileSuspended(r)
    \/ ContinueAfterResume(r)

Next ==
    \/ \E R \in SUBSET Receipts :
          \/ \E D \in dispatching \cup {{}} : NewReceipts(R, D)
          \/ RespondToRequest(R)
          \/ SendResponse(R) \/ LoseResponse(R)
          \/ \E r \in Receipts : MarkAsClientsNotified(R, r)
    \/ \E m \in outbox : HubTake(m)
    \/ \E r \in Receipts :
          \/ ExecutorReceive(r) \/ TaskStep(r) \/ Wake(r)
          \/ Cancel(r) \/ Resume(r) \/ DeadlinePasses(r) \/ ScopeExpires(r)
    \/ Cleanup

Spec == Init /\ [][Next]_vars

\* Time passes, trio delivers cancellations and runs every runnable task, and
\* the cleanup task never ends.  Nothing is assumed of the drivers (Wake), the
\* clients (Resume, Cancel) or the network (SendResponse).
Fairness ==
    /\ WF_vars(Cleanup)
    /\ \A r \in Receipts :
          /\ WF_vars(DeadlinePasses(r))
          /\ WF_vars(ScopeExpires(r))
          /\ WF_vars(TaskStep(r))

FairSpec == Spec /\ Fairness

-----------------------------------------------------------------------------
(* Properties.                                                             *)

TypeOK ==
    /\ owner \in [Receipts -> Clients]
    /\ dispatching \subseteq SUBSET Receipts
    /\ outbox \subseteq Message
    /\ sending \subseteq SUBSET Receipts
    /\ notifying \subseteq SUBSET Receipts
    /\ entries \subseteq Receipts
    /\ outcome \in [Receipts -> {"none", "inProgress", "finished", "cancelled", "timedOut"}]
    /\ notified \in [Receipts -> BOOLEAN]
    /\ deadline \in [Receipts -> {"ahead", "passed", "lifted"}]
    /\ scope \in [Receipts -> BOOLEAN]
    /\ suspension \in [Receipts -> {"none", "waiting", "resolved"}]
    /\ task \in [Receipts -> {"none", "held", "blocked", "queued", "starting",
                              "running", "woken", "suspended", "done"}]
    /\ reports \in [Receipts -> 0..MaxReports]
    /\ known \in [Receipts -> BOOLEAN]
    /\ verdicts \in [Receipts -> [resp : Nat, timeout : Nat]]

\* A client hears about the progress or the result of a command only after
\* the response with the receipt went out: the command is handed to the
\* executor by the when_sent() callback of that response.
ReceiptBeforeReports ==
    \A r \in Receipts : verdicts[r].resp + reports[r] > 0 => known[r]

\* The cleanup, the end of the task and the cancel scope race to end a
\* command, yet at most one of ASYNC-RESP and ASYNC-TIMEOUT is announced for
\* a receipt, and at most once.
AtMostOneVerdict ==
    \A r \in Receipts : verdicts[r].resp + verdicts[r].timeout <= 1

\* The only entries that no timeout can remove are those of commands that
\* wait for the client: a suspension lifts the deadline and leaving it, by
\* whatever way, restores it.
OnlySuspendedEntriesLinger ==
    \A r \in entries : deadline[r] = "lifted" => task[r] = "suspended"

\* Once an ASYNC-CANCEL was accepted, the client never hears of the command
\* again, whatever its task was about to yield or to return.
CancelIsSilent ==
    [][\A r \in Receipts :
          outcome[r] = "cancelled" => /\ outcome'[r] = "cancelled"
                                      /\ verdicts'[r] = verdicts[r]
                                      /\ reports'[r] = reports[r]]_vars

\* Every receipt is forgotten in the end, or its command waits for the client
\* in a suspension; neither a lost response nor a full queue leaves an entry
\* behind.
EveryEntrySettles ==
    \A r \in Receipts : r \in entries ~> (r \notin entries \/ task[r] = "suspended")

\* A command that runs when it is cancelled is stopped, even if it is
\* suspended or about to yield.
CancelStopsTheTask ==
    \A r \in Receipts :
        (outcome[r] = "cancelled" /\ task[r] \in {"starting", "running", "woken", "suspended"})
            ~> task[r] = "done"

\* What a client can rely on: see AsyncOperation.
PromisedVerdict(r) ==
    IF verdicts[r].timeout > 0 THEN "timedOut"
    ELSE IF verdicts[r].resp > 0 THEN "answered"
    ELSE IF outcome[r] = "cancelled" THEN "cancelled"
    ELSE IF outcome[r] = "none" THEN "unused"
    ELSE "pending"

Promise == INSTANCE AsyncOperation WITH
    verdict <- [r \in Receipts |-> PromisedVerdict(r)]

\* Whatever races and losses there are inside the server, what it tells of a
\* command follows the life of a receipt: issued, learnt, and one verdict.
ImplementsPromise == Promise!Spec
=============================================================================
