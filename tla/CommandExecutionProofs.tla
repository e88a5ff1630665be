----------------------- MODULE CommandExecutionProofs -----------------------
(***************************************************************************)
(* Safety of the command machinery, and that it implements the promise of  *)
(* AsyncOperation, for any number of receipts and clients, any capacity of *)
(* the queues and any number of reports.                                   *)
(***************************************************************************)
EXTENDS CommandExecution, FiniteSetTheorems, TLAPS

(* The inductive invariant, part by part.                                  *)

\* Nothing is known of a receipt before it is issued.
FreshReceipts ==
    \A r \in Receipts :
        outcome[r] = "none" => /\ r \notin entries
                               /\ task[r] = "none"
                               /\ reports[r] = 0
                               /\ verdicts[r] = [resp |-> 0, timeout |-> 0]

\* An entry has had no verdict yet, and only a timeout removes a command in
\* progress: this is what decides the race between the cleanup and the task.
EntriesAwaitVerdict ==
    \A r \in Receipts :
        /\ r \in entries => verdicts[r] = [resp |-> 0, timeout |-> 0]
        /\ outcome[r] = "inProgress" => r \in entries \/ verdicts[r].timeout = 1
        /\ outcome[r] = "finished" => verdicts[r].resp + verdicts[r].timeout = 1
        /\ outcome[r] = "timedOut" => verdicts[r].timeout = 1

\* Only a sent response lets a command reach the executor.
ReceiptBeforeTask ==
    \A r \in Receipts :
        /\ task[r] \notin {"none", "held"} => notified[r]
        /\ notified[r] => known[r]

\* The responses under way: each receipt is in one of them at most, and its
\* awaitable has not been handed to the executor.
Unsent == {R \in SUBSET Receipts : Response(R) \in outbox}

Responses ==
    {<<"handler", R>> : R \in dispatching}
      \cup {<<"outbox", R>> : R \in Unsent}
      \cup {<<"channel", R>> : R \in sending}
      \cup {<<"callbacks", R>> : R \in notifying}

ResponsesAreDisjoint ==
    \A p, q \in Responses : p # q => p[2] \cap q[2] = {}

ResponsesHoldAwaitables ==
    \A p \in Responses : \A r \in p[2] :
        /\ task[r] = "held" \/ (p[1] = "callbacks" /\ task[r] = "blocked")
        /\ p[1] = "callbacks" => known[r]

IInv ==
    /\ TypeOK
    /\ FreshReceipts
    /\ EntriesAwaitVerdict
    /\ AtMostOneVerdict
    /\ ReceiptBeforeTask
    /\ ReceiptBeforeReports
    /\ ResponsesAreDisjoint
    /\ ResponsesHoldAwaitables
    /\ OnlySuspendedEntriesLinger

-----------------------------------------------------------------------------
(* Facts about the operators of the specification.                         *)

\* Enqueueing only adds to the queue, and only what was to be enqueued.
LEMMA EnqueueAdds ==
    ASSUME NEW ms, Enqueue(ms)
    PROVE  outbox \subseteq outbox' /\ outbox' \subseteq outbox \cup ms
BY DEF Enqueue

\* Enqueueing well-formed messages keeps the queue well-formed.
LEMMA EnqueueTypes ==
    ASSUME outbox \subseteq Message, NEW ms \in SUBSET Message, Enqueue(ms)
    PROVE  outbox' \subseteq Message
BY EnqueueAdds

\* Notifications do not change which responses are in the queue.
LEMMA EnqueueNotifications ==
    ASSUME NEW ms, Enqueue(ms), \A m \in ms : m.type # "response"
    PROVE  Unsent' = Unsent
<1>1. outbox \subseteq outbox' /\ outbox' \subseteq outbox \cup ms
    BY EnqueueAdds
<1>2. \A R \in SUBSET Receipts : Response(R) \notin ms
    BY DEF Response
<1> QED
    BY <1>1, <1>2 DEF Unsent, Response

\* What the handlers of the app enqueue is well-formed.
LEMMA NotificationTypes ==
    ASSUME TypeOK, ConstantsAssumption
    PROVE  /\ \A r \in Receipts : AsyncResp(r) \in Message
           /\ \A R \in SUBSET Receipts : AsyncTimeout(R) \in Message /\ Response(R) \in Message
           /\ \A r \in Receipts : reports[r] < MaxReports => AsyncSt(r) \in Message
<1>1. \A r \in Receipts : AsyncResp(r) \in Message
    BY DEF AsyncResp, Message, ConstantsAssumption
<1>2. \A R \in SUBSET Receipts : AsyncTimeout(R) \in Message /\ Response(R) \in Message
    BY DEF AsyncTimeout, Response, Message, ConstantsAssumption
<1>3. ASSUME NEW r \in Receipts, reports[r] < MaxReports
      PROVE  AsyncSt(r) \in Message
    <2>1. reports[r] + 1 \in 0..MaxReports
        BY <1>3 DEF TypeOK, ConstantsAssumption
    <2> QED
        BY <2>1 DEF AsyncSt, Message
<1> QED
    BY <1>1, <1>2, <1>3

\* Moving a task that no response holds does not disturb the responses.
LEMMA ResponsesStay ==
    ASSUME IInv, NEW r \in Receipts, task[r] \notin {"held", "blocked"},
           \A s \in Receipts \ {r} : task'[s] = task[s],
           Unsent' = Unsent, UNCHANGED <<dispatching, sending, notifying, known>>
    PROVE  ResponsesAreDisjoint' /\ ResponsesHoldAwaitables'
<1>1. Responses' = Responses
    BY DEF Responses
<1>2. ResponsesAreDisjoint'
    BY <1>1 DEF ResponsesAreDisjoint, IInv
<1>3. ASSUME NEW p \in Responses, NEW s \in p[2]
      PROVE  s \in Receipts
    BY <1>3 DEF Responses, Unsent, IInv, TypeOK
<1>4. ASSUME NEW p \in Responses, NEW s \in p[2]
      PROVE  s # r
    BY <1>4 DEF IInv, ResponsesHoldAwaitables
<1>5. ResponsesHoldAwaitables'
    BY <1>1, <1>3, <1>4 DEF ResponsesHoldAwaitables, IInv
<1> QED
    BY <1>2, <1>5

Running == {"running", "woken", "suspended"}

Deadlines == {"ahead", "passed", "lifted"}

Futures == {"none", "waiting", "resolved"}

\* What the end of a task does to its receipt: a timeout or an answer for an
\* entry in progress, or no announcement at all.
LEMMA FinishEffect ==
    ASSUME IInv, NEW r \in Receipts, NEW exit \in {"caught", "normal"}, NEW out,
           task[r] \in Running,
           out = outcome[r] \/ (InProgress(r) /\ out = "finished"),
           InProgress(r) => (exit = "caught" <=> out = "inProgress"),
           Finish(r, exit, out)
    PROVE  /\ notified[r] /\ known[r] /\ outcome[r] # "none"
           /\ out \in {"inProgress", "finished", "cancelled", "timedOut"}
           /\ FinishAnnounces(r, exit, out) = "timeout" =>
                 /\ r \in entries /\ out = "inProgress" /\ InProgress(r)
                 /\ outcome'[r] = "timedOut"
                 /\ verdicts'[r] = [resp |-> 0, timeout |-> 1]
           /\ FinishAnnounces(r, exit, out) = "resp" =>
                 /\ r \in entries /\ out = "finished" /\ InProgress(r)
                 /\ outcome'[r] = "finished"
                 /\ verdicts'[r] = [resp |-> 1, timeout |-> 0]
           /\ FinishAnnounces(r, exit, out) = "nothing" =>
                 /\ r \notin entries \/ out \in {"cancelled", "timedOut"}
                 /\ outcome'[r] = out
                 /\ verdicts'[r] = verdicts[r]
           /\ \A s \in Receipts \ {r} : outcome'[s] = outcome[s] /\ verdicts'[s] = verdicts[s]
           /\ outcome' \in [Receipts -> {"none", "inProgress", "finished", "cancelled", "timedOut"}]
           /\ verdicts' \in [Receipts -> [resp : Nat, timeout : Nat]]
<1> DEFINE ann == FinishAnnounces(r, exit, out)
<1>1. outcome' = [outcome EXCEPT ![r] = IF r \in entries /\ exit = "caught" /\ out = "inProgress"
                                        THEN "timedOut" ELSE out]
    BY DEF Finish
<1>2. \/ ann = "timeout" /\ verdicts' = [verdicts EXCEPT ![r].timeout = @ + 1]
      \/ ann = "resp" /\ verdicts' = [verdicts EXCEPT ![r].resp = @ + 1]
      \/ ann = "nothing" /\ UNCHANGED verdicts
    BY DEF Finish
<1>3. notified[r] /\ known[r] /\ outcome[r] # "none"
    BY DEF IInv, ReceiptBeforeTask, FreshReceipts, Running
<1>4. out \in {"inProgress", "finished", "cancelled", "timedOut"}
    BY <1>3 DEF IInv, TypeOK, InProgress
<1>5. /\ ann = "timeout" => r \in entries /\ exit = "caught" /\ out = "inProgress" /\ outcome'[r] = "timedOut"
      /\ ann = "resp" => r \in entries /\ exit # "caught" /\ out = "finished" /\ outcome'[r] = "finished"
      /\ ann = "nothing" => \/ r \notin entries /\ outcome'[r] = out
                            \/ out \in {"cancelled", "timedOut"} /\ outcome'[r] = out
    BY <1>1, <1>3, <1>4 DEF FinishAnnounces, IInv, TypeOK, InProgress, EntriesAwaitVerdict
<1>6. r \in entries => verdicts[r] = [resp |-> 0, timeout |-> 0]
    BY DEF IInv, EntriesAwaitVerdict
<1>7. r \in entries => outcome[r] # "finished"
    BY <1>6 DEF IInv, EntriesAwaitVerdict
<1>8. /\ verdicts' \in [Receipts -> [resp : Nat, timeout : Nat]]
      /\ \A s \in Receipts \ {r} : verdicts'[s] = verdicts[s]
      /\ ann = "timeout" => verdicts'[r] = [resp |-> 0, timeout |-> 1]
      /\ ann = "resp" => verdicts'[r] = [resp |-> 1, timeout |-> 0]
      /\ ann = "nothing" => verdicts'[r] = verdicts[r]
    BY <1>2, <1>5, <1>6 DEF IInv, TypeOK
<1>9. /\ outcome' \in [Receipts -> {"none", "inProgress", "finished", "cancelled", "timedOut"}]
      /\ \A s \in Receipts \ {r} : outcome'[s] = outcome[s]
    BY <1>1, <1>4 DEF IInv, TypeOK
<1> HIDE DEF ann
<1>10. ann = "timeout" \/ ann = "resp" => InProgress(r)
    BY <1>5, <1>7 DEF InProgress
<1> QED
    BY <1>3, <1>4, <1>5, <1>8, <1>9, <1>10 DEF ann

\* Ending a task, however it ends, keeps the invariant: an answer or a
\* timeout is announced only for an entry, which is removed in the same step.
LEMMA FinishKeepsInv ==
    ASSUME IInv, ConstantsAssumption,
           NEW r \in Receipts, NEW exit \in {"caught", "normal"}, NEW out,
           task[r] \in Running,
           out = outcome[r] \/ (InProgress(r) /\ out = "finished"),
           InProgress(r) => (exit = "caught" <=> out = "inProgress"),
           Finish(r, exit, out),
           deadline' \in [Receipts -> Deadlines],
           \A s \in Receipts \ {r} : deadline'[s] = deadline[s],
           suspension' \in [Receipts -> Futures],
           UNCHANGED <<owner, dispatching, sending, notifying, notified,
                       scope, reports, known>>
    PROVE  IInv'
<1> DEFINE ann == FinishAnnounces(r, exit, out)
<1>a. task' = [task EXCEPT ![r] = "done"] /\ entries' = entries \ {r}
    BY DEF Finish
<1>c. \/ ann = "timeout" /\ Enqueue({AsyncTimeout({r})})
      \/ ann = "resp" /\ Enqueue({AsyncResp(r)})
      \/ ann = "nothing" /\ UNCHANGED outbox
    BY DEF Finish
<1>d. notified[r] /\ known[r] /\ outcome[r] # "none"
    BY FinishEffect
<1>e. out \in {"inProgress", "finished", "cancelled", "timedOut"}
    BY FinishEffect
<1>f. /\ ann = "timeout" => r \in entries /\ out = "inProgress" /\ outcome'[r] = "timedOut"
      /\ ann = "resp" => r \in entries /\ out = "finished" /\ outcome'[r] = "finished"
      /\ ann = "nothing" => outcome'[r] = out /\ (r \notin entries \/ out \in {"cancelled", "timedOut"})
    BY FinishEffect
<1>b. /\ outcome' \in [Receipts -> {"none", "inProgress", "finished", "cancelled", "timedOut"}]
      /\ \A s \in Receipts \ {r} : outcome'[s] = outcome[s]
    BY FinishEffect
<1>h. /\ verdicts' \in [Receipts -> [resp : Nat, timeout : Nat]]
      /\ \A s \in Receipts \ {r} : verdicts'[s] = verdicts[s]
      /\ ann = "timeout" => verdicts'[r] = [resp |-> 0, timeout |-> 1]
      /\ ann = "resp" => verdicts'[r] = [resp |-> 1, timeout |-> 0]
      /\ ann = "nothing" => verdicts'[r] = verdicts[r]
    BY FinishEffect
<1>i. outbox' \subseteq Message /\ Unsent' = Unsent
    <2>1. CASE ann = "timeout"
        <3>1. Enqueue({AsyncTimeout({r})}) /\ AsyncTimeout({r}) \in Message
            BY <1>c, <2>1, NotificationTypes DEF IInv
        <3>2. \A m \in {AsyncTimeout({r})} : m.type # "response"
            BY DEF AsyncTimeout
        <3> QED
            BY <3>1, <3>2, EnqueueTypes, EnqueueNotifications DEF IInv, TypeOK
    <2>2. CASE ann = "resp"
        <3>1. Enqueue({AsyncResp(r)}) /\ AsyncResp(r) \in Message
            BY <1>c, <2>2, NotificationTypes DEF IInv
        <3>2. \A m \in {AsyncResp(r)} : m.type # "response"
            BY DEF AsyncResp
        <3> QED
            BY <3>1, <3>2, EnqueueTypes, EnqueueNotifications DEF IInv, TypeOK
    <2>3. CASE ann = "nothing"
        BY <1>c, <2>3 DEF IInv, TypeOK, Unsent
    <2> QED
        BY <1>c, <2>1, <2>2, <2>3
<1>j. outcome'[r] # "none"
    BY <1>c, <1>e, <1>f
<1> HIDE DEF ann
<1>1. TypeOK'
    BY <1>a, <1>b, <1>e, <1>h, <1>i DEF IInv, TypeOK, Deadlines, Futures
<1>2. FreshReceipts'
    BY <1>a, <1>b, <1>d, <1>h, <1>j DEF IInv, FreshReceipts
<1>3. EntriesAwaitVerdict'
    <2>1. ASSUME NEW s \in Receipts \ {r}
          PROVE  outcome'[s] = outcome[s] /\ verdicts'[s] = verdicts[s]
                 /\ (s \in entries' <=> s \in entries)
        BY <1>a, <1>b, <1>h DEF IInv, TypeOK
    <2>2. r \notin entries'
        BY <1>a
    <2>3. CASE ann = "nothing" /\ r \notin entries
        <3>1. out = "finished" => verdicts[r].resp + verdicts[r].timeout = 1
            BY <2>3, <1>e DEF IInv, TypeOK, EntriesAwaitVerdict, InProgress, AtMostOneVerdict
        <3>2. out = "inProgress" => verdicts[r].timeout = 1
            BY <2>3 DEF IInv, EntriesAwaitVerdict, InProgress
        <3>3. out = "timedOut" => verdicts[r].timeout = 1
            BY <2>3 DEF IInv, EntriesAwaitVerdict, InProgress
        <3>4. outcome'[r] = out /\ verdicts'[r] = verdicts[r]
            BY <1>f, <1>h, <2>3, <1>b DEF IInv, TypeOK
        <3> QED
            BY <2>1, <2>2, <3>1, <3>2, <3>3, <3>4 DEF EntriesAwaitVerdict, IInv
    <2>4. CASE ann = "nothing" /\ r \in entries
        <3>1. out \in {"cancelled", "timedOut"} /\ outcome'[r] = out /\ verdicts'[r] = verdicts[r]
            BY <1>f, <1>h, <2>4
        <3>2. out = "timedOut" => verdicts[r].timeout = 1
            BY <1>e DEF IInv, EntriesAwaitVerdict, InProgress
        <3> QED
            BY <2>1, <2>2, <3>1, <3>2 DEF EntriesAwaitVerdict, IInv
    <2>5. CASE ann = "timeout"
        BY <1>f, <1>h, <2>1, <2>2, <2>5 DEF EntriesAwaitVerdict, IInv
    <2>6. CASE ann = "resp"
        BY <1>f, <1>h, <2>1, <2>2, <2>6 DEF EntriesAwaitVerdict, IInv
    <2> QED
        BY <1>c, <2>3, <2>4, <2>5, <2>6 DEF ann
<1>4. AtMostOneVerdict'
    BY <1>c, <1>h DEF IInv, AtMostOneVerdict, ann
<1>5. ReceiptBeforeTask'
    BY <1>a, <1>d DEF IInv, TypeOK, ReceiptBeforeTask
<1>6. ReceiptBeforeReports'
    BY <1>d, <1>h DEF IInv, TypeOK, ReceiptBeforeReports
<1>7. ResponsesAreDisjoint' /\ ResponsesHoldAwaitables'
    <2>1. task[r] \notin {"held", "blocked"}
        BY DEF Running
    <2>2. \A s \in Receipts \ {r} : task'[s] = task[s]
        BY <1>a DEF IInv, TypeOK
    <2> QED
        BY <1>i, <2>1, <2>2, ResponsesStay
<1>8. OnlySuspendedEntriesLinger'
    BY <1>a DEF IInv, TypeOK, OnlySuspendedEntriesLinger
<1> QED
    BY <1>1, <1>2, <1>3, <1>4, <1>5, <1>6, <1>7, <1>8 DEF IInv

-----------------------------------------------------------------------------
(* From the request to the executor.                                       *)

\* The invariant holds when the server starts.
LEMMA InitInv == ASSUME Init PROVE IInv
<1>1. TypeOK
    BY ConstantsAssumption DEF Init, TypeOK, ConstantsAssumption
<1>2. Responses = {}
    BY DEF Init, Responses, Unsent
<1>3. ResponsesAreDisjoint /\ ResponsesHoldAwaitables
    BY <1>2 DEF ResponsesAreDisjoint, ResponsesHoldAwaitables
<1>4. /\ FreshReceipts /\ EntriesAwaitVerdict /\ AtMostOneVerdict /\ ReceiptBeforeTask
      /\ ReceiptBeforeReports /\ OnlySuspendedEntriesLinger
    BY DEF Init, FreshReceipts, EntriesAwaitVerdict, AtMostOneVerdict, ReceiptBeforeTask,
           ReceiptBeforeReports, OnlySuspendedEntriesLinger
<1> QED
    BY <1>1, <1>3, <1>4 DEF IInv

\* What a response carries has been issued.
LEMMA ResponseMembers ==
    ASSUME IInv, NEW p \in Responses, NEW r \in p[2]
    PROVE  r \in Receipts /\ outcome[r] # "none"
<1>1. r \in Receipts
    BY DEF Responses, Unsent, IInv, TypeOK
<1> QED
    BY <1>1 DEF IInv, FreshReceipts, ResponsesHoldAwaitables

\* New receipts join a response that is still being put together.
LEMMA NewReceiptsKeepsInv ==
    ASSUME IInv, NEW R \in SUBSET Receipts, NEW D \in dispatching \cup {{}},
           NewReceipts(R, D)
    PROVE  IInv'
<1> USE DEF NewReceipts
<1>1. TypeOK'
    <2>1. D \in SUBSET Receipts
        BY DEF IInv, TypeOK
    <2>2. dispatching' \subseteq SUBSET Receipts
        BY <2>1 DEF IInv, TypeOK
    <2>3. /\ entries' \subseteq Receipts
          /\ outcome' \in [Receipts -> {"none", "inProgress", "finished", "cancelled", "timedOut"}]
          /\ deadline' \in [Receipts -> {"ahead", "passed", "lifted"}]
        BY DEF IInv, TypeOK
    <2>4. task' \in [Receipts -> {"none", "held", "blocked", "queued", "starting",
                                 "running", "woken", "suspended", "done"}]
        BY DEF IInv, TypeOK
    <2> QED
        BY <2>2, <2>3, <2>4 DEF IInv, TypeOK
<1>2. FreshReceipts' /\ EntriesAwaitVerdict' /\ AtMostOneVerdict'
    BY DEF IInv, TypeOK, FreshReceipts, EntriesAwaitVerdict, AtMostOneVerdict
<1>3. ReceiptBeforeTask' /\ ReceiptBeforeReports'
    BY DEF IInv, TypeOK, ReceiptBeforeTask, ReceiptBeforeReports
<1>4. /\ Responses' = (Responses \ {<<"handler", D>>}) \cup {<<"handler", D \cup R>>}
      /\ D # {} => <<"handler", D>> \in Responses
    BY DEF Responses, Unsent
<1>5. \A p \in Responses : p[2] \cap R = {}
    BY ResponseMembers
<1>6. ASSUME NEW p \in Responses \ {<<"handler", D>>}
      PROVE  p[2] \cap D = {}
    <2>1. CASE D # {}
        <3>1. <<"handler", D>> \in Responses /\ p \in Responses /\ p # <<"handler", D>>
            BY <1>4, <2>1
        <3>2. p[2] \cap <<"handler", D>>[2] = {}
            BY <3>1 DEF IInv, ResponsesAreDisjoint
        <3> QED
            BY <3>2
    <2> QED
        BY <2>1
<1>7. ResponsesAreDisjoint'
    <2> DEFINE old == Responses \ {<<"handler", D>>}
               new == <<"handler", D \cup R>>
    <2>1. \A p \in old : p[2] \cap new[2] = {}
        BY <1>5, <1>6
    <2>2. \A p, q \in old : p # q => p[2] \cap q[2] = {}
        BY DEF IInv, ResponsesAreDisjoint
    <2>3. Responses' = old \cup {new}
        BY <1>4
    <2> HIDE DEF old, new, NewReceipts
    <2> QED
        BY <2>1, <2>2, <2>3 DEF ResponsesAreDisjoint
<1>8. ResponsesHoldAwaitables'
    <2>1. ASSUME NEW p \in Responses, NEW r \in p[2]
          PROVE  task'[r] = task[r]
        BY <1>5, ResponseMembers DEF IInv, TypeOK
    <2>2. \A r \in R : task'[r] = "held"
        OBVIOUS
    <2>3. \A r \in D : task'[r] = "held"
        BY <1>4, <2>1 DEF IInv, ResponsesHoldAwaitables
    <2> QED
        BY <1>4, <2>1, <2>2, <2>3 DEF IInv, ResponsesHoldAwaitables
<1>9. OnlySuspendedEntriesLinger'
    BY DEF IInv, TypeOK, OnlySuspendedEntriesLinger
<1> QED
    BY <1>1, <1>2, <1>3, <1>7, <1>8, <1>9 DEF IInv

\* A response that moves on, or is lost on the way, stays apart from the others.
LEMMA ResponseMoves ==
    ASSUME IInv, NEW a, NEW b, NEW R, <<a, R>> \in Responses, a # "callbacks",
           Responses' \subseteq (Responses \ {<<a, R>>}) \cup {<<b, R>>},
           b = "callbacks" => \A r \in R : known'[r],
           \A r \in Receipts : known[r] => known'[r],
           UNCHANGED task
    PROVE  ResponsesAreDisjoint' /\ ResponsesHoldAwaitables'
<1>1. \A p \in Responses \ {<<a, R>>} : p[2] \cap R = {}
    BY DEF IInv, ResponsesAreDisjoint
<1>2. ResponsesAreDisjoint'
    BY <1>1 DEF IInv, ResponsesAreDisjoint
<1>3. \A r \in R : task[r] = "held"
    BY DEF IInv, ResponsesHoldAwaitables
<1>4. ResponsesHoldAwaitables'
    BY <1>3, ResponseMembers DEF IInv, ResponsesHoldAwaitables
<1> QED
    BY <1>2, <1>4

\* The conjuncts that do not look at the hub survive what only the hub does.
LEMMA HubKeepsRest ==
    ASSUME IInv, UNCHANGED <<statusVars, task, reports, verdicts>>,
           \A r \in Receipts : known[r] => known'[r]
    PROVE  /\ FreshReceipts' /\ EntriesAwaitVerdict' /\ AtMostOneVerdict'
           /\ ReceiptBeforeTask' /\ ReceiptBeforeReports' /\ OnlySuspendedEntriesLinger'
BY DEF IInv, statusVars, FreshReceipts, EntriesAwaitVerdict, AtMostOneVerdict,
       ReceiptBeforeTask, ReceiptBeforeReports, OnlySuspendedEntriesLinger, InProgress

\* The response enters the queue of the hub, or is dropped.
LEMMA RespondToRequestKeepsInv ==
    ASSUME IInv, ConstantsAssumption, NEW R \in SUBSET Receipts, RespondToRequest(R)
    PROVE  IInv'
<1> USE DEF RespondToRequest
<1>1. outbox \subseteq outbox' /\ outbox' \subseteq outbox \cup {Response(R)}
    BY EnqueueAdds
<1>2. outbox' \subseteq Message
    BY <1>1, NotificationTypes DEF IInv, TypeOK
<1>3. TypeOK'
    BY <1>2 DEF IInv, TypeOK, statusVars
<1>4. Unsent' \subseteq Unsent \cup {R}
    BY <1>1 DEF Unsent, Response
<1>5. Responses' \subseteq (Responses \ {<<"handler", R>>}) \cup {<<"outbox", R>>}
    BY <1>4 DEF Responses
<1>6. <<"handler", R>> \in Responses
    BY DEF Responses
<1>7. ResponsesAreDisjoint' /\ ResponsesHoldAwaitables'
    BY <1>5, <1>6, ResponseMoves
<1> QED
    BY <1>3, <1>7, HubKeepsRest DEF IInv

\* The hub takes a response or a notification out of its queue.
LEMMA HubTakeKeepsInv ==
    ASSUME IInv, NEW m \in outbox, HubTake(m)
    PROVE  IInv'
<1> USE DEF HubTake
<1>1. m \in Message
    BY DEF IInv, TypeOK
<1>2. m.ids \in SUBSET Receipts /\ (m.type = "response" => m = Response(m.ids))
    BY <1>1 DEF Message, Response
<1>3. TypeOK'
    BY <1>2 DEF IInv, TypeOK, statusVars
<1>4. CASE m.type = "response"
    <2>1. Unsent' = Unsent \ {m.ids} /\ m.ids \in Unsent
        BY <1>2, <1>4 DEF Unsent, Response
    <2>2. Responses' \subseteq (Responses \ {<<"outbox", m.ids>>}) \cup {<<"channel", m.ids>>}
        BY <1>4, <2>1 DEF Responses
    <2>3. <<"outbox", m.ids>> \in Responses
        BY <2>1 DEF Responses
    <2>4. ResponsesAreDisjoint' /\ ResponsesHoldAwaitables'
        BY <2>2, <2>3, ResponseMoves
    <2> QED
        BY <1>3, <2>4, HubKeepsRest DEF IInv
<1>5. CASE m.type # "response"
    <2>1. Unsent' = Unsent
        BY <1>5 DEF Unsent, Response
    <2>2. Responses' = Responses
        BY <1>5, <2>1 DEF Responses
    <2>3. ResponsesAreDisjoint' /\ ResponsesHoldAwaitables'
        BY <2>2 DEF IInv, ResponsesAreDisjoint, ResponsesHoldAwaitables
    <2> QED
        BY <1>3, <2>3, HubKeepsRest DEF IInv
<1> QED
    BY <1>4, <1>5

\* The response goes out and its receipts become known.
LEMMA SendResponseKeepsInv ==
    ASSUME IInv, NEW R \in SUBSET Receipts, SendResponse(R)
    PROVE  IInv'
<1> USE DEF SendResponse
<1>1. TypeOK'
    BY DEF IInv, TypeOK, statusVars
<1>2. Responses' \subseteq (Responses \ {<<"channel", R>>}) \cup {<<"callbacks", R>>}
    BY DEF Responses, Unsent
<1>3. <<"channel", R>> \in Responses
    BY DEF Responses
<1>4. (\A r \in R : known'[r]) /\ \A r \in Receipts : known[r] => known'[r]
    BY DEF IInv, TypeOK
<1>5. ResponsesAreDisjoint' /\ ResponsesHoldAwaitables'
    BY <1>2, <1>3, <1>4, ResponseMoves
<1> QED
    BY <1>1, <1>4, <1>5, HubKeepsRest DEF IInv

\* A lost response takes its awaitables with it.
LEMMA LoseResponseKeepsInv ==
    ASSUME IInv, NEW R \in SUBSET Receipts, LoseResponse(R)
    PROVE  IInv'
<1> USE DEF LoseResponse
<1>1. TypeOK'
    BY DEF IInv, TypeOK, statusVars
<1>2. Responses' \subseteq (Responses \ {<<"channel", R>>}) \cup {<<"lost", R>>}
    BY DEF Responses, Unsent
<1>3. <<"channel", R>> \in Responses
    BY DEF Responses
<1>4. ResponsesAreDisjoint' /\ ResponsesHoldAwaitables'
    BY <1>2, <1>3, ResponseMoves
<1> QED
    BY <1>1, <1>4, HubKeepsRest DEF IInv

\* A callback of a sent response returned: its receipt leaves the response.
LEMMA CallbackReturns ==
    ASSUME IInv, NEW R \in notifying, NEW r \in R,
           notifying' = NotifyRest(R, r),
           \A s \in Receipts \ {r} : task[s] \in {"held", "blocked"} => task'[s] = task[s],
           UNCHANGED <<dispatching, outbox, sending, known>>
    PROVE  ResponsesAreDisjoint' /\ ResponsesHoldAwaitables'
<1>1. <<"callbacks", R>> \in Responses
    BY DEF Responses
<1>2. Responses' \subseteq (Responses \ {<<"callbacks", R>>}) \cup {<<"callbacks", R \ {r}>>}
    BY DEF Responses, Unsent, NotifyRest
<1>3. \A p \in Responses \ {<<"callbacks", R>>} : p[2] \cap R = {}
    BY <1>1 DEF IInv, ResponsesAreDisjoint
<1>4. ResponsesAreDisjoint'
    BY <1>2, <1>3 DEF IInv, ResponsesAreDisjoint
<1>5. ASSUME NEW p \in Responses', NEW s \in p[2]
      PROVE  /\ task'[s] = "held" \/ (p[1] = "callbacks" /\ task'[s] = "blocked")
             /\ p[1] = "callbacks" => known'[s]
    <2>1. PICK q \in Responses : s \in q[2] /\ q[1] = p[1] /\ s # r
        BY <1>1, <1>2, <1>3
    <2>2. s \in Receipts
        BY <2>1, ResponseMembers
    <2>3. task'[s] = task[s]
        BY <2>1, <2>2 DEF IInv, ResponsesHoldAwaitables
    <2> QED
        BY <2>1, <2>3 DEF IInv, ResponsesHoldAwaitables
<1> QED
    BY <1>4, <1>5 DEF ResponsesHoldAwaitables

\* A callback hands a command to the executor, waits for it, or finds that
\* the receipt has expired.
LEMMA MarkAsClientsNotifiedKeepsInv ==
    ASSUME IInv, NEW R \in SUBSET Receipts, NEW r \in Receipts, MarkAsClientsNotified(R, r)
    PROVE  IInv'
<1> USE DEF MarkAsClientsNotified
<1>1. <<"callbacks", R>> \in Responses
    BY DEF Responses
<1>2. known[r] /\ task[r] = "held" /\ outcome[r] # "none"
    BY <1>1, ResponseMembers DEF IInv, ResponsesHoldAwaitables
<1>3. NotifyRest(R, r) \subseteq SUBSET Receipts
    BY DEF IInv, TypeOK, NotifyRest
<1>4. TypeOK'
    <2>1. notifying' \subseteq SUBSET Receipts
        BY <1>3 DEF IInv, TypeOK
    <2>2. notified' \in [Receipts -> BOOLEAN]
        BY DEF IInv, TypeOK
    <2>3. task' \in [Receipts -> {"none", "held", "blocked", "queued", "starting",
                                 "running", "woken", "suspended", "done"}]
        BY DEF IInv, TypeOK
    <2> QED
        BY <2>1, <2>2, <2>3 DEF IInv, TypeOK
<1>5. FreshReceipts' /\ EntriesAwaitVerdict' /\ AtMostOneVerdict' /\ ReceiptBeforeReports'
    BY <1>2 DEF IInv, TypeOK, FreshReceipts, EntriesAwaitVerdict, AtMostOneVerdict,
                ReceiptBeforeReports
<1>6. ReceiptBeforeTask'
    BY <1>2 DEF IInv, TypeOK, ReceiptBeforeTask
<1>7. OnlySuspendedEntriesLinger'
    BY <1>2 DEF IInv, TypeOK, OnlySuspendedEntriesLinger
<1>8. ResponsesAreDisjoint' /\ ResponsesHoldAwaitables'
    <2>1. CASE notifying' = NotifyRest(R, r)
        <3>1. \A s \in Receipts \ {r} : task'[s] = task[s]
            BY DEF IInv, TypeOK
        <3> QED
            BY <2>1, <3>1, CallbackReturns
    <2>2. CASE notifying' = notifying /\ task' = [task EXCEPT ![r] = "blocked"]
        <3>1. Responses' = Responses
            BY <2>2 DEF Responses, Unsent
        <3>2. \A p \in Responses \ {<<"callbacks", R>>} : r \notin p[2]
            BY <1>1 DEF IInv, ResponsesAreDisjoint
        <3>3. ASSUME NEW p \in Responses, NEW s \in p[2]
              PROVE  /\ task'[s] = "held" \/ (p[1] = "callbacks" /\ task'[s] = "blocked")
                     /\ p[1] = "callbacks" => known'[s]
            <4>1. CASE s = r
                BY <1>1, <1>2, <2>2, <3>2, <4>1 DEF IInv, TypeOK
            <4>2. CASE s # r
                BY <2>2, <4>2, ResponseMembers DEF IInv, TypeOK, ResponsesHoldAwaitables
            <4> QED
                BY <4>1, <4>2
        <3> QED
            BY <3>1, <3>3 DEF IInv, ResponsesAreDisjoint, ResponsesHoldAwaitables
    <2> QED
        BY <2>1, <2>2
<1> QED
    BY <1>4, <1>5, <1>6, <1>7, <1>8 DEF IInv

\* The executor takes a command and may unblock a waiting callback.
LEMMA ExecutorReceiveKeepsInv ==
    ASSUME IInv, NEW r \in Receipts, ExecutorReceive(r)
    PROVE  IInv'
<1> USE DEF ExecutorReceive
<1>1. CASE UNCHANGED notifying /\ task' = [task EXCEPT ![r] = "starting"]
    <2>1. TypeOK'
        BY <1>1 DEF IInv, TypeOK, statusVars
    <2>2. /\ FreshReceipts' /\ EntriesAwaitVerdict' /\ AtMostOneVerdict'
          /\ ReceiptBeforeTask' /\ ReceiptBeforeReports' /\ OnlySuspendedEntriesLinger'
        BY <1>1 DEF IInv, TypeOK, statusVars, FreshReceipts, EntriesAwaitVerdict,
             AtMostOneVerdict, ReceiptBeforeTask, ReceiptBeforeReports,
             OnlySuspendedEntriesLinger, InProgress
    <2>3. ResponsesAreDisjoint' /\ ResponsesHoldAwaitables'
        BY <1>1, ResponsesStay DEF IInv, TypeOK, Unsent
    <2> QED
        BY <2>1, <2>2, <2>3 DEF IInv
<1>2. ASSUME NEW s \in Receipts, NEW S \in notifying, task[s] = "blocked", s \in S,
             task' = [task EXCEPT ![r] = "starting", ![s] = "queued"],
             notifying' = NotifyRest(S, s)
      PROVE  IInv'
    <2>1. NotifyRest(S, s) \subseteq SUBSET Receipts
        BY DEF IInv, TypeOK, NotifyRest
    <2>2. TypeOK'
        BY <1>2, <2>1 DEF IInv, TypeOK, statusVars
    <2>3. FreshReceipts' /\ EntriesAwaitVerdict' /\ AtMostOneVerdict' /\ ReceiptBeforeReports'
        BY <1>2 DEF IInv, TypeOK, statusVars, FreshReceipts, EntriesAwaitVerdict,
             AtMostOneVerdict, ReceiptBeforeReports
    <2>4. ReceiptBeforeTask' /\ OnlySuspendedEntriesLinger'
        BY <1>2 DEF IInv, TypeOK, statusVars, ReceiptBeforeTask, OnlySuspendedEntriesLinger
    <2>5. \A q \in Receipts \ {s} : task[q] \in {"held", "blocked"} => task'[q] = task[q]
        BY <1>2 DEF IInv, TypeOK
    <2>6. ResponsesAreDisjoint' /\ ResponsesHoldAwaitables'
        BY <1>2, <2>5, CallbackReturns
    <2> QED
        BY <2>2, <2>3, <2>4, <2>6 DEF IInv
<1> QED
    BY <1>1, <1>2

-----------------------------------------------------------------------------
(* The task of a command.                                                  *)

\* A task that goes on keeps the invariant if it lifts the deadline only to
\* be suspended and puts nothing but notifications into the queue.
LEMMA TaskGoesOn ==
    ASSUME IInv, NEW r \in Receipts, task[r] \in Running \cup {"starting"},
           NEW to \in Running, task' = [task EXCEPT ![r] = to],
           deadline' \in [Receipts -> Deadlines],
           \A s \in Receipts \ {r} : deadline'[s] = deadline[s],
           r \in entries /\ deadline'[r] = "lifted" => to = "suspended",
           suspension' \in [Receipts -> Futures], scope' \in [Receipts -> BOOLEAN],
           reports' \in [Receipts -> 0..MaxReports],
           \A s \in Receipts \ {r} : reports'[s] = reports[s],
           outbox' \subseteq Message, Unsent' = Unsent,
           UNCHANGED <<owner, dispatching, sending, notifying, entries,
                       outcome, notified, known, verdicts>>
    PROVE  IInv'
<1>1. known[r] /\ outcome[r] # "none" /\ task[r] \notin {"held", "blocked"}
    BY DEF IInv, FreshReceipts, ReceiptBeforeTask, Running
<1>2. TypeOK'
    BY DEF IInv, TypeOK, Running, Deadlines, Futures
<1>3. FreshReceipts' /\ EntriesAwaitVerdict' /\ AtMostOneVerdict'
    BY <1>1 DEF IInv, TypeOK, FreshReceipts, EntriesAwaitVerdict, AtMostOneVerdict
<1>4. ReceiptBeforeTask' /\ ReceiptBeforeReports'
    <2>1. ReceiptBeforeTask'
        BY <1>1 DEF IInv, TypeOK, ReceiptBeforeTask, Running
    <2>2. ASSUME NEW s \in Receipts, verdicts'[s].resp + reports'[s] > 0
          PROVE  known'[s]
        BY <1>1, <2>2 DEF IInv, TypeOK, ReceiptBeforeReports
    <2> QED
        BY <2>1, <2>2 DEF ReceiptBeforeReports
<1>5. OnlySuspendedEntriesLinger'
    BY DEF IInv, TypeOK, OnlySuspendedEntriesLinger
<1>6. \A s \in Receipts \ {r} : task'[s] = task[s]
    BY DEF IInv, TypeOK
<1>7. ResponsesAreDisjoint' /\ ResponsesHoldAwaitables'
    BY <1>1, <1>6, ResponsesStay
<1> QED
    BY <1>2, <1>3, <1>4, <1>5, <1>7 DEF IInv

\* A notification about r is all that a step puts into the queue.
LEMMA NotificationEnqueued ==
    ASSUME IInv, NEW m \in Message, m.type # "response", Enqueue({m})
    PROVE  outbox' \subseteq Message /\ Unsent' = Unsent
<1>1. \A n \in {m} : n.type # "response"
    OBVIOUS
<1> QED
    BY <1>1, EnqueueTypes, EnqueueNotifications DEF IInv, TypeOK

\* Every step of the task of a command keeps the invariant.
LEMMA TaskStepKeepsInv ==
    ASSUME IInv, ConstantsAssumption, NEW r \in Receipts, TaskStep(r) \/ Wake(r)
    PROVE  IInv'
<1> USE DEF InProgress
<1>a. /\ deadline \in [Receipts -> Deadlines] /\ suspension \in [Receipts -> Futures]
      /\ outbox \subseteq Message /\ scope \in [Receipts -> BOOLEAN]
      /\ reports \in [Receipts -> 0..MaxReports]
    BY DEF IInv, TypeOK, Deadlines, Futures
<1>b. ASSUME task[r] # "suspended", task[r] \in Running \cup {"starting"}
      PROVE  r \in entries => deadline[r] # "lifted"
    BY <1>b DEF IInv, OnlySuspendedEntriesLinger
<1>1. CASE StartTask(r)
    BY <1>1, <1>a, <1>b, TaskGoesOn DEF StartTask, hubVars, Unsent, Running
<1>2. CASE Park(r)
    BY <1>2, <1>a, <1>b, TaskGoesOn DEF Park, hubVars, statusVars, Unsent, Running
<1>3. CASE Wake(r)
    BY <1>3, <1>a, <1>b, TaskGoesOn DEF Wake, hubVars, Unsent, Running
<1>4. CASE Report(r)
    <2>1. CASE InProgress(r)
        <3>1. AsyncSt(r) \in Message /\ AsyncSt(r).type # "response"
            BY <1>4, NotificationTypes DEF Report, AsyncSt, IInv
        <3>2. outbox' \subseteq Message /\ Unsent' = Unsent
            BY <1>4, <2>1, <3>1, NotificationEnqueued DEF Report
        <3>3. reports' \in [Receipts -> 0..MaxReports]
              /\ \A s \in Receipts \ {r} : reports'[s] = reports[s]
            BY <1>4, <1>a, <2>1 DEF Report, ConstantsAssumption
        <3>4. task[r] = "woken" /\ task' = [task EXCEPT ![r] = "woken"]
            BY <1>4, <2>1 DEF Report, IInv, TypeOK
        <3>5. /\ deadline' \in [Receipts -> Deadlines]
              /\ \A s \in Receipts \ {r} : deadline'[s] = deadline[s]
              /\ deadline'[r] # "lifted"
            BY <1>4, <1>a, <2>1 DEF Report, Deadlines
        <3>6. UNCHANGED <<owner, dispatching, sending, notifying, entries,
                          outcome, notified, known, verdicts, suspension, scope>>
            BY <1>4, <2>1 DEF Report
        <3> QED
            BY <1>a, <3>2, <3>3, <3>4, <3>5, <3>6, TaskGoesOn DEF Running
    <2>2. CASE ~InProgress(r)
        BY <1>4, <1>a, <2>2, FinishKeepsInv DEF Report, FinishAfterError, Running
    <2> QED
        BY <2>1, <2>2
<1>5. CASE Suspend(r)
    <2>1. /\ suspension' \in [Receipts -> Futures]
          /\ task[r] = "woken" /\ task[r] \in Running
        BY <1>5, <1>a DEF Suspend, Futures, Running
    <2>2. CASE InProgress(r)
        <3>1. AsyncSt(r) \in Message /\ AsyncSt(r).type # "response"
            BY <1>5, NotificationTypes DEF Suspend, AsyncSt, IInv
        <3>2. outbox' \subseteq Message /\ Unsent' = Unsent
            BY <1>5, <2>2, <3>1, NotificationEnqueued DEF Suspend
        <3>3. reports' \in [Receipts -> 0..MaxReports]
              /\ \A s \in Receipts \ {r} : reports'[s] = reports[s]
            BY <1>5, <1>a, <2>2 DEF Suspend, ConstantsAssumption
        <3>4. task' = [task EXCEPT ![r] = "suspended"] /\ "suspended" \in Running
            BY <1>5, <2>2 DEF Suspend, Running
        <3>5. /\ deadline' \in [Receipts -> Deadlines]
              /\ \A s \in Receipts \ {r} : deadline'[s] = deadline[s]
            BY <1>5, <1>a, <2>2 DEF Suspend, Deadlines
        <3>6. UNCHANGED <<owner, dispatching, sending, notifying, entries,
                          outcome, notified, known, verdicts, scope>>
            BY <1>5, <2>2 DEF Suspend
        <3> QED
            BY <1>a, <2>1, <3>2, <3>3, <3>4, <3>5, <3>6, TaskGoesOn
    <2>3. CASE ~InProgress(r)
        BY <1>5, <1>a, <2>1, <2>3, FinishKeepsInv DEF Suspend, FinishAfterError
    <2> QED
        BY <2>2, <2>3
<1>6. CASE Return(r)
    BY <1>6, <1>a, FinishKeepsInv DEF Return, Running
<1>7. CASE CancelledWhileRunning(r)
    BY <1>7, <1>a, FinishKeepsInv DEF CancelledWhileRunning, Running
<1>8. CASE CancelledWhileSuspended(r)
    <2>1. CASE InProgress(r)
        <3>1. /\ deadline' \in [Receipts -> Deadlines] /\ suspension' \in [Receipts -> Futures]
              /\ \A s \in Receipts \ {r} : deadline'[s] = deadline[s]
            BY <1>8, <1>a, <2>1 DEF CancelledWhileSuspended, PostTimeout, Deadlines, Futures
        <3> QED
            BY <1>8, <2>1, <3>1, FinishKeepsInv DEF CancelledWhileSuspended, Running
    <2>2. CASE ~InProgress(r)
        BY <1>8, <1>a, <2>2, FinishKeepsInv
        DEF CancelledWhileSuspended, FinishAfterError, Running
    <2> QED
        BY <2>1, <2>2
<1>9. CASE ContinueAfterResume(r)
    <2>1. CASE InProgress(r)
        <3>1. /\ deadline' \in [Receipts -> Deadlines] /\ suspension' \in [Receipts -> Futures]
              /\ \A s \in Receipts \ {r} : deadline'[s] = deadline[s]
              /\ deadline'[r] # "lifted"
            BY <1>9, <1>a, <2>1 DEF ContinueAfterResume, PostTimeout, Deadlines, Futures
        <3> QED
            BY <1>9, <1>a, <2>1, <3>1, TaskGoesOn DEF ContinueAfterResume, Running, Unsent
    <2>2. CASE ~InProgress(r)
        BY <1>9, <1>a, <2>2, FinishKeepsInv
        DEF ContinueAfterResume, FinishAfterError, Running
    <2> QED
        BY <2>1, <2>2
<1> QED
    BY <1>1, <1>2, <1>3, <1>4, <1>5, <1>6, <1>7, <1>8, <1>9 DEF TaskStep

-----------------------------------------------------------------------------
(* Requests, time and the cleanup.                                         *)

\* Requests and the clock only touch the outcome of an entry in progress, and
\* never lift a deadline.
LEMMA RequestsAndTimeKeepInv ==
    ASSUME IInv, NEW r \in Receipts,
           Cancel(r) \/ Resume(r) \/ DeadlinePasses(r) \/ ScopeExpires(r)
    PROVE  IInv'
<1> USE DEF InProgress
<1>1. UNCHANGED <<owner, hubVars, entries, notified, task, reports, known, verdicts>>
    BY DEF Cancel, Resume, DeadlinePasses, ScopeExpires
<1>2. \/ UNCHANGED outcome
      \/ r \in entries /\ outcome' = [outcome EXCEPT ![r] = "cancelled"]
    BY DEF Cancel, Resume, DeadlinePasses, ScopeExpires
<1>3. \/ UNCHANGED deadline
      \/ deadline' = [deadline EXCEPT ![r] = "passed"]
    BY DEF Cancel, Resume, DeadlinePasses, ScopeExpires
<1>4. scope' \in [Receipts -> BOOLEAN] /\ suspension' \in [Receipts -> Futures]
    BY DEF IInv, TypeOK, Futures, Cancel, Resume, DeadlinePasses, ScopeExpires
<1>5. TypeOK'
    BY <1>1, <1>2, <1>3, <1>4 DEF IInv, TypeOK, Futures, hubVars
<1>6. FreshReceipts' /\ EntriesAwaitVerdict' /\ AtMostOneVerdict'
    BY <1>1, <1>2 DEF IInv, TypeOK, FreshReceipts, EntriesAwaitVerdict, AtMostOneVerdict
<1>7. ReceiptBeforeTask' /\ ReceiptBeforeReports'
    BY <1>1 DEF IInv, ReceiptBeforeTask, ReceiptBeforeReports
<1>8. ResponsesAreDisjoint' /\ ResponsesHoldAwaitables'
    <2>1. Responses' = Responses
        BY <1>1 DEF Responses, Unsent, hubVars
    <2> QED
        BY <1>1, <2>1 DEF IInv, ResponsesAreDisjoint, ResponsesHoldAwaitables
<1>9. OnlySuspendedEntriesLinger'
    BY <1>1, <1>3 DEF IInv, TypeOK, OnlySuspendedEntriesLinger
<1> QED
    BY <1>5, <1>6, <1>7, <1>8, <1>9 DEF IInv

\* The cleanup announces a timeout only for what it removes while it is in
\* progress, and such an entry has had no verdict.
LEMMA CleanupKeepsInv ==
    ASSUME IInv, ConstantsAssumption, Cleanup
    PROVE  IInv'
<1> USE DEF InProgress
<1>1. Expired \subseteq entries /\ Expired \subseteq Receipts /\ Expired \subseteq ToRemove
    BY DEF Expired, ToRemove, IInv, TypeOK
<1>2. TimeoutsFor(Expired) \in SUBSET Message
      /\ \A m \in TimeoutsFor(Expired) : m.type # "response"
    <2>1. ASSUME NEW c \in {owner[r] : r \in Expired}
          PROVE  {r \in Expired : owner[r] = c} \in SUBSET Receipts
        BY <1>1
    <2>2. \A R \in SUBSET Receipts : AsyncTimeout(R) \in Message /\ AsyncTimeout(R).type # "response"
        BY NotificationTypes DEF IInv, AsyncTimeout
    <2> QED
        BY <2>1, <2>2 DEF TimeoutsFor
<1>3. outbox' \subseteq Message /\ Unsent' = Unsent
    BY <1>2, EnqueueTypes, EnqueueNotifications DEF Cleanup, IInv, TypeOK
<1>4. entries' = entries \ ToRemove
    BY DEF Cleanup
<1>5. /\ \A r \in Expired : verdicts'[r] = [resp |-> 0, timeout |-> 1]
      /\ \A r \in Receipts \ Expired : verdicts'[r] = verdicts[r]
      /\ verdicts' \in [Receipts -> [resp : Nat, timeout : Nat]]
    <2>1. verdicts' = [r \in Receipts |-> IF r \in Expired
                                         THEN [verdicts[r] EXCEPT !.timeout = @ + 1]
                                         ELSE verdicts[r]]
        BY DEF Cleanup
    <2>2. \A r \in Expired : verdicts[r] = [resp |-> 0, timeout |-> 0]
        BY <1>1 DEF IInv, EntriesAwaitVerdict
    <2>3. \A r \in Expired : verdicts'[r] = [resp |-> 0, timeout |-> 1]
        BY <1>1, <2>1, <2>2
    <2>4. \A r \in Receipts \ Expired : verdicts'[r] = verdicts[r]
        BY <2>1
    <2>5. ASSUME NEW r \in Receipts
          PROVE  verdicts'[r] \in [resp : Nat, timeout : Nat]
        BY <2>3, <2>4 DEF IInv, TypeOK
    <2> QED
        BY <2>1, <2>3, <2>4, <2>5
<1>6. UNCHANGED <<owner, dispatching, sending, notifying, outcome, notified,
                  deadline, scope, suspension, task, reports, known>>
    BY DEF Cleanup
<1>7. TypeOK'
    BY <1>3, <1>4, <1>5, <1>6 DEF IInv, TypeOK
<1>8. FreshReceipts'
    BY <1>1, <1>4, <1>5, <1>6 DEF IInv, FreshReceipts
<1>9. EntriesAwaitVerdict'
    <2>1. ASSUME NEW r \in Receipts
          PROVE  /\ r \in entries' => verdicts'[r] = [resp |-> 0, timeout |-> 0]
                 /\ outcome'[r] = "inProgress" => r \in entries' \/ verdicts'[r].timeout = 1
                 /\ outcome'[r] = "finished" => verdicts'[r].resp + verdicts'[r].timeout = 1
                 /\ outcome'[r] = "timedOut" => verdicts'[r].timeout = 1
        <3>1. CASE r \in Expired
            BY <1>1, <1>4, <1>5, <1>6, <3>1
        <3>2. CASE r \notin Expired
            <4>1. r \in ToRemove => outcome[r] # "inProgress"
                BY <3>2 DEF Expired
            <4> QED
                BY <1>4, <1>5, <1>6, <3>2, <4>1 DEF IInv, EntriesAwaitVerdict
        <3> QED
            BY <3>1, <3>2
    <2> QED
        BY <2>1 DEF EntriesAwaitVerdict
<1>10. AtMostOneVerdict'
    BY <1>5 DEF IInv, AtMostOneVerdict
<1>11. ReceiptBeforeTask'
    BY <1>6 DEF IInv, ReceiptBeforeTask
<1>12. ReceiptBeforeReports'
    <2>1. ASSUME NEW r \in Receipts, verdicts'[r].resp + reports'[r] > 0
          PROVE  known'[r]
        BY <1>5, <1>6, <2>1 DEF IInv, TypeOK, ReceiptBeforeReports
    <2> QED
        BY <2>1 DEF ReceiptBeforeReports
<1>13. ResponsesAreDisjoint' /\ ResponsesHoldAwaitables'
    <2>1. Responses' = Responses
        BY <1>3, <1>6 DEF Responses
    <2> QED
        BY <1>6, <2>1 DEF IInv, ResponsesAreDisjoint, ResponsesHoldAwaitables
<1>14. OnlySuspendedEntriesLinger'
    BY <1>4, <1>6 DEF IInv, OnlySuspendedEntriesLinger
<1> QED
    BY <1>7, <1>8, <1>9, <1>10, <1>11, <1>12, <1>13, <1>14 DEF IInv

\* Stuttering steps.
LEMMA StutteringKeepsInv ==
    ASSUME IInv, UNCHANGED vars
    PROVE  IInv'
<1>1. UNCHANGED <<owner, dispatching, outbox, sending, notifying, statusVars, task, reports,
                  known, verdicts>>
    BY DEF vars, statusVars
<1>2. TypeOK'
    BY <1>1 DEF IInv, TypeOK, statusVars
<1>3. ResponsesAreDisjoint' /\ ResponsesHoldAwaitables'
    <2>1. Responses' = Responses
        BY <1>1 DEF Responses, Unsent
    <2> QED
        BY <1>1, <2>1 DEF IInv, ResponsesAreDisjoint, ResponsesHoldAwaitables
<1> QED
    BY <1>1, <1>2, <1>3, HubKeepsRest DEF IInv

\* Every step of the specification keeps the invariant.
LEMMA StepKeepsInv == ASSUME IInv, [Next]_vars PROVE IInv'
<1>1. ASSUME NEW R \in SUBSET Receipts,
             \/ \E D \in dispatching \cup {{}} : NewReceipts(R, D)
             \/ RespondToRequest(R) \/ SendResponse(R) \/ LoseResponse(R)
      PROVE  IInv'
    BY <1>1, ConstantsAssumption, NewReceiptsKeepsInv, RespondToRequestKeepsInv,
       SendResponseKeepsInv, LoseResponseKeepsInv
<1>2. ASSUME NEW R \in SUBSET Receipts, NEW r \in Receipts,
             MarkAsClientsNotified(R, r)
      PROVE  IInv'
    BY <1>2, MarkAsClientsNotifiedKeepsInv
<1>3. ASSUME NEW m \in outbox, HubTake(m)
      PROVE  IInv'
    BY <1>3, HubTakeKeepsInv
<1>4. ASSUME NEW r \in Receipts, ExecutorReceive(r) \/ TaskStep(r) \/ Wake(r)
      PROVE  IInv'
    BY <1>4, ConstantsAssumption, ExecutorReceiveKeepsInv, TaskStepKeepsInv
<1>5. ASSUME NEW r \in Receipts,
             Cancel(r) \/ Resume(r) \/ DeadlinePasses(r) \/ ScopeExpires(r)
      PROVE  IInv'
    BY <1>5, RequestsAndTimeKeepInv
<1>6. CASE Cleanup
    BY <1>6, ConstantsAssumption, CleanupKeepsInv
<1>7. CASE UNCHANGED vars
    BY <1>7, StutteringKeepsInv
<1> QED
    BY <1>1, <1>2, <1>3, <1>4, <1>5, <1>6, <1>7 DEF Next

-----------------------------------------------------------------------------
(* The theorems.                                                           *)

\* The inductive invariant holds in every reachable state.
THEOREM InvariantHolds == Spec => []IInv
<1>1. Init => IInv
    BY InitInv
<1>2. IInv /\ [Next]_vars => IInv'
    BY StepKeepsInv
<1> QED
    BY <1>1, <1>2, PTL DEF Spec

\* Every variable of the command machinery keeps its type.
THEOREM TypeCorrect == Spec => []TypeOK
<1>1. IInv => TypeOK
    BY DEF IInv
<1> QED
    BY <1>1, InvariantHolds, PTL

\* However the cleanup, the task and its cancel scope race, a receipt gets one
\* ASYNC-RESP or one ASYNC-TIMEOUT at most.
THEOREM OneVerdict == Spec => []AtMostOneVerdict
<1>1. IInv => AtMostOneVerdict
    BY DEF IInv
<1> QED
    BY <1>1, InvariantHolds, PTL

\* No ASYNC-ST and no ASYNC-RESP is announced before the response with the
\* receipt was sent.
THEOREM ReceiptComesFirst == Spec => []ReceiptBeforeReports
<1>1. IInv => ReceiptBeforeReports
    BY DEF IInv
<1> QED
    BY <1>1, InvariantHolds, PTL

\* Nothing is announced about a command after an ASYNC-CANCEL was accepted: the
\* step of its task that comes too late ends the task without a word.
LEMMA CancelledStaysSilent ==
    ASSUME TypeOK, Next, NEW r \in Receipts, outcome[r] = "cancelled"
    PROVE  outcome'[r] = "cancelled" /\ verdicts'[r] = verdicts[r] /\ reports'[r] = reports[r]
<1> DEFINE Silent == /\ outcome'[r] = "cancelled"
                     /\ verdicts'[r] = verdicts[r]
                     /\ reports'[r] = reports[r]
<1>1. ASSUME NEW s \in Receipts, NEW exit \in {"caught", "normal"}, NEW out,
             out = outcome[s] \/ (outcome[s] = "inProgress" /\ out = "finished"),
             Finish(s, exit, out), UNCHANGED reports
      PROVE  Silent
    <2>1. CASE s = r
        <3>1. out = "cancelled"
            BY <1>1, <2>1
        <3>2. FinishAnnounces(r, exit, out) = "nothing"
            BY <3>1 DEF FinishAnnounces
        <3> QED
            BY <1>1, <2>1, <3>1, <3>2 DEF Finish, TypeOK
    <2>2. CASE s # r
        BY <1>1, <2>2 DEF Finish, TypeOK
    <2> QED
        BY <2>1, <2>2
<1>2. ASSUME NEW s \in Receipts, FinishAfterError(s), UNCHANGED reports
      PROVE  Silent
    BY <1>1, <1>2 DEF FinishAfterError
<1>3. ASSUME NEW s \in Receipts, TaskStep(s) \/ Wake(s)
      PROVE  Silent
    <2>1. CASE StartTask(s) \/ Park(s) \/ Wake(s)
        BY <2>1 DEF StartTask, Park, Wake, statusVars
    <2>2. CASE Report(s)
        BY <2>2, <1>2 DEF Report, InProgress, TypeOK
    <2>3. CASE Suspend(s)
        BY <2>3, <1>2 DEF Suspend, InProgress, TypeOK
    <2>4. CASE Return(s)
        <3>1. PICK out : /\ out = outcome[s] \/ (outcome[s] = "inProgress" /\ out = "finished")
                         /\ Finish(s, "normal", out)
            BY <2>4 DEF Return, InProgress
        <3> QED
            BY <1>1, <2>4, <3>1 DEF Return
    <2>5. CASE CancelledWhileRunning(s)
        BY <1>1, <2>5 DEF CancelledWhileRunning
    <2>6. CASE CancelledWhileSuspended(s)
        BY <1>1, <1>2, <2>6 DEF CancelledWhileSuspended
    <2>7. CASE ContinueAfterResume(s)
        BY <1>2, <2>7 DEF ContinueAfterResume
    <2> QED
        BY <1>3, <2>1, <2>2, <2>3, <2>4, <2>5, <2>6, <2>7 DEF TaskStep
<1>4. ASSUME NEW R \in SUBSET Receipts,
             \/ \E D \in dispatching \cup {{}} : NewReceipts(R, D)
             \/ RespondToRequest(R) \/ SendResponse(R) \/ LoseResponse(R)
             \/ \E s \in Receipts : MarkAsClientsNotified(R, s)
      PROVE  Silent
    BY <1>4 DEF NewReceipts, RespondToRequest, SendResponse, LoseResponse,
                MarkAsClientsNotified, statusVars
<1>5. ASSUME NEW m \in outbox, HubTake(m)
      PROVE  Silent
    BY <1>5 DEF HubTake, statusVars
<1>6. ASSUME NEW s \in Receipts,
             ExecutorReceive(s) \/ Cancel(s) \/ Resume(s) \/ DeadlinePasses(s) \/ ScopeExpires(s)
      PROVE  Silent
    BY <1>6 DEF ExecutorReceive, Cancel, Resume, DeadlinePasses, ScopeExpires, statusVars,
                InProgress, TypeOK
<1>7. CASE Cleanup
    <2>1. r \notin Expired
        BY DEF Expired, InProgress
    <2> QED
        BY <1>7, <2>1 DEF Cleanup
<1> QED
    BY <1>3, <1>4, <1>5, <1>6, <1>7 DEF Next

\* Once an ASYNC-CANCEL was accepted, the command has no further report and
\* gets no verdict.
THEOREM SilentAfterCancel == Spec => CancelIsSilent
<1>1. TypeOK /\ [Next]_vars =>
          [\A r \in Receipts :
              outcome[r] = "cancelled" => /\ outcome'[r] = "cancelled"
                                          /\ verdicts'[r] = verdicts[r]
                                          /\ reports'[r] = reports[r]]_vars
    BY CancelledStaysSilent
<1> QED
    BY <1>1, TypeCorrect, PTL DEF Spec, CancelIsSilent

\* An entry whose deadline was lifted belongs to a suspended command.
THEOREM NoEntryLingers == Spec => []OnlySuspendedEntriesLinger
<1>1. IInv => OnlySuspendedEntriesLinger
    BY DEF IInv
<1> QED
    BY <1>1, InvariantHolds, PTL

-----------------------------------------------------------------------------
(* The machinery implements AsyncOperation: every step is one step of the    *)
(* promise as seen through PromisedVerdict, or invisible.                    *)

\* The state of every command as the client is promised it.
Promised == [r \in Receipts |-> PromisedVerdict(r)]

\* A step that changes neither what the client knows nor a verdict.
Invisible == known' = known /\ \A r \in Receipts : PromisedVerdict(r)' = PromisedVerdict(r)

-----------------------------------------------------------------------------
\* An entry in progress is pending, a command not yet issued is unused.
LEMMA PendingEntries ==
    ASSUME IInv, NEW r \in Receipts
    PROVE  /\ r \in entries /\ InProgress(r) => PromisedVerdict(r) = "pending"
           /\ outcome[r] = "none" <=> PromisedVerdict(r) = "unused"
<1>1. r \in entries => verdicts[r].timeout = 0 /\ verdicts[r].resp = 0
    BY DEF IInv, EntriesAwaitVerdict
<1>2. outcome[r] = "none" => verdicts[r].timeout = 0 /\ verdicts[r].resp = 0
    BY DEF IInv, FreshReceipts
<1> QED
    BY <1>1, <1>2 DEF PromisedVerdict, InProgress

\* A step that keeps the outcome and the verdicts is invisible.
LEMMA SameVerdict ==
    ASSUME NEW r, verdicts'[r] = verdicts[r], outcome'[r] = outcome[r]
    PROVE  PromisedVerdict(r)' = PromisedVerdict(r)
BY DEF PromisedVerdict

\* The first state of the server is the first state of the promise.
LEMMA InitImplements == ASSUME Init PROVE Promise!Init
BY DEF Init, Promise!Init, PromisedVerdict

\* An invisible step is a stuttering step of the promise.
LEMMA InvisibleStutters == ASSUME Invisible PROVE UNCHANGED Promise!vars
<1>1. Promised' = Promised
    BY DEF Invisible, Promised
<1> QED
    BY <1>1 DEF Invisible, Promise!vars, Promised

\* New receipts are issued.
LEMMA NewReceiptsImplements ==
    ASSUME IInv, NEW R \in SUBSET Receipts, NEW D, NewReceipts(R, D)
    PROVE  Promise!Issue(R)
<1> USE DEF NewReceipts
<1>1. \A r \in R : Promised[r] = "unused"
    BY PendingEntries DEF Promised
<1>2. ASSUME NEW r \in Receipts
      PROVE  PromisedVerdict(r)' = IF r \in R THEN "pending" ELSE PromisedVerdict(r)
    <2>1. CASE r \in R
        <3>1. verdicts'[r].timeout = 0 /\ verdicts'[r].resp = 0 /\ outcome'[r] = "inProgress"
            BY <2>1 DEF IInv, FreshReceipts
        <3> QED
            BY <2>1, <3>1 DEF PromisedVerdict
    <2>2. CASE r \notin R
        BY <2>2, SameVerdict
    <2> QED
        BY <2>1, <2>2
<1>3. Promised' = [r \in Receipts |-> IF r \in R THEN "pending" ELSE Promised[r]]
    BY <1>2 DEF Promised
<1> QED
    BY <1>1, <1>3 DEF Promise!Issue, Promised

\* A response that goes out lets the client learn its receipts.
LEMMA SendResponseImplements ==
    ASSUME IInv, NEW R \in SUBSET Receipts, SendResponse(R)
    PROVE  Promise!Learn(R)
<1> USE DEF SendResponse
<1>1. <<"channel", R>> \in Responses
    BY DEF Responses
<1>2. \A r \in R : outcome[r] # "none"
    BY <1>1, ResponseMembers
<1>3. \A r \in R : Promised[r] # "unused"
    BY <1>2, PendingEntries DEF Promised
<1>4. Promised' = Promised
    BY SameVerdict DEF Promised, statusVars
<1> QED
    BY <1>3, <1>4 DEF Promise!Learn, Promised

\* The end of a task answers, times out, or is not visible.
LEMMA FinishImplements ==
    ASSUME IInv, NEW r \in Receipts, NEW exit \in {"caught", "normal"}, NEW out,
           task[r] \in Running,
           out = outcome[r] \/ (InProgress(r) /\ out = "finished"),
           InProgress(r) => (exit = "caught" <=> out = "inProgress"),
           Finish(r, exit, out), UNCHANGED known
    PROVE  Promise!Answer(r) \/ Promise!TimeOut({r}) \/ Invisible
<1> DEFINE ann == FinishAnnounces(r, exit, out)
<1>1. ASSUME NEW s \in Receipts \ {r}
      PROVE  PromisedVerdict(s)' = PromisedVerdict(s)
    <2>1. outcome'[s] = outcome[s] /\ verdicts'[s] = verdicts[s]
        BY FinishEffect
    <2> QED
        BY <2>1, SameVerdict
<1>2. known[r] /\ (r \in entries /\ InProgress(r) => Promised[r] = "pending")
    BY FinishEffect, PendingEntries DEF Promised
<1>3. CASE ann = "resp"
    <2>1. r \in entries /\ InProgress(r) /\ verdicts'[r] = [resp |-> 1, timeout |-> 0]
        BY <1>3, FinishEffect
    <2>2. PromisedVerdict(r)' = "answered"
        BY <2>1 DEF PromisedVerdict
    <2>3. Promised' = [Promised EXCEPT ![r] = "answered"]
        BY <1>1, <2>2 DEF Promised
    <2> QED
        BY <1>2, <2>1, <2>3 DEF Promise!Answer, Promised
<1>4. CASE ann = "timeout"
    <2>1. r \in entries /\ InProgress(r) /\ verdicts'[r] = [resp |-> 0, timeout |-> 1]
        BY <1>4, FinishEffect
    <2>2. PromisedVerdict(r)' = "timedOut"
        BY <2>1 DEF PromisedVerdict
    <2>3. Promised' = [s \in Receipts |-> IF s \in {r} THEN "timedOut" ELSE Promised[s]]
        BY <1>1, <2>2 DEF Promised
    <2> QED
        BY <1>2, <2>1, <2>3 DEF Promise!TimeOut, Promised
<1>5. CASE ann = "nothing"
    <2>1. /\ r \notin entries \/ out \in {"cancelled", "timedOut"}
          /\ outcome'[r] = out /\ verdicts'[r] = verdicts[r]
        BY <1>5, FinishEffect
    <2>2. CASE out = outcome[r]
        <3>1. PromisedVerdict(r)' = PromisedVerdict(r)
            BY <2>1, <2>2, SameVerdict
        <3> QED
            BY <1>1, <3>1 DEF Invisible
    <2>3. CASE InProgress(r) /\ out = "finished"
        <3>1. verdicts[r].timeout = 1
            BY <2>1, <2>3 DEF IInv, EntriesAwaitVerdict, InProgress
        <3>2. PromisedVerdict(r)' = PromisedVerdict(r)
            BY <2>1, <3>1 DEF PromisedVerdict
        <3> QED
            BY <1>1, <3>2 DEF Invisible
    <2> QED
        BY <2>2, <2>3
<1>6. ann \in {"resp", "timeout", "nothing"}
    BY DEF FinishAnnounces
<1> QED
    BY <1>3, <1>4, <1>5, <1>6

\* A step of the task of a command that does not end it is not visible.
LEMMA TaskStepImplements ==
    ASSUME IInv, NEW r \in Receipts, TaskStep(r) \/ Wake(r)
    PROVE  Promise!Answer(r) \/ Promise!TimeOut({r}) \/ Invisible
<1>1. ASSUME UNCHANGED <<outcome, verdicts, known>>
      PROVE  Invisible
    BY <1>1, SameVerdict DEF Invisible
<1>2. CASE StartTask(r) \/ Park(r) \/ Wake(r)
    BY <1>1, <1>2 DEF StartTask, Park, Wake, statusVars
<1>3. CASE Report(r)
    <2>1. CASE InProgress(r)
        BY <1>1, <1>3, <2>1 DEF Report
    <2>2. CASE ~InProgress(r)
        BY <1>3, <2>2, FinishImplements DEF Report, FinishAfterError, Running
    <2> QED
        BY <2>1, <2>2
<1>4. CASE Suspend(r)
    <2>1. CASE InProgress(r)
        BY <1>1, <1>4, <2>1 DEF Suspend
    <2>2. CASE ~InProgress(r)
        BY <1>4, <2>2, FinishImplements DEF Suspend, FinishAfterError, Running
    <2> QED
        BY <2>1, <2>2
<1>5. CASE Return(r)
    BY <1>5, FinishImplements DEF Return, Running, InProgress
<1>6. CASE CancelledWhileRunning(r)
    BY <1>6, FinishImplements DEF CancelledWhileRunning, Running, InProgress
<1>7. CASE CancelledWhileSuspended(r)
    <2>1. CASE InProgress(r)
        BY <1>7, <2>1, FinishImplements DEF CancelledWhileSuspended, Running, InProgress
    <2>2. CASE ~InProgress(r)
        BY <1>7, <2>2, FinishImplements DEF CancelledWhileSuspended, FinishAfterError, Running
    <2> QED
        BY <2>1, <2>2
<1>8. CASE ContinueAfterResume(r)
    <2>1. CASE InProgress(r)
        BY <1>1, <1>8, <2>1 DEF ContinueAfterResume
    <2>2. CASE ~InProgress(r)
        BY <1>8, <2>2, FinishImplements DEF ContinueAfterResume, FinishAfterError, Running
    <2> QED
        BY <2>1, <2>2
<1> QED
    BY <1>2, <1>3, <1>4, <1>5, <1>6, <1>7, <1>8 DEF TaskStep

\* Only an entry that is pending can be cancelled.
LEMMA CancelImplements ==
    ASSUME IInv, NEW r \in Receipts, Cancel(r)
    PROVE  Promise!Cancel(r)
<1> USE DEF Cancel
<1>1. Promised[r] = "pending"
    BY PendingEntries DEF Promised
<1>2. verdicts[r].timeout = 0 /\ verdicts[r].resp = 0
    BY DEF IInv, EntriesAwaitVerdict
<1>3. PromisedVerdict(r)' = "cancelled"
    BY <1>2 DEF PromisedVerdict, IInv, TypeOK
<1>4. ASSUME NEW s \in Receipts \ {r}
      PROVE  PromisedVerdict(s)' = PromisedVerdict(s)
    BY SameVerdict DEF IInv, TypeOK
<1>5. Promised' = [Promised EXCEPT ![r] = "cancelled"]
    BY <1>3, <1>4 DEF Promised
<1> QED
    BY <1>1, <1>5 DEF Promise!Cancel, Promised

\* The cleanup times out entries that are pending.
LEMMA CleanupImplements ==
    ASSUME IInv, Cleanup
    PROVE  Promise!TimeOut(Expired) /\ Expired \in SUBSET Receipts
<1>1. \A r \in Expired : r \in entries /\ r \in Receipts /\ InProgress(r)
    BY DEF Expired, ToRemove, IInv, TypeOK
<1>2. \A r \in Expired : Promised[r] = "pending"
    BY <1>1, PendingEntries DEF Promised
<1>3. ASSUME NEW r \in Receipts
      PROVE  PromisedVerdict(r)' = IF r \in Expired THEN "timedOut" ELSE PromisedVerdict(r)
    <2>1. CASE r \in Expired
        <3>1. verdicts[r].timeout = 0 /\ verdicts'[r].timeout = verdicts[r].timeout + 1
            BY <1>1, <2>1 DEF Cleanup, IInv, EntriesAwaitVerdict
        <3> QED
            BY <2>1, <3>1 DEF PromisedVerdict
    <2>2. CASE r \notin Expired
        BY <2>2, SameVerdict DEF Cleanup
    <2> QED
        BY <2>1, <2>2
<1>4. Promised' = [r \in Receipts |-> IF r \in Expired THEN "timedOut" ELSE Promised[r]]
    BY <1>3 DEF Promised
<1> QED
    BY <1>1, <1>2, <1>4 DEF Promise!TimeOut, Promised, Cleanup

\* What the hub, the executor, the clock and ASYNC-RESUME do is not visible.
LEMMA OthersAreInvisible ==
    ASSUME \/ \E R \in SUBSET Receipts :
                 \/ RespondToRequest(R) \/ LoseResponse(R)
                 \/ \E r \in Receipts : MarkAsClientsNotified(R, r)
           \/ \E m \in outbox : HubTake(m)
           \/ \E r \in Receipts : \/ ExecutorReceive(r) \/ Resume(r)
                                  \/ DeadlinePasses(r) \/ ScopeExpires(r)
    PROVE  Invisible
<1>1. UNCHANGED <<outcome, verdicts, known>>
    BY DEF RespondToRequest, LoseResponse, MarkAsClientsNotified, HubTake, ExecutorReceive,
           Resume, DeadlinePasses, ScopeExpires, statusVars
<1> QED
    BY <1>1, SameVerdict DEF Invisible

\* Every step of the server is a step of the promise or invisible.
LEMMA StepImplements == ASSUME IInv, Next PROVE Promise!Next \/ Invisible
<1>1. ASSUME NEW R \in SUBSET Receipts, NEW D \in dispatching \cup {{}}, NewReceipts(R, D)
      PROVE  Promise!Next
    BY <1>1, NewReceiptsImplements DEF Promise!Next
<1>2. ASSUME NEW R \in SUBSET Receipts, SendResponse(R)
      PROVE  Promise!Next
    BY <1>2, SendResponseImplements DEF Promise!Next
<1>3. ASSUME NEW r \in Receipts, TaskStep(r) \/ Wake(r)
      PROVE  Promise!Next \/ Invisible
    BY <1>3, TaskStepImplements DEF Promise!Next
<1>4. ASSUME NEW r \in Receipts, Cancel(r)
      PROVE  Promise!Next
    BY <1>4, CancelImplements DEF Promise!Next
<1>5. CASE Cleanup
    BY <1>5, CleanupImplements DEF Promise!Next
<1>a. ASSUME NEW R \in SUBSET Receipts,
             \/ RespondToRequest(R) \/ LoseResponse(R)
             \/ \E r \in Receipts : MarkAsClientsNotified(R, r)
      PROVE  Invisible
    BY <1>a, OthersAreInvisible
<1>b. ASSUME NEW m \in outbox, HubTake(m)
      PROVE  Invisible
    BY <1>b, OthersAreInvisible
<1>c. ASSUME NEW r \in Receipts,
             ExecutorReceive(r) \/ Resume(r) \/ DeadlinePasses(r) \/ ScopeExpires(r)
      PROVE  Invisible
    BY <1>c, OthersAreInvisible
<1> QED
    BY <1>1, <1>2, <1>3, <1>4, <1>5, <1>a, <1>b, <1>c DEF Next

\* A step in which the server does nothing is invisible.
LEMMA StutteringIsInvisible == ASSUME UNCHANGED vars PROVE Invisible
<1>1. UNCHANGED <<outcome, verdicts, known>>
    BY DEF vars
<1> QED
    BY <1>1, SameVerdict DEF Invisible

-----------------------------------------------------------------------------
\* The server keeps the promise of AsyncOperation: a receipt is issued once,
\* gets one verdict at most, is answered only if the client knows it, and is
\* never heard of again once it was cancelled.
THEOREM KeepsPromise == Spec => ImplementsPromise
<1>1. Init => Promise!Init
    BY InitImplements
<1>2. IInv /\ [Next]_vars => [Promise!Next]_(Promise!vars)
    BY StepImplements, StutteringIsInvisible, InvisibleStutters
<1> QED
    BY <1>1, <1>2, InvariantHolds, PTL DEF Spec, Promise!Spec, ImplementsPromise
=============================================================================
