----------------------------- MODULE HTTPBridge -----------------------------
(***************************************************************************)
(* The HTTP request-response extension: index() turns one HTTP request     *)
(* into a protocol message of a dummy client, and holds the request open   *)
(* until the response and the results of all its commands have come in     *)
(* over the HTTPChannel of that client.  The client is named after the     *)
(* host the request was sent to, so requests that overlap share it.        *)
(*                                                                         *)
(* The commands are those of AsyncOperation: this module sees their        *)
(* verdicts as the notifications that the server sends to the client.      *)
(***************************************************************************)
EXTENDS Naturals, FiniteSets

CONSTANTS
    Requests,         \* HTTP requests
    Receipts,         \* receipts of asynchronous commands
    WithCredentials,  \* requests with an Authorization header
    SingleUAV,        \* requests that dispatch_to_uav() handles (LOG-DATA)
    ClientIds,        \* whether requests come with message ids of their own
    None              \* a model value

ASSUME RequestsAssumption ==
    /\ WithCredentials \subseteq Requests
    /\ SingleUAV \subseteq Requests
    /\ ClientIds \in BOOLEAN
    /\ Requests \cap Receipts = {}
    /\ None \notin Requests \cup [req : Requests, stage : {"auth", "main"}]

VARIABLES
    idOf,       \* message id of each request, as the request it is unique to
    client,     \* the request that registered the HTTP client, if there is one
    channelOf,  \* the channel of each request, as the request that created it
    awaited,    \* _message_id of each channel
    queue,      \* _queue of each channel
    phase,      \* where index() is
    outbox,     \* messages that the hub has yet to deliver
    dropped,    \* history: requests and receipts whose response or result was dropped
    stuck,      \* sends that wait for the consumer of their queue
    answer,     \* the request whose response was taken for the response
    waitingFor, \* receipts that index() waits for
    merged,     \* what index() put into the response for each receipt
    owner,      \* the request that each receipt was issued for
    crowded,    \* history: another request was served at the same time
    known, verdict   \* the commands, see AsyncOperation

channelVars == <<client, channelOf, awaited, queue, stuck>>
requestVars == <<idOf, phase, answer, waitingFor, merged, crowded>>
commandVars == <<owner, known, verdict>>
vars == <<channelVars, requestVars, outbox, dropped, commandVars>>

Ops == INSTANCE AsyncOperation

-----------------------------------------------------------------------------
\* Message ids and queues: one for the authentication, one for the message.
Id(q, stage) == [req |-> IF stage = "main" THEN idOf[q] ELSE q, stage |-> stage]
Queue(q, stage) == [req |-> q, stage |-> stage]
Stages == [req : Requests, stage : {"auth", "main"}]

\* Broken: the response refers to a message id without its stage.
ResponseBareId(q, stage, R) ==
    [type |-> "response", refs |-> idOf[q], of |-> q, to |-> channelOf'[q], ids |-> R]

\* A response goes to the channel of its request, a notification to whatever
\* client is registered under the name of the host.
Response(q, stage, R) ==
    [type |-> "response", refs |-> Id(q, stage), of |-> q, to |-> channelOf'[q], ids |-> R]
Notification(type, R) ==
    [type |-> type, refs |-> None, of |-> None, to |-> None, ids |-> R]

Active(q) == phase[q] \in {"authenticating", "handling", "waiting"}
IsOpen(u) ==
    \/ u.stage = "auth" /\ phase[u.req] = "authenticating"
    \/ u.stage = "main" /\ phase[u.req] \in {"handling", "waiting"}

Init ==
    /\ idOf \in [Requests -> Requests]
    /\ ~ClientIds => \A q \in Requests : idOf[q] = q
    /\ client = None
    /\ channelOf = [q \in Requests |-> None]
    /\ awaited = [q \in Requests |-> None]
    /\ queue = [q \in Requests |-> None]
    /\ phase = [q \in Requests |-> "new"]
    /\ outbox = {} /\ dropped = {} /\ stuck = {}
    /\ answer = [q \in Requests |-> None]
    /\ waitingFor = [q \in Requests |-> {}]
    /\ merged = [r \in Receipts |-> "nothing"]
    /\ owner = [r \in Receipts |-> None]
    /\ crowded = [q \in Requests |-> FALSE]
    /\ Ops!Init

-----------------------------------------------------------------------------
\* The hub drops the response to a request or the result of a command.
Drop(lost) ==
    /\ dropped' = dropped \cup lost
    /\ UNCHANGED outbox

\* enqueue_message(): a full queue, which the messages of all other clients
\* may have filled, drops the message m.
Enqueue(m, lost) ==
    \/ /\ outbox' = outbox \cup {m}
       /\ UNCHANGED dropped
    \/ Drop(lost)

-----------------------------------------------------------------------------
(* The HTTP channel.                                                       *)

\* expect_response_for(): the channel c waits for the answer to one stage.
Expect(c, q, stage) ==
    /\ awaited' = [awaited EXCEPT ![c] = Id(q, stage)]
    /\ queue' = [queue EXCEPT ![c] = Queue(q, stage)]

\* A response that went out starts the commands in it; see when_sent().
Sent(m) ==
    IF m.type = "response" /\ m.ids # {}
    THEN Ops!Learn(m.ids) /\ UNCHANGED owner
    ELSE UNCHANGED commandVars

\* Broken: takes the first response for the one that is awaited.
AcceptsAnyResponse(c, m) ==
    IF awaited[c] # None THEN m.type = "response"
    ELSE queue[c] # None /\ m.type # "response"

\* Broken: lets nothing through after the response.
AcceptsResponseOnly(c, m) ==
    awaited[c] # None /\ m.type = "response" /\ m.refs = awaited[c]

\* What HTTPChannel.send() of channel c lets through.
Accepts(c, m) ==
    IF awaited[c] # None THEN m.type = "response" /\ m.refs = awaited[c]
    ELSE queue[c] # None /\ m.type # "response"

\* The hub hands the message m to the channel c.
SendTo(c, m) ==
    \/ /\ ~Accepts(c, m)
       /\ Sent(m)
       /\ UNCHANGED <<awaited, queue, stuck>>
    \/ /\ Accepts(c, m)
       /\ awaited' = [awaited EXCEPT ![c] = None]
       /\ \/ /\ queue[c] = None
             /\ Sent(m)
             /\ UNCHANGED <<queue, stuck>>
          \/ /\ queue[c] # None
             /\ ~IsOpen(queue[c])
             /\ queue' = [queue EXCEPT ![c] = None]
             /\ Sent(m)
             /\ UNCHANGED stuck
          \/ /\ queue[c] # None
             /\ IsOpen(queue[c])
             /\ stuck' = stuck \cup {[channel |-> c, queue |-> queue[c], msg |-> m]}
             /\ UNCHANGED <<queue, commandVars>>

Deliver(m) ==
    /\ m \in outbox
    /\ outbox' = outbox \ {m}
    /\ \/ m.type = "response" /\ SendTo(m.to, m)
       \/ m.type # "response" /\ client # None /\ SendTo(client, m)
       \/ m.type # "response" /\ client = None /\ UNCHANGED <<awaited, queue, stuck, commandVars>>
    /\ UNCHANGED <<requestVars, dropped, client, channelOf>>

\* A send whose queue was closed by the consumer gives the queue of its channel
\* up, which may be another one by now.
SendBreaks(s) ==
    /\ s \in stuck
    /\ ~IsOpen(s.queue)
    /\ stuck' = stuck \ {s}
    /\ queue' = [queue EXCEPT ![s.channel] = None]
    /\ Sent(s.msg)
    /\ UNCHANGED <<requestVars, outbox, dropped, client, channelOf, awaited>>

-----------------------------------------------------------------------------
(* The HTTP request.                                                       *)

\* Broken: use() does not remove the client.
LeaveRegistered(q) == client' = client

\* Leaving ClientRegistry.use(): the client goes with the request that added it.
Leave(q) == client' = IF channelOf[q] = q THEN None ELSE client

\* index() enters ClientRegistry.use() and submits the AUTH-REQ or the message.
Begin(q) ==
    /\ phase[q] = "new"
    /\ client' = IF client = None THEN q ELSE client
    /\ channelOf' = [channelOf EXCEPT ![q] = client']
    /\ crowded' = [p \in Requests |->
                      crowded[p] \/ (p = q /\ \E o \in Requests : Active(o))
                                 \/ (p # q /\ Active(p))]
    /\ \/ /\ q \in WithCredentials
          /\ phase' = [phase EXCEPT ![q] = "authenticating"]
          /\ Expect(client', q, "auth")
          /\ Enqueue(Response(q, "auth", {}), {})
       \/ /\ q \notin WithCredentials
          /\ phase' = [phase EXCEPT ![q] = "handling"]
          /\ Expect(client', q, "main")
          /\ UNCHANGED <<outbox, dropped>>
    /\ UNCHANGED <<idOf, answer, waitingFor, merged, stuck, commandVars>>

\* authenticate_client_if_needed() gets the AUTH-RESP.
Authenticate(q) ==
    \E s \in stuck :
        /\ phase[q] = "authenticating"
        /\ s.queue = Queue(q, "auth")
        /\ s.msg.type = "response"
        /\ stuck' = stuck \ {s}
        /\ \/ /\ phase' = [phase EXCEPT ![q] = "handling"]
              /\ Expect(channelOf[q], q, "main")
              /\ UNCHANGED client
           \/ /\ phase' = [phase EXCEPT ![q] = "failed"]
              /\ Leave(q)
              /\ UNCHANGED <<awaited, queue>>
        /\ UNCHANGED <<idOf, answer, waitingFor, merged, crowded, outbox, dropped, channelOf,
                       commandVars>>

\* The message hub handled the message: the response may carry receipts.  A
\* middleware may drop it, as a full queue does.
Handle(q) ==
    /\ phase[q] = "handling"
    /\ phase' = [phase EXCEPT ![q] = "waiting"]
    /\ channelOf' = channelOf
    /\ \E R \in SUBSET {r \in Receipts : verdict[r] = "unused"} :
          /\ q \in SingleUAV => Cardinality(R) <= 1
          /\ Ops!Issue(R)
          /\ owner' = [r \in Receipts |-> IF r \in R THEN q ELSE owner[r]]
          /\ Enqueue(Response(q, "main", R), {q})
    /\ UNCHANGED <<idOf, answer, waitingFor, merged, crowded, client, awaited, queue, stuck>>

\* Nobody handled the message (400): the rejection goes out all the same.
Refuse(q) ==
    /\ phase[q] = "handling"
    /\ phase' = [phase EXCEPT ![q] = "failed"]
    /\ channelOf' = channelOf
    /\ outbox' = outbox \cup {Response(q, "main", {})}
    /\ Leave(q)
    /\ UNCHANGED <<idOf, answer, waitingFor, merged, crowded, dropped, awaited, queue, stuck,
                   commandVars>>

\* The HTTP client hangs up.
HangUp(q) ==
    /\ Active(q)
    /\ phase' = [phase EXCEPT ![q] = "failed"]
    /\ Leave(q)
    /\ UNCHANGED <<idOf, answer, waitingFor, merged, crowded, outbox, dropped, channelOf, awaited, queue,
                   stuck, commandVars>>

\* extract_receipts_from_response(): dispatch_to_uav() puts a bare receipt in
\* the response where dispatch_to_uavs() puts a dictionary, and a bare receipt
\* is thrown away.
ExtractedReceipts(m) == IF m.of \in SingleUAV THEN {} ELSE m.ids

\* The receipts of R that a notification settles; the body of an ASYNC-TIMEOUT
\* has "ids", but index() looks for "id".
Settled(m, R) == IF m.type = "ASYNC-TIMEOUT" THEN {} ELSE m.ids \cap R

\* Broken: answers the HTTP request as soon as one result is there.
GoesOnUntilFirst(q) == waitingFor'[q] = waitingFor[q] /\ waitingFor'[q] # {}

\* Whether the loop of index() goes on.
GoesOn(q) == waitingFor'[q] # {}

\* index() takes a message out of its queue.  The response is always the first
\* one there: the channel lets nothing else through before it.
Receive(q, s) ==
    /\ s \in stuck
    /\ phase[q] = "waiting"
    /\ s.queue = Queue(q, "main")
    /\ stuck' = stuck \ {s}
    /\ \/ /\ answer[q] = None
          /\ s.msg.type = "response"
          /\ answer' = [answer EXCEPT ![q] = s.msg.of]
          /\ waitingFor' = [waitingFor EXCEPT ![q] = ExtractedReceipts(s.msg)]
          /\ UNCHANGED merged
       \/ /\ answer[q] # None
          /\ LET R == Settled(s.msg, waitingFor[q]) IN
             /\ waitingFor' = [waitingFor EXCEPT ![q] = @ \ R]
             /\ merged' = [r \in Receipts |-> IF r \in R THEN s.msg.type ELSE merged[r]]
          /\ UNCHANGED answer
    /\ IF GoesOn(q)
       THEN UNCHANGED <<phase, client>>
       ELSE phase' = [phase EXCEPT ![q] = "answered"] /\ Leave(q)
    /\ Sent(s.msg)
    /\ UNCHANGED <<idOf, crowded, outbox, dropped, channelOf, awaited, queue>>

-----------------------------------------------------------------------------
(* The commands, as AsyncOperation lets them proceed.                      *)

Notify(type, R, lost) ==
    /\ Enqueue(Notification(type, R), lost)
    /\ UNCHANGED <<requestVars, channelVars, owner>>

CommandAnswers(r) == Ops!Answer(r) /\ Notify("ASYNC-RESP", {r}, {r})

CommandsTimeOut(R) == R # {} /\ Ops!TimeOut(R) /\ Notify("ASYNC-TIMEOUT", R, {})

\* A suspension; index() ignores an ASYNC-ST without the "suspended" flag.
CommandSuspends(r) ==
    /\ verdict[r] = "pending" /\ known[r]
    /\ Notify("ASYNC-ST", {r}, {})
    /\ UNCHANGED <<known, verdict>>

CommandIsCancelled(r) ==
    /\ Ops!Cancel(r)
    /\ UNCHANGED <<requestVars, channelVars, outbox, dropped, owner>>

-----------------------------------------------------------------------------
Next ==
    \/ \E q \in Requests :
          \/ Begin(q) \/ Authenticate(q) \/ Handle(q) \/ Refuse(q) \/ HangUp(q)
          \/ \E s \in stuck : Receive(q, s)
    \/ \E m \in outbox : Deliver(m)
    \/ \E s \in stuck : SendBreaks(s)
    \/ \E r \in Receipts :
          CommandAnswers(r) \/ CommandSuspends(r) \/ CommandIsCancelled(r)
    \/ \E R \in SUBSET Receipts : CommandsTimeOut(R)

Spec == Init /\ [][Next]_vars

\* The hub sends what is in its queue in turn, and index() reads what was sent
\* in turn: a suspension that is reported over and over does not keep a
\* response or a result back.  Nothing is assumed of commands and HTTP clients.
Fairness ==
    /\ \A q \in Requests :
          /\ WF_vars(\E m \in outbox : m.of = q /\ Deliver(m))
          /\ WF_vars(\E s \in stuck : s.msg.type = "response" /\ Receive(q, s))
    /\ \A r \in Receipts :
          /\ WF_vars(\E m \in outbox : /\ m.type \in {"ASYNC-RESP", "ASYNC-TIMEOUT"}
                                      /\ r \in m.ids
                                      /\ Deliver(m))
          /\ WF_vars(\E q \in Requests, s \in stuck : /\ s.msg.type \in {"ASYNC-RESP", "ASYNC-TIMEOUT"}
                                                      /\ r \in s.msg.ids
                                                      /\ Receive(q, s))

FairSpec == Spec /\ Fairness

-----------------------------------------------------------------------------
(* Properties.                                                             *)

Message ==
    [type : {"response"}, refs : Stages, of : Requests, to : Requests, ids : SUBSET Receipts]
      \cup [type : {"ASYNC-RESP", "ASYNC-ST", "ASYNC-TIMEOUT"}, refs : {None}, of : {None},
            to : {None}, ids : SUBSET Receipts]

TypeOK ==
    /\ idOf \in [Requests -> Requests]
    /\ client \in Requests \cup {None}
    /\ channelOf \in [Requests -> Requests \cup {None}]
    /\ awaited \in [Requests -> Stages \cup {None}]
    /\ queue \in [Requests -> Stages \cup {None}]
    /\ phase \in [Requests -> {"new", "authenticating", "handling", "waiting", "answered", "failed"}]
    /\ outbox \subseteq Message
    /\ dropped \subseteq Requests \cup Receipts
    /\ stuck \subseteq [channel : Requests, queue : Stages, msg : Message]
    /\ answer \in [Requests -> Requests \cup {None}]
    /\ waitingFor \in [Requests -> SUBSET Receipts]
    /\ merged \in [Receipts -> {"nothing", "ASYNC-RESP", "ASYNC-ST"}]
    /\ owner \in [Receipts -> Requests \cup {None}]
    /\ crowded \in [Requests -> BOOLEAN]
    /\ known \in [Receipts -> BOOLEAN]
    /\ verdict \in [Receipts -> Ops!Verdicts]

\* "Only the response to the submitted request will be delivered back to the
\* client", says the docstring of the module.
OwnResponse == \A q \in Requests : answer[q] \in {None, q}

\* An HTTP request that is answered has the outcome of every command it
\* started with receipts in a dictionary, and an outcome is never made up: a
\* result was announced.
AnswerIsComplete ==
    \A q \in Requests \ SingleUAV, r \in Receipts :
        phase[q] = "answered" /\ owner[r] = q =>
            /\ merged[r] \in {"ASYNC-RESP", "ASYNC-ST"}
            /\ merged[r] = "ASYNC-RESP" => verdict[r] = "answered"

\* The dummy client never outlives the request that registered it, however
\* the requests that share it come and go.
NoClientLeftBehind == client # None => Active(client)

\* A broken send took the queue of q off its channel: a send that waited for
\* the queue of the authentication breaks after expect_response_for() was
\* called again, for the message.
LostItsQueue(q) == q \in WithCredentials /\ queue[channelOf[q]] = None

\* A request that is served alone is answered when all its commands are, unless
\* the hub dropped its response or a result (index() has no timeout and waits
\* for ever then), or a broken send took its queue away.  Whatever earlier
\* requests of the host have left behind, nothing else gets lost on the way.
LoneRequestIsAnswered ==
    \A q \in Requests :
        (/\ phase[q] = "waiting" /\ q \notin dropped
         /\ \A r \in Receipts : owner[r] = q => verdict[r] = "answered" /\ r \notin dropped)
            ~> (phase[q] # "waiting" \/ crowded[q] \/ LostItsQueue(q))
=============================================================================
