---------------------------- MODULE HTTPBridgeProofs ----------------------------
(***************************************************************************)
(* Safety of the HTTP extension for any sets of requests and receipts.     *)
(***************************************************************************)
EXTENDS HTTPBridge, TLAPS

(* The inductive invariant.                                                *)

Main(q) == Queue(q, "main")
Mail == outbox \cup {s.msg : s \in stuck}
Owned(q) == {r \in Receipts : owner[r] = q}
Handled(q) == phase[q] \in {"waiting", "answered", "failed"}

\* The client is that of a request in progress, and of its channel.
Registered ==
    /\ client # None => Active(client) /\ channelOf[client] = client
    /\ \A q \in Requests : phase[q] # "new" => channelOf[q] # None

\* A request gets one response at most: its channel stops waiting as soon as it
\* lets one through.
OneResponse ==
    /\ \A q \in Requests : phase[q] \in {"new", "authenticating", "handling"} => answer[q] = None
    /\ \A c, q \in Requests :
          awaited[c] # None /\ queue[c] = Main(q) =>
              /\ c = channelOf[q]
              /\ phase[q] \notin {"new", "authenticating"}
              /\ answer[q] = None
              /\ \A s \in stuck : s.msg.type = "response" => s.queue # Main(q)
    /\ \A s \in stuck, q \in Requests :
          s.msg.type = "response" /\ s.queue = Main(q) =>
              /\ phase[q] \notin {"new", "authenticating"}
              /\ answer[q] = None
              /\ \A t \in stuck : t.msg.type = "response" /\ t.queue = Main(q) => t = s

\* With message ids of the server's own, it is the response to that request.
OwnIds ==
    /\ \A q \in Requests : idOf[q] = q
    /\ \A c \in Requests : awaited[c] # None /\ queue[c] # None => awaited[c] = queue[c]
    /\ \A m \in Mail : m.type = "response" => m.refs.req = m.of
    /\ \A s \in stuck : s.msg.type = "response" => s.msg.refs = s.queue

\* A receipt belongs to the request it was issued for, and the response to a
\* request has all its receipts.
ReceiptsAreSent ==
    /\ \A r \in Receipts : verdict[r] = "unused" => owner[r] = None
    /\ \A r \in Receipts : owner[r] # None => Handled(owner[r])
    /\ \A m \in Mail : m.type = "response" /\ m.refs.stage = "main" =>
          /\ Handled(m.of)
          /\ phase[m.of] # "failed" => m.ids = Owned(m.of)

ResultsAreTrue ==
    \A m \in Mail : m.type = "ASYNC-RESP" => \A r \in m.ids : verdict[r] = "answered"

HasOutcome(r) ==
    /\ merged[r] \in {"ASYNC-RESP", "ASYNC-ST"}
    /\ merged[r] = "ASYNC-RESP" => verdict[r] = "answered"

\* What a request does not wait for any more is in its response.
WaitsForTheRest ==
    /\ \A q \in Requests : phase[q] = "answered" => answer[q] # None /\ waitingFor[q] = {}
    /\ \A q \in Requests \ SingleUAV, r \in Receipts :
          owner[r] = q /\ answer[q] # None /\ phase[q] \in {"waiting", "answered"} =>
              r \in waitingFor[q] \/ HasOutcome(r)

IInv ==
    /\ TypeOK /\ Registered /\ OneResponse /\ ReceiptsAreSent /\ ResultsAreTrue
    /\ ~ClientIds => OwnIds /\ OwnResponse /\ WaitsForTheRest

-----------------------------------------------------------------------------
(* What the actions have in common.                                        *)

LEMMA MessageFields ==
    ASSUME NEW m \in Message
    PROVE  /\ m.type \in {"response", "ASYNC-RESP", "ASYNC-ST", "ASYNC-TIMEOUT"}
           /\ m.ids \in SUBSET Receipts
           /\ m.type = "response" => m.refs \in Stages /\ m.of \in Requests /\ m.to \in Requests
           /\ m.type # "response" => m.refs = None /\ m.of = None /\ m.to = None
BY DEF Message

\* What is enqueued is under way, or was dropped.
LEMMA EnqueueEffect ==
    ASSUME TypeOK, NEW m \in Message, NEW lost \in SUBSET (Requests \cup Receipts), Enqueue(m, lost)
    PROVE  /\ outbox' \in {outbox, outbox \cup {m}}
           /\ outbox' \subseteq Message
           /\ dropped' \subseteq Requests \cup Receipts
BY DEF TypeOK, Enqueue, Drop

LEMMA InitHolds == Init => IInv
<1> SUFFICES ASSUME Init PROVE IInv
    OBVIOUS
<1>1. TypeOK
    BY DEF Init, TypeOK, Ops!Init, Ops!Verdicts
<1>2. Registered /\ OneResponse /\ ReceiptsAreSent /\ ResultsAreTrue
    BY DEF Init, Registered, OneResponse, ReceiptsAreSent, ResultsAreTrue, Mail, Ops!Init
<1>3. ~ClientIds => OwnIds /\ OwnResponse /\ WaitsForTheRest
    BY DEF Init, OwnIds, OwnResponse, WaitsForTheRest, Mail
<1> QED BY <1>1, <1>2, <1>3 DEF IInv

\* The HTTP client hangs up.
LEMMA HangUpKeepsInv ==
    ASSUME IInv, NEW q \in Requests, HangUp(q)
    PROVE  IInv'
<1> USE RequestsAssumption DEF IInv
<1>1. /\ Active(q)
      /\ phase' = [phase EXCEPT ![q] = "failed"]
      /\ client' = IF channelOf[q] = q THEN None ELSE client
      /\ UNCHANGED <<idOf, answer, waitingFor, merged, crowded, outbox, dropped, channelOf, awaited, queue,
                     stuck, owner, known, verdict>>
    BY DEF HangUp, Leave, commandVars
<1>2. TypeOK'
    BY <1>1 DEF TypeOK
<1>3. Registered'
    BY <1>1 DEF TypeOK, Registered, Active
<1>4. OneResponse'
    BY <1>1 DEF TypeOK, OneResponse, Active, Main, Queue
<1>5. ReceiptsAreSent' /\ ResultsAreTrue'
    BY <1>1 DEF TypeOK, ReceiptsAreSent, ResultsAreTrue, Mail, Handled, Owned
<1>6. ~ClientIds => OwnIds' /\ OwnResponse' /\ WaitsForTheRest'
    BY <1>1 DEF TypeOK, OwnIds, OwnResponse, WaitsForTheRest, Mail, HasOutcome
<1> QED BY <1>2, <1>3, <1>4, <1>5, <1>6

\* index() registers the client, or shares it, and expects its first response.
LEMMA BeginKeepsInv ==
    ASSUME IInv, NEW q \in Requests, Begin(q)
    PROVE  IInv'
<1> USE RequestsAssumption DEF IInv
<1> DEFINE c == client'
           stage == IF q \in WithCredentials THEN "auth" ELSE "main"
<1>1. /\ phase[q] = "new"
      /\ client' = IF client = None THEN q ELSE client
      /\ channelOf' = [channelOf EXCEPT ![q] = c]
      /\ phase' = [phase EXCEPT ![q] = IF q \in WithCredentials THEN "authenticating" ELSE "handling"]
      /\ awaited' = [awaited EXCEPT ![c] = Id(q, stage)]
      /\ queue' = [queue EXCEPT ![c] = Queue(q, stage)]
      /\ UNCHANGED <<idOf, answer, waitingFor, merged, stuck, owner, known, verdict>>
    BY DEF Begin, Expect, commandVars
<1>2. c \in Requests /\ channelOf' \in [Requests -> Requests \cup {None}] /\ channelOf'[q] = c
    BY <1>1 DEF TypeOK
<1>3. /\ Response(q, "auth", {}) \in Message
      /\ Id(q, stage) \in Stages /\ Queue(q, stage) \in Stages
    BY <1>2 DEF TypeOK, Response, Message, Id, Queue, Stages
<1>4. /\ outbox' \in {outbox, outbox \cup {Response(q, "auth", {})}}
      /\ outbox' \subseteq Message
      /\ dropped' \subseteq Requests \cup Receipts
    <2>1. CASE Enqueue(Response(q, "auth", {}), {})
        BY <1>3, <2>1, EnqueueEffect
    <2>2. CASE UNCHANGED <<outbox, dropped>>
        BY <2>2 DEF TypeOK
    <2> QED BY <2>1, <2>2 DEF Begin
<1>5. TypeOK'
    <2>1. crowded' \in [Requests -> BOOLEAN]
        BY DEF Begin
    <2>2. outbox' \subseteq Message /\ dropped' \subseteq Requests \cup Receipts
        BY <1>4
    <2> QED BY <1>1, <1>2, <1>3, <2>1, <2>2 DEF TypeOK
<1>6. Registered'
    BY <1>1, <1>2 DEF TypeOK, Registered, Active
<1>7. OneResponse'
    BY <1>1, <1>2 DEF TypeOK, OneResponse, Main, Queue
<1>8. Mail' \subseteq Mail \cup {Response(q, "auth", {})}
    BY <1>1, <1>4 DEF Mail
<1>9. ReceiptsAreSent' /\ ResultsAreTrue'
    BY <1>1, <1>8 DEF TypeOK, ReceiptsAreSent, ResultsAreTrue, Handled, Owned, Response, Id
<1>10. ~ClientIds => OwnIds' /\ OwnResponse' /\ WaitsForTheRest'
    <2>1. ~ClientIds => OwnIds'
        BY <1>1, <1>2, <1>8 DEF TypeOK, OwnIds, Response, Id, Queue
    <2> QED BY <1>1, <2>1 DEF TypeOK, OwnResponse, WaitsForTheRest, HasOutcome
<1> QED BY <1>5, <1>6, <1>7, <1>9, <1>10

\* The AUTH-RESP is there: the message goes out, or the request has failed.
LEMMA AuthenticateKeepsInv ==
    ASSUME IInv, NEW q \in Requests, Authenticate(q)
    PROVE  IInv'
<1> USE RequestsAssumption DEF IInv
<1>1. PICK s \in stuck :
        /\ phase[q] = "authenticating"
        /\ s.queue = Queue(q, "auth")
        /\ s.msg.type = "response"
        /\ stuck' = stuck \ {s}
        /\ \/ /\ phase' = [phase EXCEPT ![q] = "handling"]
              /\ Expect(channelOf[q], q, "main")
              /\ UNCHANGED client
           \/ /\ phase' = [phase EXCEPT ![q] = "failed"]
              /\ Leave(q)
              /\ UNCHANGED <<awaited, queue>>
    BY DEF Authenticate
<1>2. UNCHANGED <<idOf, answer, waitingFor, merged, crowded, outbox, dropped, channelOf, owner,
                known, verdict>>
    BY DEF Authenticate, commandVars
<1>3. channelOf[q] \in Requests
    BY <1>1 DEF TypeOK, Registered
<1>4. stuck' \subseteq stuck /\ Mail' \subseteq Mail
    BY <1>1, <1>2 DEF Mail
<1>5. CASE /\ phase' = [phase EXCEPT ![q] = "handling"]
           /\ Expect(channelOf[q], q, "main")
           /\ UNCHANGED client
    <2>1. Id(q, "main") \in Stages /\ Queue(q, "main") \in Stages
        BY DEF TypeOK, Id, Queue, Stages
    <2>2. TypeOK'
        BY <1>2, <1>3, <1>4, <1>5, <2>1 DEF TypeOK, Expect
    <2>3. Registered'
        BY <1>1, <1>2, <1>5 DEF TypeOK, Registered, Active
    <2>4. OneResponse'
        BY <1>1, <1>2, <1>3, <1>4, <1>5 DEF TypeOK, OneResponse, Main, Queue, Expect
    <2>5. ReceiptsAreSent' /\ ResultsAreTrue'
        BY <1>1, <1>2, <1>4, <1>5 DEF TypeOK, ReceiptsAreSent, ResultsAreTrue, Handled, Owned
    <2>6. ~ClientIds => OwnIds' /\ OwnResponse' /\ WaitsForTheRest'
        <3>1. ~ClientIds => OwnIds'
            BY <1>2, <1>3, <1>4, <1>5 DEF TypeOK, OwnIds, Expect, Id, Queue
        <3> QED BY <1>2, <1>5, <3>1 DEF TypeOK, OwnResponse, WaitsForTheRest, HasOutcome
    <2> QED BY <2>2, <2>3, <2>4, <2>5, <2>6
<1>6. CASE /\ phase' = [phase EXCEPT ![q] = "failed"]
           /\ Leave(q)
           /\ UNCHANGED <<awaited, queue>>
    <2>1. TypeOK'
        BY <1>2, <1>4, <1>6 DEF TypeOK, Leave
    <2>2. Registered'
        BY <1>1, <1>2, <1>6 DEF TypeOK, Registered, Active, Leave
    <2>3. OneResponse'
        BY <1>1, <1>2, <1>4, <1>6 DEF TypeOK, OneResponse, Main, Queue
    <2>4. ReceiptsAreSent' /\ ResultsAreTrue'
        BY <1>1, <1>2, <1>4, <1>6 DEF TypeOK, ReceiptsAreSent, ResultsAreTrue, Handled, Owned
    <2>5. ~ClientIds => OwnIds' /\ OwnResponse' /\ WaitsForTheRest'
        BY <1>2, <1>4, <1>6 DEF TypeOK, OwnIds, OwnResponse, WaitsForTheRest, HasOutcome
    <2> QED BY <2>1, <2>2, <2>3, <2>4, <2>5
<1> QED BY <1>1, <1>5, <1>6

\* The message was handled, and its response may be under way.
LEMMA HandleKeepsInv ==
    ASSUME IInv, NEW q \in Requests, Handle(q)
    PROVE  IInv'
<1> USE RequestsAssumption DEF IInv
<1>1. /\ phase[q] = "handling"
      /\ phase' = [phase EXCEPT ![q] = "waiting"]
      /\ UNCHANGED <<idOf, answer, waitingFor, merged, crowded, client, channelOf, awaited, queue,
                     stuck, known>>
    BY DEF Handle, Ops!Issue
<1>2. PICK R \in SUBSET {r \in Receipts : verdict[r] = "unused"} :
          /\ verdict' = [r \in Receipts |-> IF r \in R THEN "pending" ELSE verdict[r]]
          /\ owner' = [r \in Receipts |-> IF r \in R THEN q ELSE owner[r]]
          /\ Enqueue(Response(q, "main", R), {q})
    BY DEF Handle, Ops!Issue
<1>3. channelOf'[q] \in Requests
    BY <1>1 DEF TypeOK, Registered
<1>4. Response(q, "main", R) \in Message
    BY <1>2, <1>3 DEF TypeOK, Response, Message, Id, Stages
<1>5. /\ outbox' \in {outbox, outbox \cup {Response(q, "main", R)}}
      /\ outbox' \subseteq Message
      /\ dropped' \subseteq Requests \cup Receipts
    BY <1>2, <1>4, EnqueueEffect
<1>6. TypeOK'
    <2>1. verdict' \in [Receipts -> Ops!Verdicts] /\ owner' \in [Receipts -> Requests \cup {None}]
        BY <1>2 DEF TypeOK, Ops!Verdicts
    <2>2. outbox' \subseteq Message /\ dropped' \subseteq Requests \cup Receipts
        BY <1>5
    <2> QED BY <1>1, <2>1, <2>2 DEF TypeOK
<1>7. Registered'
    BY <1>1 DEF TypeOK, Registered, Active
<1>8. OneResponse'
    BY <1>1 DEF TypeOK, OneResponse, Main, Queue
<1>9. Mail' \subseteq Mail \cup {Response(q, "main", R)}
    BY <1>5, <1>1 DEF Mail
<1>10. \A r \in R : owner[r] = None
    BY <1>2 DEF ReceiptsAreSent
<1>11. Owned(q)' = R /\ \A p \in Requests \ {q} : Owned(p)' = Owned(p)
    BY <1>1, <1>2, <1>10 DEF TypeOK, Owned, ReceiptsAreSent, Handled
<1>12. ReceiptsAreSent'
    <2>1. \A r \in Receipts : (verdict[r] = "unused" => owner[r] = None)'
        BY <1>2, <1>10 DEF TypeOK, ReceiptsAreSent
    <2>2. \A r \in Receipts : (owner[r] # None => Handled(owner[r]))'
        BY <1>1, <1>2 DEF TypeOK, ReceiptsAreSent, Handled
    <2>3. ASSUME NEW m \in Mail', m.type = "response", m.refs.stage = "main"
          PROVE  Handled(m.of)' /\ (phase'[m.of] # "failed" => m.ids = Owned(m.of)')
        <3>1. CASE m = Response(q, "main", R)
            BY <1>1, <1>11, <3>1 DEF TypeOK, Response, Handled
        <3>2. CASE m \in Mail
            <4>1. Handled(m.of) /\ (phase[m.of] # "failed" => m.ids = Owned(m.of))
                BY <2>3, <3>2 DEF ReceiptsAreSent
            <4>2. m \in Message
                BY <3>2 DEF TypeOK, Mail
            <4>3. m.of \in Requests /\ m.of # q
                BY <1>1, <2>3, <4>1, <4>2, MessageFields DEF Handled
            <4> QED BY <1>1, <1>11, <4>1, <4>3 DEF TypeOK, Handled
        <3> QED BY <1>9, <2>3, <3>1, <3>2
    <2> QED BY <2>1, <2>2, <2>3 DEF ReceiptsAreSent
<1>13. ResultsAreTrue'
    BY <1>2, <1>9, MessageFields DEF TypeOK, ResultsAreTrue, Response, Mail
<1>14. ~ClientIds => OwnIds' /\ OwnResponse' /\ WaitsForTheRest'
    <2>1. ~ClientIds => OwnIds'
        BY <1>1, <1>9 DEF TypeOK, OwnIds, Response, Id
    <2>2. ASSUME ~ClientIds, NEW p \in Requests, phase'[p] = "answered"
          PROVE  answer'[p] # None /\ waitingFor'[p] = {}
        BY <1>1, <2>2 DEF TypeOK, WaitsForTheRest
    <2>3. \A r \in Receipts : HasOutcome(r) => HasOutcome(r)'
        BY <1>1, <1>2 DEF TypeOK, HasOutcome
    <2>4. ASSUME ~ClientIds, NEW p \in Requests \ SingleUAV, NEW r \in Receipts, owner'[r] = p,
                 answer'[p] # None, phase'[p] \in {"waiting", "answered"}
          PROVE  r \in waitingFor'[p] \/ HasOutcome(r)'
        <3>1. p # q
            BY <1>1, <2>4 DEF OneResponse
        <3>2. owner[r] = p
            BY <1>2, <2>4, <3>1 DEF TypeOK
        <3> QED BY <1>1, <2>3, <2>4, <3>1, <3>2 DEF TypeOK, WaitsForTheRest
    <2> QED BY <1>1, <2>1, <2>2, <2>4 DEF OwnResponse, WaitsForTheRest
<1> QED BY <1>6, <1>7, <1>8, <1>12, <1>13, <1>14

\* A message that goes out may start commands, nothing more.
LEMMA SentEffect ==
    ASSUME TypeOK, NEW m, Sent(m)
    PROVE  known' \in [Receipts -> BOOLEAN] /\ UNCHANGED <<owner, verdict>>
BY DEF TypeOK, Sent, commandVars, Ops!Learn

\* Nobody handled the message.
LEMMA RefuseKeepsInv ==
    ASSUME IInv, NEW q \in Requests, Refuse(q)
    PROVE  IInv'
<1> USE RequestsAssumption DEF IInv
<1>1. /\ phase[q] = "handling"
      /\ phase' = [phase EXCEPT ![q] = "failed"]
      /\ channelOf' = channelOf
      /\ client' = IF channelOf[q] = q THEN None ELSE client
      /\ outbox' = outbox \cup {Response(q, "main", {})}
      /\ UNCHANGED <<idOf, answer, waitingFor, merged, crowded, dropped, awaited, queue, stuck, owner,
                     known, verdict>>
    BY DEF Refuse, Leave, commandVars
<1>2. Response(q, "main", {}) \in Message
    BY <1>1 DEF TypeOK, Registered, Response, Message, Id, Stages
<1>3. TypeOK'
    BY <1>1, <1>2 DEF TypeOK
<1>4. Registered'
    BY <1>1 DEF TypeOK, Registered, Active
<1>5. OneResponse'
    BY <1>1 DEF TypeOK, OneResponse, Main, Queue
<1>6. Mail' \subseteq Mail \cup {Response(q, "main", {})}
    BY <1>1 DEF Mail
<1>7. ReceiptsAreSent' /\ ResultsAreTrue'
    BY <1>1, <1>6 DEF TypeOK, ReceiptsAreSent, ResultsAreTrue, Handled, Owned, Response
<1>8. ~ClientIds => OwnIds' /\ OwnResponse' /\ WaitsForTheRest'
    <2>1. ~ClientIds => OwnIds'
        BY <1>1, <1>6 DEF TypeOK, OwnIds, Response, Id
    <2> QED BY <1>1, <2>1 DEF TypeOK, OwnResponse, WaitsForTheRest, HasOutcome
<1> QED BY <1>3, <1>4, <1>5, <1>7, <1>8

\* A send whose consumer is gone takes the queue off its channel.
LEMMA SendBreaksKeepsInv ==
    ASSUME IInv, NEW s \in stuck, SendBreaks(s)
    PROVE  IInv'
<1> USE RequestsAssumption DEF IInv
<1>1. /\ stuck' = stuck \ {s}
      /\ queue' = [queue EXCEPT ![s.channel] = None]
      /\ UNCHANGED <<idOf, phase, answer, waitingFor, merged, crowded, outbox, dropped, client,
                     channelOf, awaited>>
    BY DEF SendBreaks, requestVars
<1>2. known' \in [Receipts -> BOOLEAN] /\ UNCHANGED <<owner, verdict>>
    BY SentEffect DEF SendBreaks
<1>3. stuck' \subseteq stuck /\ Mail' \subseteq Mail
    BY <1>1 DEF Mail
<1>4. \A c \in Requests : queue'[c] \in {queue[c], None}
    BY <1>1 DEF TypeOK
<1>5. TypeOK'
    BY <1>1, <1>2, <1>3 DEF TypeOK
<1>6. Registered'
    BY <1>1 DEF Registered, Active
<1>7. OneResponse'
    <2>1. \A c, q \in Requests : queue'[c] = Main(q) => queue[c] = Main(q)
        BY <1>4 DEF Main, Queue
    <2> QED BY <1>1, <1>3, <2>1 DEF OneResponse
<1>8. ReceiptsAreSent' /\ ResultsAreTrue'
    BY <1>1, <1>2, <1>3 DEF ReceiptsAreSent, ResultsAreTrue, Handled, Owned
<1>9. ~ClientIds => OwnIds' /\ OwnResponse' /\ WaitsForTheRest'
    BY <1>1, <1>2, <1>3, <1>4 DEF OwnIds, OwnResponse, WaitsForTheRest, HasOutcome
<1> QED BY <1>5, <1>6, <1>7, <1>8, <1>9

\* The hub hands a message to a channel, which drops it, passes it on to the
\* consumer of its queue, or finds the queue closed.
LEMMA SendToEffect ==
    ASSUME TypeOK, NEW c \in Requests, NEW m \in Message, SendTo(c, m)
    PROVE  LET s == [channel |-> c, queue |-> queue[c], msg |-> m] IN
           /\ known' \in [Receipts -> BOOLEAN] /\ UNCHANGED <<owner, verdict>>
           /\ \/ UNCHANGED <<awaited, queue, stuck>>
              \/ /\ UNCHANGED stuck
                 /\ awaited' = [awaited EXCEPT ![c] = None]
                 /\ queue' = [queue EXCEPT ![c] = None]
              \/ /\ Accepts(c, m)
                 /\ queue[c] \in Stages
                 /\ stuck' = stuck \cup {s}
                 /\ awaited' = [awaited EXCEPT ![c] = None]
                 /\ UNCHANGED queue
<1>1. CASE ~Accepts(c, m)
    BY <1>1, SentEffect DEF SendTo
<1>2. CASE Accepts(c, m) /\ queue[c] = None
    <2>1. queue' = queue /\ queue = [queue EXCEPT ![c] = None]
        BY <1>2 DEF SendTo, TypeOK
    <2> QED BY <1>2, <2>1, SentEffect DEF SendTo
<1>3. CASE Accepts(c, m) /\ queue[c] # None
    BY <1>3, SentEffect DEF SendTo, TypeOK, commandVars
<1> QED BY <1>1, <1>2, <1>3

LEMMA SendToKeepsInv ==
    ASSUME IInv, NEW c \in Requests, NEW m \in outbox, SendTo(c, m), outbox' \subseteq outbox,
           UNCHANGED <<requestVars, dropped, client, channelOf>>
    PROVE  IInv'
<1> USE RequestsAssumption DEF IInv
<1> DEFINE s == [channel |-> c, queue |-> queue[c], msg |-> m]
<1>1. UNCHANGED <<idOf, phase, answer, waitingFor, merged, crowded, dropped, client, channelOf>>
    BY DEF requestVars
<1>2. m \in Message
    BY DEF TypeOK
<1>3. /\ known' \in [Receipts -> BOOLEAN] /\ UNCHANGED <<owner, verdict>>
      /\ \/ UNCHANGED <<awaited, queue, stuck>>
         \/ /\ UNCHANGED stuck
            /\ awaited' = [awaited EXCEPT ![c] = None]
            /\ queue' = [queue EXCEPT ![c] = None]
         \/ /\ Accepts(c, m)
            /\ queue[c] \in Stages
            /\ stuck' = stuck \cup {s}
            /\ awaited' = [awaited EXCEPT ![c] = None]
            /\ UNCHANGED queue
    BY <1>2, SendToEffect
<1>4. Mail' \subseteq Mail
    BY <1>3 DEF Mail
<1>5. TypeOK'
    <2>1. stuck' \subseteq [channel : Requests, queue : Stages, msg : Message]
        BY <1>2, <1>3 DEF TypeOK
    <2> QED BY <1>1, <1>3, <2>1 DEF TypeOK
<1>6. Registered'
    BY <1>1 DEF Registered, Active
<1>7. ReceiptsAreSent' /\ ResultsAreTrue'
    BY <1>1, <1>3, <1>4 DEF ReceiptsAreSent, ResultsAreTrue, Handled, Owned
<1>8. \A d \in Requests :
          awaited'[d] # None => awaited'[d] = awaited[d] /\ queue'[d] = queue[d]
    BY <1>3 DEF TypeOK
<1>9. \A t \in stuck' : t \in stuck \/ (t = s /\ Accepts(c, m) /\ awaited'[c] = None)
    <2>1. [awaited EXCEPT ![c] = None][c] = None
        BY DEF TypeOK
    <2>2. \/ UNCHANGED stuck
          \/ stuck' = stuck \cup {s} /\ Accepts(c, m) /\ awaited'[c] = None
        BY <1>3, <2>1
    <2> QED BY <2>2
<1>10. m.type = "response" /\ Accepts(c, m) => awaited[c] # None /\ m.refs = awaited[c]
    BY DEF Accepts
<1>11. OneResponse'
    <2>1. ASSUME NEW d \in Requests, NEW q \in Requests, awaited'[d] # None, queue'[d] = Main(q)
          PROVE  /\ d = channelOf[q] /\ phase[q] \notin {"new", "authenticating"} /\ answer[q] = None
                 /\ \A t \in stuck' : t.msg.type = "response" => t.queue # Main(q)
        <3>1. awaited[d] # None /\ queue[d] = Main(q)
            BY <1>8, <2>1
        <3>2. /\ d = channelOf[q] /\ phase[q] \notin {"new", "authenticating"} /\ answer[q] = None
              /\ \A t \in stuck : t.msg.type = "response" => t.queue # Main(q)
            BY <3>1 DEF OneResponse
        <3>3. ASSUME s.msg.type = "response", s.queue = Main(q), Accepts(c, m), awaited'[c] = None
              PROVE  FALSE
            <4>1. c = channelOf[q]
                BY <1>10, <3>3 DEF OneResponse
            <4> QED BY <2>1, <3>2, <3>3, <4>1
        <3> QED BY <1>9, <3>2, <3>3
    <2>2. ASSUME NEW t \in stuck', NEW q \in Requests, t.msg.type = "response", t.queue = Main(q)
          PROVE  /\ phase[q] \notin {"new", "authenticating"} /\ answer[q] = None
                 /\ \A u \in stuck' : u.msg.type = "response" /\ u.queue = Main(q) => u = t
        <3>1. CASE t \in stuck
            <4>1. /\ phase[q] \notin {"new", "authenticating"} /\ answer[q] = None
                  /\ \A u \in stuck : u.msg.type = "response" /\ u.queue = Main(q) => u = t
                BY <2>2, <3>1 DEF OneResponse
            <4>2. ASSUME s.msg.type = "response", s.queue = Main(q), Accepts(c, m)
                  PROVE  FALSE
                BY <1>10, <2>2, <3>1, <4>2 DEF OneResponse
            <4> QED BY <1>9, <4>1, <4>2
        <3>2. CASE t = s /\ Accepts(c, m)
            <4>1. /\ phase[q] \notin {"new", "authenticating"} /\ answer[q] = None
                  /\ \A u \in stuck : u.msg.type = "response" => u.queue # Main(q)
                BY <1>10, <2>2, <3>2 DEF OneResponse
            <4> QED BY <1>9, <3>2, <4>1
        <3> QED BY <1>9, <2>2, <3>1, <3>2
    <2> QED BY <1>1, <2>1, <2>2 DEF OneResponse, Main, Queue
<1>12. ~ClientIds => OwnIds' /\ OwnResponse' /\ WaitsForTheRest'
    <2>1. ASSUME ~ClientIds, NEW t \in stuck', t.msg.type = "response"
          PROVE  t.msg.refs = t.queue
        <3>1. CASE t \in stuck
            BY <2>1, <3>1 DEF OwnIds
        <3>2. CASE t = s /\ Accepts(c, m) /\ t \notin stuck
            <4>1. queue[c] # None
                BY <1>3, <3>2 DEF Stages
            <4> QED BY <1>10, <2>1, <3>2, <4>1 DEF OwnIds
        <3> QED BY <1>9, <3>1, <3>2
    <2>2. ~ClientIds => OwnIds'
        BY <1>1, <1>4, <1>8, <2>1 DEF OwnIds
    <2> QED BY <1>1, <1>3, <2>2 DEF OwnResponse, WaitsForTheRest, HasOutcome
<1> QED BY <1>5, <1>6, <1>7, <1>11, <1>12

LEMMA DeliverKeepsInv ==
    ASSUME IInv, NEW m \in outbox, Deliver(m)
    PROVE  IInv'
<1>1. m \in Message /\ outbox' \subseteq outbox /\ UNCHANGED <<requestVars, dropped, client, channelOf>>
    BY DEF IInv, TypeOK, Deliver
<1>2. CASE m.type = "response"
    <2>1. m.to \in Requests
        BY <1>1, <1>2, MessageFields
    <2> QED BY <1>1, <1>2, <2>1, SendToKeepsInv DEF Deliver
<1>3. CASE m.type # "response" /\ client # None
    <2>1. client \in Requests
        BY <1>3 DEF IInv, TypeOK
    <2> QED BY <1>1, <1>3, <2>1, SendToKeepsInv DEF Deliver
<1>4. CASE m.type # "response" /\ client = None
    <2> USE DEF IInv
    <2>1. UNCHANGED <<idOf, phase, answer, waitingFor, merged, crowded, dropped, client, channelOf,
                      awaited, queue, stuck, owner, known, verdict>>
        BY <1>4 DEF Deliver, requestVars, commandVars
    <2>2. Mail' \subseteq Mail
        BY <1>1, <2>1 DEF Mail
    <2>3. TypeOK' /\ Registered' /\ OneResponse'
        BY <1>1, <2>1 DEF TypeOK, Registered, Active, OneResponse, Main, Queue
    <2>4. ReceiptsAreSent' /\ ResultsAreTrue'
        BY <2>1, <2>2 DEF ReceiptsAreSent, ResultsAreTrue, Handled, Owned
    <2>5. ~ClientIds => OwnIds' /\ OwnResponse' /\ WaitsForTheRest'
        BY <2>1, <2>2 DEF OwnIds, OwnResponse, WaitsForTheRest, HasOutcome
    <2> QED BY <2>3, <2>4, <2>5
<1> QED BY <1>2, <1>3, <1>4

\* index() gets its response.
LEMMA ReceiveResponseKeepsInv ==
    ASSUME IInv, NEW q \in Requests, NEW s \in stuck, Receive(q, s), answer[q] = None
    PROVE  IInv'
<1> USE RequestsAssumption DEF IInv
<1>1. /\ phase[q] = "waiting" /\ s.queue = Main(q) /\ s.msg.type = "response"
      /\ stuck' = stuck \ {s}
      /\ answer' = [answer EXCEPT ![q] = s.msg.of]
      /\ waitingFor' = [waitingFor EXCEPT ![q] = ExtractedReceipts(s.msg)]
      /\ IF waitingFor'[q] # {}
         THEN UNCHANGED <<phase, client>>
         ELSE phase' = [phase EXCEPT ![q] = "answered"] /\ Leave(q)
      /\ UNCHANGED <<merged, idOf, crowded, outbox, dropped, channelOf, awaited, queue>>
    BY DEF Receive, Main, GoesOn
<1>2. known' \in [Receipts -> BOOLEAN] /\ UNCHANGED <<owner, verdict>>
    BY SentEffect DEF Receive
<1>3. s.msg \in Message /\ s.msg \in Mail
    BY DEF TypeOK, Mail
<1>4. stuck' \subseteq stuck /\ Mail' \subseteq Mail
    BY <1>1 DEF Mail
<1>5. s.msg.of \in Requests /\ ExtractedReceipts(s.msg) \in SUBSET Receipts
    BY <1>1, <1>3, MessageFields DEF ExtractedReceipts
<1>6. phase' \in [Requests -> {"new", "authenticating", "handling", "waiting", "answered", "failed"}]
      /\ client' \in Requests \cup {None}
      /\ \A p \in Requests : \/ phase'[p] = phase[p]
                             \/ p = q /\ phase[p] = "waiting" /\ phase'[p] = "answered"
    BY <1>1 DEF TypeOK, Leave
<1>7. TypeOK'
    BY <1>1, <1>2, <1>4, <1>5, <1>6 DEF TypeOK
<1>8. Registered'
    BY <1>1 DEF TypeOK, Registered, Active, Leave
<1>9. OneResponse'
    <2>1. /\ \A c \in Requests : awaited[c] # None => queue[c] # Main(q)
          /\ \A t \in stuck' : t.msg.type = "response" => t.queue # Main(q)
        BY <1>1 DEF OneResponse
    <2>2. \A p \in Requests : p # q => answer'[p] = answer[p]
        BY <1>1 DEF TypeOK
    <2> QED BY <1>1, <1>4, <1>6, <2>1, <2>2 DEF OneResponse, Main, Queue
<1>10. ReceiptsAreSent' /\ ResultsAreTrue'
    <2>1. \A p : Owned(p)' = Owned(p)
        BY <1>2 DEF Owned
    <2>2. \A p \in Requests : /\ Handled(p) => Handled(p)'
                              /\ phase'[p] # "failed" => phase[p] # "failed"
        BY <1>6 DEF Handled
    <2>3. \A m \in Mail : m.type = "response" => m.of \in Requests
        BY MessageFields DEF TypeOK, Mail
    <2>4. \A r \in Receipts : owner[r] \in Requests \cup {None}
        BY DEF TypeOK
    <2>5. ReceiptsAreSent'
        BY <1>2, <1>4, <2>1, <2>2, <2>3, <2>4 DEF ReceiptsAreSent
    <2> QED BY <1>2, <1>4, <2>5 DEF ResultsAreTrue
<1>11. ASSUME ~ClientIds PROVE OwnIds' /\ OwnResponse' /\ WaitsForTheRest'
    <2>1. OwnIds'
        BY <1>1, <1>4, <1>11 DEF OwnIds
    <2>2. s.msg.of = q /\ s.msg.refs.stage = "main"
        BY <1>1, <1>3, <1>11 DEF OwnIds, Main, Queue
    <2>3. OwnResponse'
        BY <1>1, <1>11, <2>2 DEF TypeOK, OwnResponse
    <2>4. s.msg.ids = Owned(q)
        BY <1>1, <1>3, <2>2 DEF ReceiptsAreSent
    <2>5. q \notin SingleUAV => waitingFor'[q] = Owned(q)
        BY <1>1, <2>2, <2>4 DEF TypeOK, ExtractedReceipts
    <2>6. \A p \in Requests : phase'[p] = "answered" => answer'[p] # None /\ waitingFor'[p] = {}
        BY <1>1, <1>5, <1>11 DEF TypeOK, WaitsForTheRest
    <2>7. \A r \in Receipts : HasOutcome(r) => HasOutcome(r)'
        BY <1>1, <1>2 DEF HasOutcome
    <2>8. ASSUME NEW p \in Requests \ SingleUAV, NEW r \in Receipts, owner'[r] = p,
                 answer'[p] # None, phase'[p] \in {"waiting", "answered"}
          PROVE  r \in waitingFor'[p] \/ HasOutcome(r)'
        <3>1. CASE p = q
            BY <1>2, <2>5, <2>8, <3>1 DEF Owned
        <3>2. CASE p # q
            BY <1>1, <1>2, <1>11, <1>6, <2>7, <2>8, <3>2 DEF TypeOK, WaitsForTheRest
        <3> QED BY <3>1, <3>2
    <2>9. WaitsForTheRest'
        BY <2>6, <2>8 DEF WaitsForTheRest
    <2> QED BY <2>1, <2>3, <2>9
<1> QED BY <1>7, <1>8, <1>9, <1>10, <1>11

\* index() gets a notification, which settles some of the receipts.
LEMMA ReceiveNotificationKeepsInv ==
    ASSUME IInv, NEW q \in Requests, NEW s \in stuck, Receive(q, s), answer[q] # None
    PROVE  IInv'
<1> USE RequestsAssumption DEF IInv
<1> DEFINE R == Settled(s.msg, waitingFor[q])
<1>1. /\ phase[q] = "waiting" /\ s.queue = Main(q)
      /\ stuck' = stuck \ {s}
      /\ waitingFor' = [waitingFor EXCEPT ![q] = waitingFor[q] \ R]
      /\ merged' = [r \in Receipts |-> IF r \in R THEN s.msg.type ELSE merged[r]]
      /\ IF waitingFor'[q] # {}
         THEN UNCHANGED <<phase, client>>
         ELSE phase' = [phase EXCEPT ![q] = "answered"] /\ Leave(q)
      /\ UNCHANGED <<answer, idOf, crowded, outbox, dropped, channelOf, awaited, queue>>
    BY DEF Receive, Main, GoesOn
<1>2. known' \in [Receipts -> BOOLEAN] /\ UNCHANGED <<owner, verdict>>
    BY SentEffect DEF Receive
<1>3. s.msg \in Message /\ s.msg \in Mail
    BY DEF TypeOK, Mail
<1>4. stuck' \subseteq stuck /\ Mail' \subseteq Mail
    BY <1>1 DEF Mail
<1>5. s.msg.type # "response"
    BY <1>1 DEF OneResponse
<1>6. \A r \in R : s.msg.type \in {"ASYNC-RESP", "ASYNC-ST"} /\ r \in s.msg.ids
    BY <1>3, <1>5, MessageFields DEF Settled
<1>7. merged' \in [Receipts -> {"nothing", "ASYNC-RESP", "ASYNC-ST"}]
    <2> HIDE DEF R
    <2> QED BY <1>1, <1>6 DEF TypeOK
<1>8. phase' \in [Requests -> {"new", "authenticating", "handling", "waiting", "answered", "failed"}]
      /\ client' \in Requests \cup {None}
      /\ \A p \in Requests : \/ phase'[p] = phase[p]
                             \/ p = q /\ phase[p] = "waiting" /\ phase'[p] = "answered"
    BY <1>1 DEF TypeOK, Leave
<1>9. TypeOK'
    BY <1>1, <1>2, <1>4, <1>7, <1>8 DEF TypeOK
<1>10. Registered'
    BY <1>1 DEF TypeOK, Registered, Active, Leave
<1>11. OneResponse'
    BY <1>1, <1>4, <1>8 DEF OneResponse, Main, Queue
<1>12. ReceiptsAreSent' /\ ResultsAreTrue'
    <2>1. \A p : Owned(p)' = Owned(p)
        BY <1>2 DEF Owned
    <2>2. \A p \in Requests : /\ Handled(p) => Handled(p)'
                              /\ phase'[p] # "failed" => phase[p] # "failed"
        BY <1>8 DEF Handled
    <2>3. \A m \in Mail : m.type = "response" => m.of \in Requests
        BY MessageFields DEF TypeOK, Mail
    <2>4. \A r \in Receipts : owner[r] \in Requests \cup {None}
        BY DEF TypeOK
    <2>5. ReceiptsAreSent'
        BY <1>2, <1>4, <2>1, <2>2, <2>3, <2>4 DEF ReceiptsAreSent
    <2> QED BY <1>2, <1>4, <2>5 DEF ResultsAreTrue
<1>13. ASSUME ~ClientIds PROVE OwnIds' /\ OwnResponse' /\ WaitsForTheRest'
    <2>1. OwnIds' /\ OwnResponse'
        BY <1>1, <1>4, <1>13 DEF OwnIds, OwnResponse
    <2>2. \A r \in Receipts : HasOutcome(r) \/ r \in R => HasOutcome(r)'
        <3>1. \A r \in R : s.msg.type = "ASYNC-RESP" => verdict[r] = "answered"
            BY <1>3, <1>6 DEF ResultsAreTrue
        <3> HIDE DEF R
        <3> QED BY <1>1, <1>2, <1>6, <3>1 DEF HasOutcome
    <2>3. \A p \in Requests : phase'[p] = "answered" => answer'[p] # None /\ waitingFor'[p] = {}
        <3> HIDE DEF R
        <3> QED BY <1>1, <1>13 DEF TypeOK, WaitsForTheRest
    <2>4. ASSUME NEW p \in Requests \ SingleUAV, NEW r \in Receipts, owner'[r] = p,
                 answer'[p] # None, phase'[p] \in {"waiting", "answered"}
          PROVE  r \in waitingFor'[p] \/ HasOutcome(r)'
        <3>1. r \in waitingFor[p] \/ HasOutcome(r)
            BY <1>1, <1>2, <1>8, <1>13, <2>4 DEF WaitsForTheRest
        <3> HIDE DEF R
        <3>2. r \in waitingFor[p] => r \in waitingFor'[p] \/ r \in R
            BY <1>1 DEF TypeOK
        <3> QED BY <2>2, <3>1, <3>2
    <2>5. WaitsForTheRest'
        BY <2>3, <2>4 DEF WaitsForTheRest
    <2> QED BY <2>1, <2>5
<1> QED BY <1>9, <1>10, <1>11, <1>12, <1>13

\* What happens to a command changes its verdict for good and is told to the
\* client that is registered at the time.
LEMMA CommandKeepsInv ==
    ASSUME IInv, NEW R \in SUBSET Receipts,
           NEW type \in {"ASYNC-RESP", "ASYNC-ST", "ASYNC-TIMEOUT"},
           outbox' \subseteq outbox \cup {Notification(type, R)},
           dropped' \subseteq Requests \cup Receipts,
           verdict' \in [Receipts -> Ops!Verdicts],
           \A r \in Receipts : /\ verdict'[r] = "unused" <=> verdict[r] = "unused"
                               /\ verdict[r] = "answered" => verdict'[r] = "answered",
           type = "ASYNC-RESP" => \A r \in R : verdict'[r] = "answered",
           UNCHANGED <<requestVars, channelVars, owner, known>>
    PROVE  IInv'
<1> USE RequestsAssumption DEF IInv
<1>1. UNCHANGED <<idOf, phase, answer, waitingFor, merged, crowded, client, channelOf, awaited, queue,
                  stuck, owner, known>>
    BY DEF requestVars, channelVars
<1>2. Notification(type, R) \in Message
    BY DEF Notification, Message
<1>3. Mail' \subseteq Mail \cup {Notification(type, R)}
    BY <1>1 DEF Mail
<1>4. Notification(type, R).type = type /\ type # "response" /\ Notification(type, R).ids = R
    BY DEF Notification
<1>5. TypeOK'
    <2>1. outbox' \subseteq Message
        BY <1>2 DEF TypeOK
    <2> QED BY <1>1, <2>1 DEF TypeOK
<1>6. Registered' /\ OneResponse'
    BY <1>1 DEF Registered, Active, OneResponse, Main, Queue
<1>7. ReceiptsAreSent'
    BY <1>1, <1>3, <1>4 DEF ReceiptsAreSent, Handled, Owned
<1>8. ResultsAreTrue'
    <2>1. \A m \in Mail : m.ids \in SUBSET Receipts
        BY MessageFields DEF TypeOK, Mail
    <2> QED BY <1>3, <1>4, <2>1 DEF ResultsAreTrue
<1>9. ~ClientIds => OwnIds' /\ OwnResponse' /\ WaitsForTheRest'
    <2>1. ~ClientIds => OwnIds'
        BY <1>1, <1>3, <1>4 DEF OwnIds
    <2> QED BY <1>1, <2>1 DEF OwnResponse, WaitsForTheRest, HasOutcome
<1> QED BY <1>5, <1>6, <1>7, <1>8, <1>9

\* A notification is enqueued.
LEMMA NotifyEffect ==
    ASSUME TypeOK, NEW R \in SUBSET Receipts, NEW lost \in SUBSET Receipts,
           NEW type \in {"ASYNC-RESP", "ASYNC-ST", "ASYNC-TIMEOUT"}, Notify(type, R, lost)
    PROVE  /\ outbox' \subseteq outbox \cup {Notification(type, R)}
           /\ dropped' \subseteq Requests \cup Receipts
           /\ UNCHANGED <<requestVars, channelVars, owner>>
<1>1. Notification(type, R) \in Message
    BY DEF Notification, Message
<1>2. Enqueue(Notification(type, R), lost) /\ UNCHANGED <<requestVars, channelVars, owner>>
    BY DEF Notify
<1> QED BY <1>1, <1>2, EnqueueEffect

LEMMA CommandsKeepInv ==
    ASSUME IInv, NEW r \in Receipts,
           CommandAnswers(r) \/ CommandSuspends(r) \/ CommandIsCancelled(r)
    PROVE  IInv'
<1>1. TypeOK /\ verdict \in [Receipts -> Ops!Verdicts]
    BY DEF IInv, TypeOK
<1>2. CASE CommandAnswers(r)
    <2>1. /\ verdict[r] = "pending" /\ verdict' = [verdict EXCEPT ![r] = "answered"]
          /\ outbox' \subseteq outbox \cup {Notification("ASYNC-RESP", {r})}
          /\ dropped' \subseteq Requests \cup Receipts
          /\ UNCHANGED <<requestVars, channelVars, owner, known>>
        BY <1>1, <1>2, NotifyEffect DEF CommandAnswers, Ops!Answer
    <2>2. verdict' \in [Receipts -> Ops!Verdicts]
        BY <1>1, <2>1 DEF Ops!Verdicts
    <2>3. \A o \in Receipts : /\ verdict'[o] = "unused" <=> verdict[o] = "unused"
                              /\ verdict[o] = "answered" => verdict'[o] = "answered"
        BY <1>1, <2>1
    <2>4. \A o \in {r} : verdict'[o] = "answered"
        BY <1>1, <2>1
    <2> QED BY <2>1, <2>2, <2>3, <2>4, CommandKeepsInv
<1>3. CASE CommandSuspends(r)
    <2>1. /\ verdict' = verdict /\ outbox' \subseteq outbox \cup {Notification("ASYNC-ST", {r})}
          /\ dropped' \subseteq Requests \cup Receipts
          /\ UNCHANGED <<requestVars, channelVars, owner, known>>
        BY <1>1, <1>3, NotifyEffect DEF CommandSuspends
    <2> QED BY <1>1, <2>1, CommandKeepsInv
<1>4. CASE CommandIsCancelled(r)
    <2>1. /\ verdict[r] = "pending" /\ verdict' = [verdict EXCEPT ![r] = "cancelled"]
          /\ outbox' = outbox /\ dropped' \subseteq Requests \cup Receipts
          /\ UNCHANGED <<requestVars, channelVars, owner, known>>
        BY <1>1, <1>4 DEF CommandIsCancelled, Ops!Cancel, TypeOK
    <2>2. verdict' \in [Receipts -> Ops!Verdicts]
        BY <1>1, <2>1 DEF Ops!Verdicts
    <2>3. \A o \in Receipts : /\ verdict'[o] = "unused" <=> verdict[o] = "unused"
                              /\ verdict[o] = "answered" => verdict'[o] = "answered"
        BY <1>1, <2>1
    <2>4. outbox' \subseteq outbox \cup {Notification("ASYNC-ST", {r})}
        BY <2>1
    <2> QED BY <2>1, <2>2, <2>3, <2>4, CommandKeepsInv
<1> QED BY <1>2, <1>3, <1>4

LEMMA TimeoutsKeepInv ==
    ASSUME IInv, NEW R \in SUBSET Receipts, CommandsTimeOut(R)
    PROVE  IInv'
<1>1. TypeOK /\ verdict \in [Receipts -> Ops!Verdicts]
    BY DEF IInv, TypeOK
<1>2. /\ \A r \in R : verdict[r] = "pending"
      /\ verdict' = [r \in Receipts |-> IF r \in R THEN "timedOut" ELSE verdict[r]]
      /\ outbox' \subseteq outbox \cup {Notification("ASYNC-TIMEOUT", R)}
      /\ dropped' \subseteq Requests \cup Receipts
      /\ UNCHANGED <<requestVars, channelVars, owner, known>>
    BY <1>1, NotifyEffect DEF CommandsTimeOut, Ops!TimeOut
<1>3. verdict' \in [Receipts -> Ops!Verdicts]
    BY <1>1, <1>2 DEF Ops!Verdicts
<1>4. \A o \in Receipts : /\ verdict'[o] = "unused" <=> verdict[o] = "unused"
                          /\ verdict[o] = "answered" => verdict'[o] = "answered"
    BY <1>1, <1>2
<1> QED BY <1>2, <1>3, <1>4, CommandKeepsInv

-----------------------------------------------------------------------------
(* The theorems.                                                           *)

LEMMA NextKeepsInv == IInv /\ [Next]_vars => IInv'
<1> SUFFICES ASSUME IInv, [Next]_vars
             PROVE  IInv'
    OBVIOUS
<1>1. ASSUME NEW q \in Requests,
             Begin(q) \/ Authenticate(q) \/ Handle(q) \/ Refuse(q) \/ HangUp(q)
      PROVE  IInv'
    BY <1>1, BeginKeepsInv, AuthenticateKeepsInv, HandleKeepsInv, RefuseKeepsInv, HangUpKeepsInv
<1>2. ASSUME NEW q \in Requests, NEW s \in stuck, Receive(q, s)
      PROVE  IInv'
    BY <1>2, ReceiveResponseKeepsInv, ReceiveNotificationKeepsInv
<1>3. CASE UNCHANGED vars
    <2>1. UNCHANGED <<idOf, phase, answer, waitingFor, merged, crowded, client, channelOf, awaited,
                      queue, stuck, owner, known, verdict, outbox, dropped>>
        BY <1>3 DEF vars, channelVars, requestVars, commandVars
    <2>2. Mail' = Mail
        BY <2>1 DEF Mail
    <2>3. TypeOK' /\ Registered' /\ OneResponse'
        BY <2>1 DEF IInv, TypeOK, Registered, Active, OneResponse, Main, Queue
    <2>4. ReceiptsAreSent' /\ ResultsAreTrue'
        BY <2>1, <2>2 DEF IInv, ReceiptsAreSent, ResultsAreTrue, Handled, Owned
    <2>5. ~ClientIds => OwnIds' /\ OwnResponse' /\ WaitsForTheRest'
        BY <2>1, <2>2 DEF IInv, OwnIds, OwnResponse, WaitsForTheRest, HasOutcome
    <2> QED BY <2>3, <2>4, <2>5 DEF IInv
<1> QED BY <1>1, <1>2, <1>3, DeliverKeepsInv, SendBreaksKeepsInv, CommandsKeepInv, TimeoutsKeepInv
        DEF Next

\* What the parts of IInv say of the channels, the messages under way and the
\* requests of ext/http.py holds at any time.
THEOREM InvariantHolds == Spec => []IInv
BY InitHolds, NextKeepsInv, PTL DEF Spec

\* Every variable keeps its type.
THEOREM TypeCorrect == Spec => []TypeOK
<1>1. IInv => TypeOK
    BY DEF IInv
<1> QED BY <1>1, InvariantHolds, PTL

\* However many requests of a host overlap, and whichever of them fails or
\* hangs up first, the dummy client goes with the request that added it
\* (ClientRegistry.use() of registries/clients.py, used in ext/http.py).
THEOREM ClientIsRemoved == Spec => []NoClientLeftBehind
<1>1. IInv => NoClientLeftBehind
    BY DEF IInv, Registered, NoClientLeftBehind
<1> QED BY <1>1, InvariantHolds, PTL

\* Requests that share a client and its channel get their own responses, as
\* long as the server chooses the message ids (HTTPChannel.send() of
\* ext/http.py).
THEOREM OwnResponseOnly ==
    ASSUME ~ClientIds
    PROVE  Spec => []OwnResponse
<1>1. IInv => OwnResponse
    BY DEF IInv
<1> QED BY <1>1, InvariantHolds, PTL

\* An HTTP response has the outcome of every command of its request, whatever
\* the order of results, timeouts and suspensions (index() of ext/http.py).
THEOREM CompleteAnswer ==
    ASSUME ~ClientIds
    PROVE  Spec => []AnswerIsComplete
<1>1. IInv => AnswerIsComplete
    <2> SUFFICES ASSUME IInv, NEW q \in Requests \ SingleUAV, NEW r \in Receipts,
                        phase[q] = "answered", owner[r] = q
                 PROVE  HasOutcome(r)
        BY DEF AnswerIsComplete, HasOutcome
    <2> QED BY DEF IInv, WaitsForTheRest
<1> QED BY <1>1, InvariantHolds, PTL
================================================================================
