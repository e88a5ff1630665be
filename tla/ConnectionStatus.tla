--------------------------- MODULE ConnectionStatus ---------------------------
(***************************************************************************)
(* How clients learn the status of the connections of the server.  A       *)
(* change of state becomes a request to the rate limiter of CONN-INF       *)
(* messages, which holds back transitions that may settle soon; its        *)
(* dispatcher builds a message from the state of that moment and puts it   *)
(* into the outbound queue; the hub starts a task for each message, which  *)
(* sends it to the clients in its cached list one after the other.         *)
(*                                                                         *)
(* A step of a task is what it does between two awaits.  Time matters to   *)
(* two timers only, so it is counted by their ages, in units of 0.1 s.     *)
(***************************************************************************)
EXTENDS Naturals, Sequences, FiniteSets, SequencesExt

CONSTANTS
    Connections,        \* entries of the connection registry
    Clients,            \* ids of clients
    States,             \* the states that connections take
    RequestCapacity,    \* size of the request queue of the limiter (256)
    OutboxCapacity,     \* size of the outbound queue of the hub
    MaxChanges,         \* bound: changes of the state of a connection
    None

Transitioning == {"connecting", "disconnecting"}
Stable == {"connected", "disconnected"}
Settle == 1             \* 0.1 s: how long a transition may take to settle
Fresh == 2              \* 0.2 s: how long the last stable state is fresh

ASSUME StatesAssumption ==
    /\ States \subseteq Transitioning \cup Stable
    /\ None \notin States \cup Clients
    /\ {RequestCapacity, OutboxCapacity} \subseteq Nat \ {0}
    /\ MaxChanges \in Nat

VARIABLES
    state,      \* ConnectionInfo.status of each connection
    changes,    \* number of changes so far
    requests,   \* the request queue: <<connection, old state, new state>>
    blocked,    \* is the main loop of the limiter waiting to send?
    data,       \* the entry of each connection, None if it has none
    waiters,    \* tasks in wait_to_see_if_settles(), those without an entry included
    sends,      \* senders that wait for the dispatcher, with their connections
    dispatcher, \* the dispatcher task: what it was handed or wants to put into the outbox
    outbox,     \* the outbound queue of the hub
    casts,      \* tasks in _broadcast_message()
    clients,    \* the client registry
    methods,    \* the cached list of broadcast methods, None if it is invalid
    gone,       \* clients that have left; ids are not used twice
    view,       \* the last status each client was sent since it came
    reported,   \* history: the status in the last message built for each connection
    missed,     \* history: connections with a request dropped since their last message
    ahead,      \* history: connections whose last message was ahead of their requests
    overtaken   \* history: clients whose last message got ahead of an older one

limiterVars == <<blocked, data, waiters, sends, dispatcher>>
hubVars == <<outbox, casts, methods>>
clientVars == <<clients, gone>>
historyVars == <<reported, missed, ahead, overtaken>>
vars == <<state, changes, requests, limiterVars, hubVars, clientVars, view, historyVars>>

Requests == Connections \X States \X States
Messages == [conn : Connections, status : States]

\* "last" is last_stable_state, "age" the time since its timestamp.
Entries == [last : States, age : 0..Fresh, settled : BOOLEAN]

\* A waiter that was started with the entry that is in data is "linked": a
\* settled entry wakes it.
Waiters == [conn : Connections, age : 0..Settle, linked : BOOLEAN, settled : BOOLEAN]
Senders == [conn : Connections, main : BOOLEAN]

ASSUME NoneAssumption == None \notin Connections \cup Entries \cup Messages

TypeOK ==
    /\ state \in [Connections -> States]
    /\ changes \in 0..MaxChanges
    /\ requests \in Seq(Requests) /\ Len(requests) <= RequestCapacity
    /\ blocked \in BOOLEAN
    /\ data \in [Connections -> Entries \cup {None}]
    /\ \A i \in DOMAIN waiters : waiters[i] \in Waiters
    /\ sends \in Seq(Senders)
    /\ dispatcher \in [handed : Connections \cup {None}, message : Messages \cup {None}]
    /\ outbox \in Seq(Messages) /\ Len(outbox) <= OutboxCapacity
    /\ \A i \in DOMAIN casts :
            casts[i] \in [message : Messages, begun : BOOLEAN, todo : SUBSET Clients,
                          untold : SUBSET Clients]
    /\ clients \subseteq Clients
    /\ methods \in (SUBSET Clients) \cup {None}
    /\ gone \subseteq Clients
    /\ view \in [Clients -> [Connections -> States \cup {None}]]
    /\ reported \in [Connections -> States]
    /\ {missed, ahead} \subseteq SUBSET Connections
    /\ overtaken \subseteq Clients \X Connections

Idle == [handed |-> None, message |-> None]
Unseen == [c \in Connections |-> None]

\* The clients know the states that connections have at the beginning.
Init ==
    \E first \in States \cap Stable, present \in SUBSET Clients :
        /\ state = [c \in Connections |-> first]
        /\ reported = state
        /\ clients = present
        /\ view = [k \in Clients |-> IF k \in present THEN state ELSE Unseen]
        /\ methods = None
        /\ changes = 0 /\ gone = {}
        /\ requests = <<>> /\ outbox = <<>> /\ sends = <<>>
        /\ waiters = <<>> /\ casts = <<>>
        /\ blocked = FALSE
        /\ data = [c \in Connections |-> None]
        /\ dispatcher = Idle
        /\ missed = {} /\ ahead = {} /\ overtaken = {}

-----------------------------------------------------------------------------
(* The connections.                                                        *)

\* Broken: a queue without a limit.
QueueNeverFull == FALSE

QueueFull == Len(requests) = RequestCapacity

\* A connection changes its state; the signal reaches the limiter, which drops
\* the request if its queue is full.
ChangeState(c, new) ==
    /\ changes < MaxChanges
    /\ new # state[c]
    /\ changes' = changes + 1
    /\ state' = [state EXCEPT ![c] = new]
    /\ IF QueueFull
       THEN /\ missed' = missed \cup {c}
            /\ UNCHANGED requests
       ELSE /\ requests' = Append(requests, <<c, state[c], new>>)
            /\ UNCHANGED missed
    /\ UNCHANGED <<limiterVars, hubVars, clientVars, view, reported, ahead, overtaken>>

-----------------------------------------------------------------------------
(* The limiter.                                                            *)

\* A send on the channel without capacity: handed over if the dispatcher is
\* waiting to receive, else the sender waits in line.
Send(c, isMain) ==
    IF dispatcher = Idle /\ sends = <<>>
    THEN /\ dispatcher' = [dispatcher EXCEPT !.handed = c]
         /\ UNCHANGED <<sends, blocked>>
    ELSE /\ sends' = Append(sends, [conn |-> c, main |-> isMain])
         /\ blocked' = (blocked \/ isMain)
         /\ UNCHANGED dispatcher

NoSend == UNCHANGED <<sends, blocked, dispatcher>>

\* Broken: whatever state the connection settles in is old news.
SettlesSilentlyAnyhow(c, new) ==
    /\ data[c] # None
    /\ data[c].age < Fresh

\* The connection is back in its last stable state soon enough.
SettlesSilently(c, new) ==
    /\ data[c] # None
    /\ data[c].last = new
    /\ data[c].age < Fresh

\* A transition out of a stable state gets an entry and a waiter, unless there
\* is an entry; one out of another transition is reported at once.
ReceiveTransition(c, old) ==
    IF old \in Transitioning
    THEN Send(c, TRUE) /\ UNCHANGED <<data, waiters>>
    ELSE /\ NoSend
         /\ IF data[c] = None
            THEN /\ data' = [data EXCEPT ![c] = [last |-> old, age |-> 0,
                                                           settled |-> FALSE]]
                 /\ waiters' = Append(waiters, [conn |-> c, age |-> 0,
                                                linked |-> TRUE, settled |-> FALSE])
            ELSE UNCHANGED <<data, waiters>>

\* A stable state wakes the waiter, and is reported unless nothing changed.
ReceiveStable(c, new) ==
    /\ waiters' = [i \in DOMAIN waiters |->
            IF waiters[i].conn = c /\ waiters[i].linked
            THEN [waiters[i] EXCEPT !.settled = TRUE] ELSE waiters[i]]
    /\ IF SettlesSilently(c, new)
       THEN NoSend /\ data' = [data EXCEPT ![c].settled = TRUE]
       ELSE /\ Send(c, TRUE)
            /\ IF data[c] = None THEN UNCHANGED data
               ELSE data' = [data EXCEPT ![c] = [last |-> new, age |-> 0, settled |-> TRUE]]

Receive ==
    /\ ~blocked
    /\ requests # <<>>
    /\ LET c == Head(requests)[1]
           old == Head(requests)[2]
           new == Head(requests)[3]
       IN IF new \in Transitioning THEN ReceiveTransition(c, old)
                                   ELSE ReceiveStable(c, new)
    /\ requests' = Tail(requests)
    /\ UNCHANGED <<state, changes, hubVars, clientVars, view, historyVars>>

\* A waiter ends without a message if its entry is settled when it resumes ...
WaiterSettles(i) ==
    /\ waiters[i].settled
    /\ waiters' = RemoveAt(waiters, i)
    /\ UNCHANGED <<state, changes, requests, blocked, data, sends, dispatcher,
                   hubVars, clientVars, view, historyVars>>

\* ... and asks for one if it is not settled in time.
WaiterTimesOut(i) ==
    /\ ~waiters[i].settled
    /\ waiters[i].age = Settle
    /\ waiters' = RemoveAt(waiters, i)
    /\ Send(waiters[i].conn, FALSE)
    /\ UNCHANGED <<state, changes, requests, data, hubVars, clientVars, view, historyVars>>

\* The dispatcher forgets the entry of the connection; its waiter, if there is
\* one, will not hear of the connection any more.
Popped(c) == [data EXCEPT ![c] = None]
Unlinked(c) ==
    [i \in DOMAIN waiters |-> IF waiters[i].conn = c
                              THEN [waiters[i] EXCEPT !.linked = FALSE] ELSE waiters[i]]

Waiting(c) == \E i \in DOMAIN requests : requests[i][1] = c

\* The dispatcher pops the entry and builds the message from the state of now.
Build ==
    /\ dispatcher.handed # None
    /\ LET c == dispatcher.handed
       IN /\ data' = Popped(c)
          /\ waiters' = Unlinked(c)
          /\ dispatcher' = [handed |-> None,
                            message |-> [conn |-> c, status |-> state[c]]]
          /\ reported' = [reported EXCEPT ![c] = state[c]]
          /\ missed' = missed \ {c}
          /\ ahead' = IF Waiting(c) THEN ahead \cup {c} ELSE ahead \ {c}
          /\ overtaken' = {p \in overtaken : p[2] # c}
    /\ UNCHANGED <<state, changes, requests, blocked, sends, hubVars, clientVars, view>>

\* The dispatcher receives from the first sender in line, if there is one.
ReceiveNext ==
    IF sends = <<>> THEN dispatcher' = Idle /\ UNCHANGED <<sends, blocked>>
    ELSE /\ dispatcher' = [handed |-> Head(sends).conn, message |-> None]
         /\ sends' = Tail(sends)
         /\ blocked' = (blocked /\ ~Head(sends).main)

\* Broken: a message that finds the queue full is dropped.
PutIntoOutboxOrDrop ==
    /\ dispatcher.message # None
    /\ outbox' = IF Len(outbox) < OutboxCapacity THEN Append(outbox, dispatcher.message)
                 ELSE outbox
    /\ ReceiveNext
    /\ UNCHANGED <<state, changes, requests, data, waiters, casts, methods, clientVars,
                   view, historyVars>>

\* broadcast_message() returns when there is room in the outbound queue,
\* which is long before the message is sent.
PutIntoOutbox ==
    /\ dispatcher.message # None
    /\ Len(outbox) < OutboxCapacity
    /\ outbox' = Append(outbox, dispatcher.message)
    /\ ReceiveNext
    /\ UNCHANGED <<state, changes, requests, data, waiters, casts, methods, clientVars,
                   view, historyVars>>

-----------------------------------------------------------------------------
(* The hub.                                                                *)

\* run(): a task for every message.
StartBroadcast ==
    /\ outbox # <<>>
    /\ outbox' = Tail(outbox)
    /\ casts' = Append(casts, [message |-> Head(outbox), begun |-> FALSE,
                               todo |-> {}, untold |-> {}])
    /\ UNCHANGED <<state, changes, requests, limiterVars, methods, clientVars, view, historyVars>>

\* _commit_broadcast_methods(), unless the list is cached.
Methods == IF methods = None THEN clients ELSE methods

\* Is the message of task i the last one that was built for its connection?
IsLast(i) ==
    LET c == casts[i].message.conn
    IN /\ \A j \in (i + 1)..Len(casts) : casts[j].message.conn # c
       /\ \A j \in DOMAIN outbox : outbox[j].conn # c
       /\ dispatcher.message = None \/ dispatcher.message.conn # c

\* History: task i, which has the last message, does to the clients K what a
\* task that was started before, one for which Behind(j), has yet to do.
Overtakes(i, K, Behind(_)) ==
    LET c == casts[i].message.conn
    IN overtaken' = IF IsLast(i) /\ \E j \in 1..(i - 1) : casts[j].message.conn = c /\ Behind(j)
                    THEN overtaken \cup (K \X {c}) ELSE overtaken

\* The first step of a broadcast task.  "untold" is a history: those who are
\* there from now on and have not been sent the message.
BeginBroadcast(i) ==
    /\ ~casts[i].begun
    /\ methods' = Methods
    /\ casts' = [casts EXCEPT ![i] = [@ EXCEPT !.begun = TRUE, !.todo = Methods,
                                               !.untold = clients]]
    /\ Overtakes(i, Clients, LAMBDA j : ~casts[j].begun)
    /\ UNCHANGED <<state, changes, requests, limiterVars, outbox, clientVars, view,
                   reported, missed, ahead>>

\* The next client of the list: in the order of a Python set, which may be any.
\* A client that is gone is skipped, and so is one whose connection broke.
SendToClient(i, k) ==
    /\ k \in casts[i].todo
    /\ casts' = [casts EXCEPT ![i].todo = @ \ {k}, ![i].untold = @ \ {k}]
    /\ view' = IF k \in clients
               THEN [view EXCEPT ![k][casts[i].message.conn] = casts[i].message.status]
               ELSE view
    /\ Overtakes(i, {k}, LAMBDA j : k \in casts[j].todo)
    /\ UNCHANGED <<state, changes, requests, limiterVars, outbox, methods, clientVars,
                   reported, missed, ahead>>

FinishBroadcast(i) ==
    /\ casts[i].begun /\ casts[i].todo = {}
    /\ casts' = RemoveAt(casts, i)
    /\ UNCHANGED <<state, changes, requests, limiterVars, outbox, methods, clientVars,
                   view, historyVars>>

-----------------------------------------------------------------------------
(* The clients.                                                            *)

\* Broken: the cached list outlives a change of the clients.
KeepBroadcastMethods == UNCHANGED methods

\* The signals added and removed of the client registry.
InvalidateBroadcastMethods == methods' = None

ClientArrives(k) ==
    /\ k \notin clients \cup gone
    /\ clients' = clients \cup {k}
    /\ InvalidateBroadcastMethods
    /\ UNCHANGED <<gone, state, changes, requests, limiterVars, outbox, casts, view, historyVars>>

ClientLeaves(k) ==
    /\ k \in clients
    /\ gone' = gone \cup {k}
    /\ clients' = clients \ {k}
    /\ view' = [view EXCEPT ![k] = Unseen]
    /\ casts' = [i \in DOMAIN casts |-> [casts[i] EXCEPT !.untold = @ \ {k}]]
    /\ InvalidateBroadcastMethods
    /\ UNCHANGED <<state, changes, requests, limiterVars, outbox, historyVars>>

\* Time: a timer that has run out is not overdue for ever, but tasks may be late.
Tick ==
    /\ \/ \E i \in DOMAIN waiters : waiters[i].age < Settle
       \/ \E c \in Connections : data[c] # None /\ data[c].age < Fresh
    /\ waiters' = [i \in DOMAIN waiters |-> [waiters[i] EXCEPT !.age = Settle]]
    /\ data' = [c \in Connections |-> IF data[c] = None \/ data[c].age = Fresh THEN data[c]
                                      ELSE [data[c] EXCEPT !.age = @ + 1]]
    /\ UNCHANGED <<state, changes, requests, blocked, sends, dispatcher, hubVars,
                   clientVars, view, historyVars>>

-----------------------------------------------------------------------------
LimiterStep ==
    \/ Receive
    \/ \E i \in DOMAIN waiters : WaiterSettles(i) \/ WaiterTimesOut(i)
    \/ Build
    \/ PutIntoOutbox

BroadcastStep ==
    \E i \in DOMAIN casts :
        BeginBroadcast(i) \/ FinishBroadcast(i) \/ \E k \in Clients : SendToClient(i, k)

Next ==
    \/ \E c \in Connections, s \in States : ChangeState(c, s)
    \/ LimiterStep
    \/ StartBroadcast
    \/ BroadcastStep
    \/ \E k \in Clients : ClientArrives(k) \/ ClientLeaves(k)
    \/ Tick

Spec == Init /\ [][Next]_vars

\* trio runs every task that can run; clients read what they are sent, or
\* leave.  Nothing makes a connection change or a client come.
Fairness ==
    /\ WF_vars(Receive)
    /\ WF_vars(\E i \in DOMAIN waiters : WaiterSettles(i) \/ WaiterTimesOut(i))
    /\ WF_vars(Build) /\ WF_vars(PutIntoOutbox)
    /\ WF_vars(StartBroadcast) /\ WF_vars(BroadcastStep)
    /\ WF_vars(Tick)

FairSpec == Spec /\ Fairness

-----------------------------------------------------------------------------
\* The limiter has nothing left to do about connection c.
Quiet(c) ==
    /\ ~Waiting(c)
    /\ \A i \in DOMAIN waiters : waiters[i].conn # c
    /\ \A i \in DOMAIN sends : sends[i].conn # c
    /\ dispatcher.handed # c

\* The entry of a connection that settled silently stays in data, and the
\* next transition gets no waiter.
LeftOver(c) == state[c] \in Transitioning /\ data[c] # None /\ data[c].settled

\* When the limiter has nothing left to do about a connection, the last
\* message it built tells the state of the connection: no transition that it
\* holds back, suppresses or merges with another leaves the clients with an
\* old state.  But a request that was dropped does, and an entry that was left
\* over; and so does a message that told more than the requests before it: the
\* limiter takes a state for reported that the clients never heard of.
LastReportIsTrue ==
    \A c \in Connections :
        \/ ~Quiet(c) \/ c \in missed \cup ahead \/ LeftOver(c)
        \/ reported[c] = state[c]

\* A broadcast reaches every client that is there from its beginning to its
\* end, whoever comes and goes meanwhile: the cached list is never stale.
EveryoneIsTold ==
    \A i \in DOMAIN casts :
        casts[i].begun /\ casts[i].todo = {} => casts[i].untold = {}

\* In the end every client that heard of a connection knows its state, unless
\* the tasks of the hub swapped the last message about it with an older one.
ClientsLearn ==
    \A c \in Connections, k \in Clients :
        <>[](\/ c \in missed \cup ahead \/ LeftOver(c)
             \/ <<k, c>> \in overtaken
             \/ view[k][c] \in {None, state[c]})
=============================================================================
