------------------------ MODULE ConnectionStatusProofs ------------------------
(***************************************************************************)
(* The last message about a connection tells its state, and a broadcast    *)
(* reaches everyone, for any connections, clients and capacities.          *)
(***************************************************************************)
EXTENDS ConnectionStatus, SequenceTheorems, TLAPS

Casts == [message : Messages, begun : BOOLEAN, todo : SUBSET Clients, untold : SUBSET Clients]

TypeInv ==
    /\ TypeOK
    /\ waiters \in Seq(Waiters)
    /\ casts \in Seq(Casts)

\* The cached list of broadcast methods has everyone; a task that sends to it has
\* not yet sent to those whom it has to tell.
HubInv ==
    /\ methods # None => methods = clients
    /\ \A i \in DOMAIN casts : casts[i].begun => casts[i].untold \subseteq casts[i].todo

\* The state that the limiter knows of connection c, by the requests it has taken
\* from its queue, is s: the old state in the first request that waits, or the state.
Knows(c, s) ==
    /\ \A i \in DOMAIN requests :
          requests[i][1] = c /\ (\A k \in 1 .. i - 1 : requests[k][1] # c) => requests[i][2] = s
    /\ ~Waiting(c) => state[c] = s

\* The requests of connection c tell every change up to its state.
Chain(c) ==
    \A i \in DOMAIN requests : requests[i][1] = c =>
        /\ \A j \in i + 1 .. Len(requests) :
              requests[j][1] = c /\ (\A k \in i + 1 .. j - 1 : requests[k][1] # c)
                  => requests[j][2] = requests[i][3]
        /\ (\A k \in i + 1 .. Len(requests) : requests[k][1] # c) => requests[i][3] = state[c]

\* A message about connection c is going to be built.
Coming(c) == dispatcher.handed = c \/ \E i \in DOMAIN sends : sends[i].conn = c

\* A task that waits whether the entry of connection c settles.
Watched(c) == \E i \in DOMAIN waiters :
                  waiters[i].conn = c /\ waiters[i].linked /\ ~waiters[i].settled

\* What the limiter knows of connection c, the clients were told; or it watches the
\* connection; or the entry was left over.
Accounted(c) ==
    IF data[c] = None THEN Knows(c, reported[c])
    ELSE /\ data[c].last = reported[c]
         /\ IF data[c].settled THEN \E s \in Transitioning \cup {reported[c]} : Knows(c, s)
                               ELSE Watched(c)

LimiterInv ==
    /\ dispatcher.message # None => dispatcher.handed = None
    /\ \A c \in Connections \ (missed \cup ahead) : Chain(c) /\ (Coming(c) \/ Accounted(c))

IInv == TypeInv /\ HubInv /\ LimiterInv

-----------------------------------------------------------------------------
(* Sequences.                                                              *)

\* A sequence whose elements are changed one by one is a sequence.
LEMMA ChangedSeq ==
    ASSUME NEW S, NEW T, NEW s \in Seq(S), NEW t, t = [i \in DOMAIN s |-> t[i]],
           \A i \in DOMAIN s : t[i] \in T
    PROVE  t \in Seq(T) /\ Len(t) = Len(s) /\ DOMAIN t = DOMAIN s
<1>1. Len(s) \in Nat /\ DOMAIN s = 1 .. Len(s)
    BY LenProperties
<1>2. t \in [1 .. Len(s) -> T]
    BY <1>1
<1>3. t \in Seq(T)
    BY <1>1, <1>2, SeqDef
<1> QED BY <1>1, <1>2, <1>3, LenProperties

\* What is left when element i is removed.
LEMMA RemovedAt ==
    ASSUME NEW S, NEW s \in Seq(S), NEW i \in DOMAIN s
    PROVE  /\ RemoveAt(s, i) \in Seq(S) /\ Len(RemoveAt(s, i)) = Len(s) - 1
           /\ \A j \in DOMAIN RemoveAt(s, i) : \E k \in DOMAIN s : RemoveAt(s, i)[j] = s[k]
           /\ \A k \in DOMAIN s : k # i => \E j \in DOMAIN RemoveAt(s, i) : RemoveAt(s, i)[j] = s[k]
<1> DEFINE a == SubSeq(s, 1, i - 1)
           b == SubSeq(s, i + 1, Len(s))
           n == Len(s)
           r == RemoveAt(s, i)
<1>1. n \in Nat /\ DOMAIN s = 1 .. n /\ i \in 1 .. n /\ \A k \in 1 .. n : s[k] \in S
    BY LenProperties, ElementOfSeq
<1>2. /\ a \in Seq(S) /\ Len(a) = i - 1
      /\ \A k \in 1 .. i - 1 : a[k] = s[k]
    <2>1. 1 \in Int /\ i - 1 \in Int /\ \A k \in 1 .. i - 1 : s[k] \in S
        BY <1>1
    <2>2. /\ a \in Seq(S) /\ Len(a) = IF 1 <= i - 1 THEN i - 1 - 1 + 1 ELSE 0
          /\ \A k \in 1 .. i - 1 - 1 + 1 : a[k] = s[1 + k - 1]
        BY <2>1, SubSeqProperties
    <2> HIDE DEF a
    <2> QED BY <1>1, <2>2
<1>3. /\ b \in Seq(S) /\ Len(b) = n - i
      /\ \A k \in 1 .. n - i : b[k] = s[i + k]
    <2>1. i + 1 \in Int /\ n \in Int /\ \A k \in i + 1 .. n : s[k] \in S
        BY <1>1
    <2>2. /\ b \in Seq(S) /\ Len(b) = IF i + 1 <= n THEN n - (i + 1) + 1 ELSE 0
          /\ \A k \in 1 .. n - (i + 1) + 1 : b[k] = s[i + 1 + k - 1]
        BY <2>1, SubSeqProperties
    <2> HIDE DEF b
    <2>3. n - (i + 1) + 1 = n - i /\ Len(b) = n - i /\ \A k \in 1 .. n - i : i + 1 + k - 1 = i + k
        BY <1>1, <2>2
    <2> QED BY <2>2, <2>3
<1>4. r = a \o b
    BY DEF RemoveAt
<1> HIDE DEF a, b, n, r
<1>5. /\ r \in Seq(S) /\ Len(r) = n - 1
      /\ \A j \in 1 .. n - 1 : r[j] = IF j <= i - 1 THEN a[j] ELSE b[j - (i - 1)]
    <2>1. /\ r \in Seq(S) /\ Len(r) = Len(a) + Len(b)
          /\ \A j \in 1 .. Len(a) + Len(b) : r[j] = IF j <= Len(a) THEN a[j] ELSE b[j - Len(a)]
        BY <1>2, <1>3, <1>4, ConcatProperties
    <2>2. Len(a) + Len(b) = n - 1
        BY <1>1, <1>2, <1>3
    <2> QED BY <1>2, <2>1, <2>2
<1>6. DOMAIN r = 1 .. n - 1
    BY <1>5, LenProperties
<1>7. \A j \in 1 .. n - 1 : r[j] = IF j <= i - 1 THEN s[j] ELSE s[j + 1]
    <2> SUFFICES ASSUME NEW j \in 1 .. n - 1
                 PROVE  r[j] = IF j <= i - 1 THEN s[j] ELSE s[j + 1]
        OBVIOUS
    <2>1. CASE j <= i - 1
        BY <1>1, <1>2, <1>5, <2>1
    <2>2. CASE ~(j <= i - 1)
        <3>1. j - (i - 1) \in 1 .. n - i /\ i + (j - (i - 1)) = j + 1
            BY <1>1, <2>2
        <3> QED BY <1>3, <1>5, <2>2, <3>1
    <2> QED BY <2>1, <2>2
<1>8. ASSUME NEW j \in DOMAIN r PROVE \E k \in DOMAIN s : r[j] = s[k]
    <2>1. j \in 1 .. n /\ j + 1 \in 1 .. n
        BY <1>1, <1>6
    <2> QED BY <1>1, <1>6, <1>7, <2>1
<1>9. ASSUME NEW k \in DOMAIN s, k # i PROVE \E j \in DOMAIN r : r[j] = s[k]
    <2>1. CASE k < i
        <3>1. k \in 1 .. n - 1 /\ k <= i - 1
            BY <1>1, <2>1
        <3> QED BY <1>6, <1>7, <3>1
    <2>2. CASE k > i
        <3>1. k - 1 \in 1 .. n - 1 /\ ~(k - 1 <= i - 1) /\ k - 1 + 1 = k
            BY <1>1, <2>2
        <3> QED BY <1>6, <1>7, <3>1
    <2> QED BY <1>1, <1>9, <2>1, <2>2
<1> QED BY <1>5, <1>8, <1>9 DEF n, r

\* What is left when the head is taken.
LEMMA TailOfSeq ==
    ASSUME NEW S, NEW s \in Seq(S), s # <<>>
    PROVE  /\ 1 \in DOMAIN s /\ Head(s) = s[1] /\ Head(s) \in S
           /\ Tail(s) \in Seq(S) /\ Len(Tail(s)) = Len(s) - 1 /\ Len(s) \in Nat
           /\ DOMAIN s = 1 .. Len(s) /\ DOMAIN Tail(s) = 1 .. Len(s) - 1
           /\ \A i \in 1 .. Len(s) - 1 : Tail(s)[i] = s[i + 1]
<1>1. Len(s) \in Nat \ {0} /\ DOMAIN s = 1 .. Len(s) /\ Head(s) = s[1]
    BY EmptySeq, LenProperties
<1>2. /\ Head(s) \in S /\ Tail(s) \in Seq(S) /\ Len(Tail(s)) = Len(s) - 1
      /\ \A i \in 1 .. Len(Tail(s)) : Tail(s)[i] = s[i + 1]
    BY HeadTailProperties
<1>3. DOMAIN Tail(s) = 1 .. Len(Tail(s))
    BY <1>2, LenProperties
<1> QED BY <1>1, <1>2, <1>3

\* What there is when an element is appended.
LEMMA AppendedSeq ==
    ASSUME NEW S, NEW s \in Seq(S), NEW e \in S
    PROVE  /\ Append(s, e) \in Seq(S) /\ Len(Append(s, e)) = Len(s) + 1 /\ Len(s) \in Nat
           /\ DOMAIN s = 1 .. Len(s) /\ DOMAIN Append(s, e) = 1 .. Len(s) + 1
           /\ \A i \in 1 .. Len(s) : Append(s, e)[i] = s[i]
           /\ Append(s, e)[Len(s) + 1] = e
<1>1. Append(s, e) \in Seq(S) /\ Len(Append(s, e)) = Len(s) + 1
    BY AppendProperties
<1> QED BY <1>1, AppendProperties, LenProperties

-----------------------------------------------------------------------------
(* Types.                                                                  *)

LEMMA Constants ==
    /\ None \notin States /\ None \notin Clients
    /\ RequestCapacity \in Nat \ {0} /\ OutboxCapacity \in Nat \ {0} /\ MaxChanges \in Nat
BY StatesAssumption

\* The parts of the type.
LimiterTypes ==
    /\ blocked \in BOOLEAN
    /\ data \in [Connections -> Entries \cup {None}]
    /\ waiters \in Seq(Waiters)
    /\ sends \in Seq(Senders)
    /\ dispatcher \in [handed : Connections \cup {None}, message : Messages \cup {None}]

HubTypes ==
    /\ outbox \in Seq(Messages) /\ Len(outbox) <= OutboxCapacity
    /\ casts \in Seq(Casts)
    /\ methods \in (SUBSET Clients) \cup {None}
    /\ clients \subseteq Clients
    /\ gone \subseteq Clients
    /\ view \in [Clients -> [Connections -> States \cup {None}]]

SourceTypes ==
    /\ state \in [Connections -> States]
    /\ changes \in 0..MaxChanges
    /\ requests \in Seq(Requests) /\ Len(requests) <= RequestCapacity

HistoryTypes ==
    /\ reported \in [Connections -> States]
    /\ {missed, ahead} \subseteq SUBSET Connections
    /\ overtaken \subseteq Clients \X Connections

LEMMA TypeParts == TypeInv <=> LimiterTypes /\ HubTypes /\ SourceTypes /\ HistoryTypes
<1>1. waiters \in Seq(Waiters) => \A i \in DOMAIN waiters : waiters[i] \in Waiters
    BY LenProperties, ElementOfSeq
<1>2. casts \in Seq(Casts) => \A i \in DOMAIN casts : casts[i] \in Casts
    BY LenProperties, ElementOfSeq
<1> QED BY <1>1, <1>2 DEF TypeInv, TypeOK, LimiterTypes, HubTypes, SourceTypes, HistoryTypes, Casts

LEMMA TypePartsNext == (TypeInv <=> LimiterTypes /\ HubTypes /\ SourceTypes /\ HistoryTypes)'
BY TypeParts, PTL

LEMMA InitHasTypes == Init => TypeInv
<1> SUFFICES ASSUME Init PROVE TypeInv
    OBVIOUS
<1>1. PICK first \in States \cap Stable, present \in SUBSET Clients :
        /\ state = [c \in Connections |-> first]
        /\ reported = state
        /\ clients = present
        /\ view = [k \in Clients |-> IF k \in present THEN state ELSE Unseen]
    BY DEF Init
<1>2. /\ methods = None /\ changes = 0 /\ gone = {}
      /\ requests = <<>> /\ outbox = <<>> /\ sends = <<>> /\ waiters = <<>> /\ casts = <<>>
      /\ blocked = FALSE /\ data = [c \in Connections |-> None] /\ dispatcher = Idle
      /\ missed = {} /\ ahead = {} /\ overtaken = {}
    BY DEF Init
<1>3. LimiterTypes
    BY <1>2, EmptySeq DEF LimiterTypes, Idle
<1>4. SourceTypes /\ HistoryTypes
    BY <1>1, <1>2, EmptySeq, Constants DEF SourceTypes, HistoryTypes
<1>5. HubTypes
    <2>1. \A k \in Clients : view[k] \in [Connections -> States \cup {None}]
        BY <1>1 DEF Unseen
    <2>2. view \in [Clients -> [Connections -> States \cup {None}]]
        BY <1>1, <2>1
    <2>3. Len(outbox) <= OutboxCapacity /\ outbox \in Seq(Messages) /\ casts \in Seq(Casts)
        BY <1>2, EmptySeq, Constants
    <2>4. present \subseteq Clients
        OBVIOUS
    <2>5. clients \subseteq Clients
        BY <1>1, <2>4
    <2>6. gone \subseteq Clients /\ methods \in (SUBSET Clients) \cup {None}
        BY <1>2
    <2> QED BY <2>2, <2>3, <2>5, <2>6 DEF HubTypes
<1> QED BY <1>3, <1>4, <1>5, TypeParts

\* A send keeps the types of what it touches.
LEMMA SendHasTypes ==
    ASSUME LimiterTypes, NEW c \in Connections, NEW isMain \in BOOLEAN,
           Send(c, isMain) \/ NoSend
    PROVE  /\ blocked' \in BOOLEAN /\ sends' \in Seq(Senders)
           /\ dispatcher' \in [handed : Connections \cup {None}, message : Messages \cup {None}]
<1>1. CASE NoSend
    BY <1>1 DEF NoSend, LimiterTypes
<1>2. CASE Send(c, isMain)
    <2>1. [conn |-> c, main |-> isMain] \in Senders
        BY DEF Senders
    <2>2. Append(sends, [conn |-> c, main |-> isMain]) \in Seq(Senders)
        BY <2>1, AppendProperties DEF LimiterTypes
    <2> QED BY <1>2, <2>2 DEF Send, LimiterTypes
<1> QED BY <1>1, <1>2

\* The waiters with other flags and ages.
LEMMA WaitersHaveTypes ==
    ASSUME LimiterTypes, NEW c
    PROVE  /\ \A i \in DOMAIN waiters : waiters[i] \in Waiters
           /\ [i \in DOMAIN waiters |->
                  IF waiters[i].conn = c /\ waiters[i].linked
                  THEN [waiters[i] EXCEPT !.settled = TRUE] ELSE waiters[i]] \in Seq(Waiters)
           /\ Unlinked(c) \in Seq(Waiters) /\ DOMAIN Unlinked(c) = DOMAIN waiters
           /\ [i \in DOMAIN waiters |-> [waiters[i] EXCEPT !.age = Settle]] \in Seq(Waiters)
<1>1. waiters \in Seq(Waiters)
    BY DEF LimiterTypes
<1>2. \A i \in DOMAIN waiters : waiters[i] \in Waiters
    BY <1>1, LenProperties, ElementOfSeq
<1> DEFINE a == [i \in DOMAIN waiters |->
                    IF waiters[i].conn = c /\ waiters[i].linked
                    THEN [waiters[i] EXCEPT !.settled = TRUE] ELSE waiters[i]]
           b == [i \in DOMAIN waiters |-> [waiters[i] EXCEPT !.age = Settle]]
<1>3. a \in Seq(Waiters)
    <2>1. \A i \in DOMAIN waiters : a[i] \in Waiters
        BY <1>2 DEF Waiters
    <2> QED BY <1>1, <2>1, ChangedSeq
<1>4. b \in Seq(Waiters)
    <2>1. \A i \in DOMAIN waiters : b[i] \in Waiters
        BY <1>2 DEF Waiters, Settle
    <2> QED BY <1>1, <2>1, ChangedSeq
<1>5. Unlinked(c) \in Seq(Waiters) /\ DOMAIN Unlinked(c) = DOMAIN waiters
    <2>1. Unlinked(c) = [i \in DOMAIN waiters |-> Unlinked(c)[i]]
        BY DEF Unlinked
    <2>2. \A i \in DOMAIN waiters : Unlinked(c)[i] \in Waiters
        BY <1>2 DEF Waiters, Unlinked
    <2> QED BY <1>1, <2>1, <2>2, ChangedSeq
<1> QED BY <1>2, <1>3, <1>4, <1>5

LEMMA ReceiveHasTypes == TypeInv /\ Receive => TypeInv'
<1> SUFFICES ASSUME TypeInv, Receive PROVE TypeInv'
    OBVIOUS
<1>0. LimiterTypes /\ HubTypes /\ SourceTypes /\ HistoryTypes
    BY TypeParts
<1> DEFINE c == Head(requests)[1]
           old == Head(requests)[2]
           new == Head(requests)[3]
<1>1. /\ requests # <<>> /\ requests' = Tail(requests)
      /\ UNCHANGED <<state, changes, outbox, casts, methods, clients, gone, view,
                     reported, missed, ahead, overtaken>>
      /\ ReceiveTransition(c, old) \/ ReceiveStable(c, new)
    BY DEF Receive, hubVars, clientVars, historyVars
<1>2. /\ c \in Connections /\ old \in States /\ new \in States
      /\ requests' \in Seq(Requests) /\ Len(requests') <= RequestCapacity
    <2>1. /\ Head(requests) \in Requests /\ Tail(requests) \in Seq(Requests)
          /\ Len(Tail(requests)) = Len(requests) - 1 /\ Len(requests) \in Nat
        BY <1>0, <1>1, TailOfSeq DEF SourceTypes
    <2> QED BY <1>0, <1>1, <2>1, Constants DEF Requests, SourceTypes
<1> HIDE DEF c, old, new
<1>3. ASSUME ReceiveTransition(c, old) PROVE LimiterTypes'
    <2>1. Send(c, TRUE) \/ NoSend
        BY <1>3 DEF ReceiveTransition
    <2>2. data' \in [Connections -> Entries \cup {None}]
        <3>1. [last |-> old, age |-> 0, settled |-> FALSE] \in Entries
            BY <1>2 DEF Entries, Fresh
        <3> QED BY <1>0, <1>2, <1>3, <3>1 DEF ReceiveTransition, LimiterTypes
    <2>3. waiters' \in Seq(Waiters)
        <3>1. [conn |-> c, age |-> 0, linked |-> TRUE, settled |-> FALSE] \in Waiters
            BY <1>2 DEF Waiters, Settle
        <3>2. Append(waiters, [conn |-> c, age |-> 0, linked |-> TRUE, settled |-> FALSE])
                  \in Seq(Waiters)
            BY <1>0, <3>1, AppendProperties DEF LimiterTypes
        <3> QED BY <1>0, <1>3, <3>2 DEF ReceiveTransition, LimiterTypes
    <2>4. /\ blocked' \in BOOLEAN /\ sends' \in Seq(Senders)
          /\ dispatcher' \in [handed : Connections \cup {None}, message : Messages \cup {None}]
        BY <1>0, <1>2, <2>1, SendHasTypes
    <2> QED BY <2>2, <2>3, <2>4 DEF LimiterTypes
<1>4. ASSUME ReceiveStable(c, new) PROVE LimiterTypes'
    <2>1. Send(c, TRUE) \/ NoSend
        BY <1>4 DEF ReceiveStable
    <2>2. data' \in [Connections -> Entries \cup {None}]
        <3>1. [last |-> new, age |-> 0, settled |-> TRUE] \in Entries
            BY <1>2 DEF Entries, Fresh
        <3>2. data[c] # None => [data[c] EXCEPT !.settled = TRUE] \in Entries
            BY <1>0, <1>2 DEF LimiterTypes, Entries
        <3>3. CASE SettlesSilently(c, new)
            <4>1. data' = [data EXCEPT ![c] = [@ EXCEPT !.settled = TRUE]] /\ data[c] # None
                BY <1>4, <3>3 DEF ReceiveStable, SettlesSilently
            <4> QED BY <1>0, <1>2, <3>2, <4>1 DEF LimiterTypes
        <3>4. CASE ~SettlesSilently(c, new)
            BY <1>0, <1>2, <1>4, <3>1, <3>4 DEF ReceiveStable, LimiterTypes
        <3> QED BY <3>3, <3>4
    <2>3. waiters' \in Seq(Waiters)
        BY <1>0, <1>4, WaitersHaveTypes DEF ReceiveStable
    <2>4. /\ blocked' \in BOOLEAN /\ sends' \in Seq(Senders)
          /\ dispatcher' \in [handed : Connections \cup {None}, message : Messages \cup {None}]
        BY <1>0, <1>2, <2>1, SendHasTypes
    <2> QED BY <2>2, <2>3, <2>4 DEF LimiterTypes
<1>5. LimiterTypes'
    BY <1>1, <1>3, <1>4
<1>6. HubTypes' /\ SourceTypes' /\ HistoryTypes'
    BY <1>0, <1>1, <1>2 DEF HubTypes, SourceTypes, HistoryTypes
<1> QED BY <1>5, <1>6, TypePartsNext

LEMMA WaiterHasTypes ==
    ASSUME TypeInv, NEW i \in DOMAIN waiters, WaiterSettles(i) \/ WaiterTimesOut(i)
    PROVE  TypeInv'
<1>0. LimiterTypes /\ HubTypes /\ SourceTypes /\ HistoryTypes
    BY TypeParts
<1>1. /\ waiters' = RemoveAt(waiters, i)
      /\ UNCHANGED <<state, changes, requests, data, outbox, casts, methods, clients, gone, view,
                     reported, missed, ahead, overtaken>>
      /\ UNCHANGED <<sends, blocked, dispatcher>> \/ Send(waiters[i].conn, FALSE)
    BY DEF WaiterSettles, WaiterTimesOut, hubVars, clientVars, historyVars
<1>2. waiters' \in Seq(Waiters)
    BY <1>0, <1>1, RemovedAt DEF LimiterTypes
<1>3. waiters[i].conn \in Connections
    BY <1>0, WaitersHaveTypes DEF Waiters
<1>4. /\ blocked' \in BOOLEAN /\ sends' \in Seq(Senders)
      /\ dispatcher' \in [handed : Connections \cup {None}, message : Messages \cup {None}]
    BY <1>0, <1>1, <1>3, SendHasTypes DEF NoSend
<1>5. LimiterTypes'
    BY <1>0, <1>1, <1>2, <1>4 DEF LimiterTypes
<1>6. HubTypes' /\ SourceTypes' /\ HistoryTypes'
    BY <1>0, <1>1 DEF HubTypes, SourceTypes, HistoryTypes
<1> QED BY <1>5, <1>6, TypePartsNext

LEMMA BuildHasTypes == TypeInv /\ Build => TypeInv'
<1> SUFFICES ASSUME TypeInv, Build PROVE TypeInv'
    OBVIOUS
<1>0. LimiterTypes /\ HubTypes /\ SourceTypes /\ HistoryTypes
    BY TypeParts
<1> DEFINE c == dispatcher.handed
<1>1. /\ c # None /\ data' = Popped(c) /\ waiters' = Unlinked(c)
      /\ dispatcher' = [handed |-> None, message |-> [conn |-> c, status |-> state[c]]]
      /\ reported' = [reported EXCEPT ![c] = state[c]]
      /\ missed' = missed \ {c}
      /\ ahead' = (IF Waiting(c) THEN ahead \cup {c} ELSE ahead \ {c})
      /\ overtaken' = {p \in overtaken : p[2] # c}
      /\ UNCHANGED <<state, changes, requests, blocked, sends, outbox, casts, methods, clients, gone, view>>
    BY DEF Build, hubVars, clientVars
<1>2. c \in Connections /\ state[c] \in States
    BY <1>0, <1>1 DEF LimiterTypes, SourceTypes
<1> HIDE DEF c
<1>3. [conn |-> c, status |-> state[c]] \in Messages
    BY <1>2 DEF Messages
<1>4. LimiterTypes'
    BY <1>0, <1>1, <1>2, <1>3, WaitersHaveTypes DEF LimiterTypes, Popped
<1>5. HubTypes' /\ SourceTypes'
    BY <1>0, <1>1 DEF HubTypes, SourceTypes
<1>6. HistoryTypes'
    BY <1>0, <1>1, <1>2 DEF HistoryTypes
<1> QED BY <1>4, <1>5, <1>6, TypePartsNext

LEMMA PutHasTypes == TypeInv /\ PutIntoOutbox => TypeInv'
<1> SUFFICES ASSUME TypeInv, PutIntoOutbox PROVE TypeInv'
    OBVIOUS
<1>0. LimiterTypes /\ HubTypes /\ SourceTypes /\ HistoryTypes
    BY TypeParts
<1>1. /\ dispatcher.message # None /\ Len(outbox) < OutboxCapacity
      /\ outbox' = Append(outbox, dispatcher.message) /\ ReceiveNext
      /\ UNCHANGED <<state, changes, requests, data, waiters, casts, methods, clients, gone, view,
                     reported, missed, ahead, overtaken>>
    BY DEF PutIntoOutbox, clientVars, historyVars
<1>2. outbox' \in Seq(Messages) /\ Len(outbox') <= OutboxCapacity
    <2>1. dispatcher.message \in Messages /\ outbox \in Seq(Messages)
        BY <1>0, <1>1 DEF LimiterTypes, HubTypes
    <2>2. outbox' \in Seq(Messages) /\ Len(outbox') = Len(outbox) + 1 /\ Len(outbox) \in Nat
        BY <1>1, <2>1, AppendProperties, LenProperties
    <2> QED BY <1>1, <2>2, Constants
<1>3. HubTypes' /\ SourceTypes' /\ HistoryTypes'
    BY <1>0, <1>1, <1>2 DEF HubTypes, SourceTypes, HistoryTypes
<1>4. /\ blocked' \in BOOLEAN /\ sends' \in Seq(Senders)
      /\ dispatcher' \in [handed : Connections \cup {None}, message : Messages \cup {None}]
    <2>1. CASE sends = <<>>
        BY <1>0, <1>1, <2>1 DEF ReceiveNext, Idle, LimiterTypes
    <2>2. CASE sends # <<>>
        <3>1. Head(sends) \in Senders /\ Tail(sends) \in Seq(Senders)
            BY <1>0, <2>2, TailOfSeq DEF LimiterTypes
        <3>2. /\ dispatcher' = [handed |-> Head(sends).conn, message |-> None]
              /\ sends' = Tail(sends) /\ blocked' = (blocked /\ ~Head(sends).main)
            BY <1>1, <2>2 DEF ReceiveNext
        <3>3. Head(sends).conn \in Connections
            BY <3>1 DEF Senders
        <3>4. dispatcher' \in [handed : Connections \cup {None}, message : Messages \cup {None}]
            BY <3>2, <3>3
        <3>5. blocked' \in BOOLEAN
            BY <3>2
        <3> QED BY <3>1, <3>2, <3>4, <3>5
    <2> QED BY <2>1, <2>2
<1>5. LimiterTypes'
    BY <1>0, <1>1, <1>4 DEF LimiterTypes
<1> QED BY <1>3, <1>5, TypePartsNext

\* What the tasks of the hub change of their table.
LEMMA CastsHaveTypes ==
    ASSUME TypeInv, NEW i \in DOMAIN casts
    PROVE  /\ casts[i] \in Casts /\ casts[i].message.conn \in Connections
           /\ casts[i].message.status \in States
           /\ \A e \in Casts : [casts EXCEPT ![i] = e] \in Seq(Casts)
<1>1. casts \in Seq(Casts) /\ DOMAIN casts = 1 .. Len(casts)
    BY LenProperties DEF TypeInv
<1>2. casts[i] \in Casts
    BY <1>1, ElementOfSeq
<1> QED BY <1>1, <1>2, ExceptSeq DEF Casts, Messages

LEMMA HubHasTypes ==
    ASSUME TypeInv, StartBroadcast \/ BroadcastStep
    PROVE  TypeInv'
<1>0. LimiterTypes /\ HubTypes /\ SourceTypes /\ HistoryTypes
    BY TypeParts
<1>1. /\ UNCHANGED <<state, changes, requests, blocked, data, waiters, sends, dispatcher, clients, gone,
                     reported, missed, ahead>>
    BY DEF StartBroadcast, BroadcastStep, BeginBroadcast, FinishBroadcast, SendToClient,
           limiterVars, clientVars, historyVars
<1>2. LimiterTypes' /\ SourceTypes'
    BY <1>0, <1>1 DEF LimiterTypes, SourceTypes
<1>3. CASE StartBroadcast
    <2>1. /\ outbox # <<>> /\ outbox' = Tail(outbox)
          /\ casts' = Append(casts, [message |-> Head(outbox), begun |-> FALSE, todo |-> {}, untold |-> {}])
          /\ UNCHANGED <<methods, view, overtaken>>
        BY <1>3 DEF StartBroadcast, historyVars
    <2>2. /\ Head(outbox) \in Messages /\ outbox' \in Seq(Messages)
          /\ Len(outbox') = Len(outbox) - 1 /\ Len(outbox) \in Nat
        BY <1>0, <2>1, TailOfSeq DEF HubTypes
    <2>3. [message |-> Head(outbox), begun |-> FALSE, todo |-> {}, untold |-> {}] \in Casts
        BY <2>2 DEF Casts
    <2>4. casts' \in Seq(Casts)
        BY <1>0, <2>1, <2>3, AppendProperties DEF HubTypes
    <2>5. Len(outbox') <= OutboxCapacity
        BY <1>0, <2>2, Constants DEF HubTypes
    <2>6. HubTypes' /\ HistoryTypes'
        BY <1>0, <1>1, <2>1, <2>2, <2>4, <2>5 DEF HubTypes, HistoryTypes
    <2> QED BY <1>2, <2>6, TypePartsNext
<1>4. ASSUME NEW i \in DOMAIN casts, BeginBroadcast(i)
      PROVE  TypeInv'
    <2>1. Methods \in SUBSET Clients /\ clients \in SUBSET Clients
        <3>1. methods \in (SUBSET Clients) \cup {None} /\ clients \in SUBSET Clients
            BY <1>0 DEF HubTypes
        <3>2. CASE methods = None
            BY <3>1, <3>2 DEF Methods
        <3>3. CASE methods # None
            BY <3>1, <3>3 DEF Methods
        <3> QED BY <3>2, <3>3
    <2>2. [casts[i] EXCEPT !.begun = TRUE, !.todo = Methods, !.untold = clients] \in Casts
        BY <2>1, CastsHaveTypes DEF Casts
    <2>3. casts' \in Seq(Casts)
        BY <1>4, <2>2, CastsHaveTypes DEF BeginBroadcast
    <2>4. overtaken' \subseteq Clients \X Connections
        BY <1>0, <1>4, CastsHaveTypes DEF BeginBroadcast, Overtakes, HistoryTypes
    <2>5. methods' \in SUBSET Clients /\ UNCHANGED <<outbox, view>>
        BY <1>4, <2>1 DEF BeginBroadcast
    <2>6. HubTypes' /\ HistoryTypes'
        BY <1>0, <1>1, <2>3, <2>4, <2>5 DEF HubTypes, HistoryTypes
    <2> QED BY <1>2, <2>6, TypePartsNext
<1>5. ASSUME NEW i \in DOMAIN casts, NEW k \in Clients, SendToClient(i, k)
      PROVE  TypeInv'
    <2>1. [casts[i] EXCEPT !.todo = @ \ {k}, !.untold = @ \ {k}] \in Casts
        BY CastsHaveTypes DEF Casts
    <2>2. casts' \in Seq(Casts)
        <3>1. casts' = [casts EXCEPT ![i] = [casts[i] EXCEPT !.todo = @ \ {k}, !.untold = @ \ {k}]]
            BY <1>5, CastsHaveTypes DEF SendToClient, Casts
        <3> QED BY <2>1, <3>1, CastsHaveTypes
    <2>3. overtaken' \subseteq Clients \X Connections
        BY <1>0, <1>5, CastsHaveTypes DEF SendToClient, Overtakes, HistoryTypes
    <2>4. view' \in [Clients -> [Connections -> States \cup {None}]]
        <3> DEFINE c == casts[i].message.conn
                   s == casts[i].message.status
        <3>1. c \in Connections /\ s \in States
            BY CastsHaveTypes
        <3>2. view' = view \/ view' = [view EXCEPT ![k] = [view[k] EXCEPT ![c] = s]]
            BY <1>5 DEF SendToClient
        <3> HIDE DEF c, s
        <3>3. [view[k] EXCEPT ![c] = s] \in [Connections -> States \cup {None}]
            BY <1>0, <3>1 DEF HubTypes
        <3> QED BY <1>0, <3>2, <3>3 DEF HubTypes
    <2>5. UNCHANGED <<outbox, methods>>
        BY <1>5 DEF SendToClient
    <2>6. HubTypes' /\ HistoryTypes'
        BY <1>0, <1>1, <2>2, <2>3, <2>4, <2>5 DEF HubTypes, HistoryTypes
    <2> QED BY <1>2, <2>6, TypePartsNext
<1>6. ASSUME NEW i \in DOMAIN casts, FinishBroadcast(i)
      PROVE  TypeInv'
    <2>1. casts' = RemoveAt(casts, i) /\ UNCHANGED <<outbox, methods, view, overtaken>>
        BY <1>6 DEF FinishBroadcast, historyVars
    <2>2. casts' \in Seq(Casts)
        BY <1>0, <2>1, RemovedAt DEF HubTypes
    <2>3. HubTypes' /\ HistoryTypes'
        BY <1>0, <1>1, <2>1, <2>2 DEF HubTypes, HistoryTypes
    <2> QED BY <1>2, <2>3, TypePartsNext
<1> QED BY <1>3, <1>4, <1>5, <1>6 DEF BroadcastStep

LEMMA ChangeStateHasTypes ==
    ASSUME TypeInv, NEW c \in Connections, NEW new \in States, ChangeState(c, new)
    PROVE  TypeInv'
<1>0. LimiterTypes /\ HubTypes /\ SourceTypes /\ HistoryTypes
    BY TypeParts
<1>1. /\ changes < MaxChanges /\ changes' = changes + 1
      /\ state' = [state EXCEPT ![c] = new]
      /\ UNCHANGED <<blocked, data, waiters, sends, dispatcher, outbox, casts, methods, clients, gone,
                     view, reported, ahead, overtaken>>
    BY DEF ChangeState, limiterVars, hubVars, clientVars
<1>2. requests' \in Seq(Requests) /\ Len(requests') <= RequestCapacity
    <2>1. CASE QueueFull
        BY <1>0, <2>1 DEF ChangeState, SourceTypes
    <2>2. CASE ~QueueFull
        <3>1. <<c, state[c], new>> \in Requests
            BY <1>0 DEF Requests, SourceTypes
        <3>2. requests' = Append(requests, <<c, state[c], new>>)
            BY <2>2 DEF ChangeState
        <3>3. requests' \in Seq(Requests) /\ Len(requests') = Len(requests) + 1 /\ Len(requests) \in Nat
            BY <1>0, <3>1, <3>2, AppendedSeq DEF SourceTypes
        <3> QED BY <1>0, <2>2, <3>3, Constants DEF QueueFull, SourceTypes
    <2> QED BY <2>1, <2>2
<1>3. missed' \subseteq Connections
    BY <1>0 DEF ChangeState, HistoryTypes
<1>4. SourceTypes'
    BY <1>0, <1>1, <1>2, Constants DEF SourceTypes
<1>5. LimiterTypes' /\ HubTypes' /\ HistoryTypes'
    BY <1>0, <1>1, <1>3 DEF LimiterTypes, HubTypes, HistoryTypes
<1> QED BY <1>4, <1>5, TypePartsNext

\* A client leaves; the tasks need not tell it any more.
LEMMA ClientLeavesHasTypes ==
    ASSUME TypeInv, NEW k \in Clients, ClientLeaves(k)
    PROVE  TypeInv'
<1>0. LimiterTypes /\ HubTypes /\ SourceTypes /\ HistoryTypes
    BY TypeParts
<1>1. /\ gone' = gone \cup {k} /\ clients' = clients \ {k} /\ methods' = None
      /\ view' = [view EXCEPT ![k] = Unseen]
      /\ casts' = [i \in DOMAIN casts |-> [casts[i] EXCEPT !.untold = @ \ {k}]]
      /\ UNCHANGED <<state, changes, requests, blocked, data, waiters, sends, dispatcher, outbox,
                     reported, missed, ahead, overtaken>>
    BY DEF ClientLeaves, InvalidateBroadcastMethods, limiterVars, historyVars
<1>2. casts' \in Seq(Casts)
    <2>1. \A i \in DOMAIN casts : casts'[i] \in Casts
        BY <1>1, CastsHaveTypes DEF Casts
    <2>2. casts' = [i \in DOMAIN casts |-> casts'[i]]
        BY <1>1
    <2> QED BY <1>0, <2>1, <2>2, ChangedSeq DEF HubTypes
<1>3. Unseen \in [Connections -> States \cup {None}]
    BY DEF Unseen
<1>4. HubTypes'
    BY <1>0, <1>1, <1>2, <1>3 DEF HubTypes
<1>5. LimiterTypes' /\ SourceTypes' /\ HistoryTypes'
    BY <1>0, <1>1 DEF LimiterTypes, SourceTypes, HistoryTypes
<1> QED BY <1>4, <1>5, TypePartsNext

LEMMA ClientArrivesHasTypes ==
    ASSUME TypeInv, NEW k \in Clients, ClientArrives(k)
    PROVE  TypeInv'
<1>0. LimiterTypes /\ HubTypes /\ SourceTypes /\ HistoryTypes
    BY TypeParts
<1>1. /\ clients' = clients \cup {k} /\ methods' = None
      /\ UNCHANGED <<state, changes, requests, blocked, data, waiters, sends, dispatcher, outbox, casts,
                     gone, view, reported, missed, ahead, overtaken>>
    BY DEF ClientArrives, InvalidateBroadcastMethods, limiterVars, historyVars
<1>2. LimiterTypes' /\ HubTypes' /\ SourceTypes' /\ HistoryTypes'
    BY <1>0, <1>1 DEF LimiterTypes, HubTypes, SourceTypes, HistoryTypes
<1> QED BY <1>2, TypePartsNext

LEMMA TickHasTypes == TypeInv /\ Tick => TypeInv'
<1> SUFFICES ASSUME TypeInv, Tick PROVE TypeInv'
    OBVIOUS
<1>0. LimiterTypes /\ HubTypes /\ SourceTypes /\ HistoryTypes
    BY TypeParts
<1>1. /\ waiters' = [i \in DOMAIN waiters |-> [waiters[i] EXCEPT !.age = Settle]]
      /\ data' = [c \in Connections |-> IF data[c] = None \/ data[c].age = Fresh THEN data[c]
                                        ELSE [data[c] EXCEPT !.age = @ + 1]]
      /\ UNCHANGED <<state, changes, requests, blocked, sends, dispatcher, outbox, casts, methods,
                     clients, gone, view, reported, missed, ahead, overtaken>>
    BY DEF Tick, hubVars, clientVars, historyVars
<1>2. waiters' \in Seq(Waiters)
    BY <1>0, <1>1, WaitersHaveTypes
<1>3. data' \in [Connections -> Entries \cup {None}]
    <2>1. ASSUME NEW c \in Connections, data[c] # None, data[c].age # Fresh
          PROVE  [data[c] EXCEPT !.age = @ + 1] \in Entries
        <3>1. data[c] \in Entries
            BY <1>0, <2>1 DEF LimiterTypes
        <3>2. data[c].age + 1 \in 0 .. Fresh
            BY <2>1, <3>1 DEF Entries, Fresh
        <3> QED BY <3>1, <3>2 DEF Entries
    <2> QED BY <1>0, <1>1, <2>1 DEF LimiterTypes
<1>4. LimiterTypes' /\ HubTypes' /\ SourceTypes' /\ HistoryTypes'
    BY <1>0, <1>1, <1>2, <1>3 DEF LimiterTypes, HubTypes, SourceTypes, HistoryTypes
<1> QED BY <1>4, TypePartsNext

LEMMA NextHasTypes == TypeInv /\ [Next]_vars => TypeInv'
<1> SUFFICES ASSUME TypeInv, [Next]_vars PROVE TypeInv'
    OBVIOUS
<1>1. CASE LimiterStep
    BY <1>1, ReceiveHasTypes, WaiterHasTypes, BuildHasTypes, PutHasTypes DEF LimiterStep
<1>2. CASE UNCHANGED vars
    <2>1. LimiterTypes /\ HubTypes /\ SourceTypes /\ HistoryTypes
        BY TypeParts
    <2>2. LimiterTypes' /\ HubTypes' /\ SourceTypes' /\ HistoryTypes'
        BY <1>2, <2>1 DEF vars, limiterVars, hubVars, clientVars, historyVars,
                          LimiterTypes, HubTypes, SourceTypes, HistoryTypes
    <2> QED BY <2>2, TypePartsNext
<1> QED BY <1>1, <1>2, HubHasTypes, ChangeStateHasTypes, ClientLeavesHasTypes, ClientArrivesHasTypes,
           TickHasTypes DEF Next

\* The variables keep their types, and the queues their limits.
THEOREM TypeCorrect == Spec => []TypeOK
<1>1. TypeInv => TypeOK
    BY DEF TypeInv
<1> QED BY <1>1, InitHasTypes, NextHasTypes, PTL DEF Spec

-----------------------------------------------------------------------------
(* Broadcasts.                                                             *)

LEMMA InitIsHubInv == Init => HubInv
BY DEF Init, HubInv

\* Steps that touch neither the clients nor the tasks of the hub.
LEMMA OthersKeepHubInv ==
    ASSUME HubInv, UNCHANGED <<casts, methods, clients>>
    PROVE  HubInv'
BY DEF HubInv

LEMMA BroadcastKeepsHubInv ==
    ASSUME TypeInv, HubInv, StartBroadcast \/ BroadcastStep
    PROVE  HubInv'
<1>1. casts \in Seq(Casts) /\ clients' = clients
    BY DEF TypeInv, StartBroadcast, BroadcastStep, BeginBroadcast, FinishBroadcast, SendToClient, clientVars
<1>2. CASE StartBroadcast
    <2> DEFINE e == [message |-> Head(outbox), begun |-> FALSE, todo |-> {}, untold |-> {}]
    <2>1. /\ outbox # <<>> /\ casts' = Append(casts, e) /\ methods' = methods
        BY <1>2 DEF StartBroadcast
    <2>2. e \in Casts /\ ~e.begun
        BY <2>1, TailOfSeq DEF TypeInv, TypeOK, Casts
    <2> HIDE DEF e
    <2>3. \A i \in DOMAIN casts' : casts'[i] = e \/ (i \in DOMAIN casts /\ casts'[i] = casts[i])
        BY <1>1, <2>1, <2>2, AppendedSeq
    <2> QED BY <1>1, <2>1, <2>2, <2>3 DEF HubInv
<1>3. ASSUME NEW i \in DOMAIN casts, BeginBroadcast(i)
      PROVE  HubInv'
    <2>1. Methods = clients /\ methods' = Methods
        BY <1>3 DEF BeginBroadcast, Methods, HubInv
    <2>2. \A j \in DOMAIN casts' : j \in DOMAIN casts /\ casts'[j] =
              IF j = i THEN [casts[i] EXCEPT !.begun = TRUE, !.todo = Methods, !.untold = clients]
              ELSE casts[j]
        BY <1>3 DEF BeginBroadcast
    <2>3. casts[i] \in Casts
        BY CastsHaveTypes
    <2>4. casts'[i].todo = clients /\ casts'[i].untold = clients
        BY <2>1, <2>2, <2>3, <1>3 DEF BeginBroadcast, Casts
    <2>5. \A j \in DOMAIN casts' : casts'[j].begun => casts'[j].untold \subseteq casts'[j].todo
        BY <2>2, <2>4 DEF HubInv
    <2> QED BY <1>1, <2>1, <2>5 DEF HubInv
<1>4. ASSUME NEW i \in DOMAIN casts, NEW k \in Clients, SendToClient(i, k)
      PROVE  HubInv'
    <2>1. /\ casts' = [casts EXCEPT ![i].todo = @ \ {k}, ![i].untold = @ \ {k}]
          /\ methods' = methods
        BY <1>4 DEF SendToClient
    <2>2. casts[i] \in Casts
        BY CastsHaveTypes
    <2>3. /\ casts'[i].todo = casts[i].todo \ {k} /\ casts'[i].untold = casts[i].untold \ {k}
          /\ casts'[i].begun = casts[i].begun
          /\ DOMAIN casts' = DOMAIN casts
          /\ \A j \in DOMAIN casts : j # i => casts'[j] = casts[j]
        BY <2>1, <2>2 DEF Casts
    <2> QED BY <1>1, <2>1, <2>3 DEF HubInv
<1>5. ASSUME NEW i \in DOMAIN casts, FinishBroadcast(i)
      PROVE  HubInv'
    <2>1. casts' = RemoveAt(casts, i) /\ methods' = methods
        BY <1>5 DEF FinishBroadcast
    <2>2. \A j \in DOMAIN casts' : \E n \in DOMAIN casts : casts'[j] = casts[n]
        BY <1>1, <2>1, RemovedAt
    <2> QED BY <1>1, <2>1, <2>2 DEF HubInv
<1> QED BY <1>2, <1>3, <1>4, <1>5 DEF BroadcastStep

LEMMA NextKeepsHubInv == TypeInv /\ HubInv /\ [Next]_vars => HubInv'
<1> SUFFICES ASSUME TypeInv, HubInv, [Next]_vars PROVE HubInv'
    OBVIOUS
<1>1. ASSUME NEW k \in Clients, ClientArrives(k)
      PROVE  HubInv'
    BY <1>1 DEF ClientArrives, InvalidateBroadcastMethods, HubInv
<1>2. ASSUME NEW k \in Clients, ClientLeaves(k)
      PROVE  HubInv'
    <2>1. /\ methods' = None /\ DOMAIN casts' = DOMAIN casts
          /\ \A i \in DOMAIN casts : casts'[i] = [casts[i] EXCEPT !.untold = @ \ {k}]
        BY <1>2 DEF ClientLeaves, InvalidateBroadcastMethods
    <2>2. \A i \in DOMAIN casts : casts[i] \in Casts
        BY CastsHaveTypes
    <2>3. \A i \in DOMAIN casts : /\ casts'[i].begun = casts[i].begun /\ casts'[i].todo = casts[i].todo
                                  /\ casts'[i].untold = casts[i].untold \ {k}
        BY <2>1, <2>2 DEF Casts
    <2> QED BY <2>1, <2>3 DEF HubInv
<1>3. ASSUME NEW c \in Connections, NEW s \in States, ChangeState(c, s)
      PROVE  HubInv'
    BY <1>3, OthersKeepHubInv DEF ChangeState, hubVars, clientVars
<1>4. CASE LimiterStep
    <2>1. UNCHANGED <<casts, methods, clients>>
        BY <1>4 DEF LimiterStep, Receive, WaiterSettles, WaiterTimesOut, Build, PutIntoOutbox,
                    hubVars, clientVars
    <2> QED BY <2>1, OthersKeepHubInv
<1>5. CASE Tick
    BY <1>5, OthersKeepHubInv DEF Tick, hubVars, clientVars
<1>6. CASE UNCHANGED vars
    BY <1>6, OthersKeepHubInv DEF vars, hubVars, clientVars
<1> QED BY <1>1, <1>2, <1>3, <1>4, <1>5, <1>6, BroadcastKeepsHubInv DEF Next

\* A broadcast that has ended has reached every client that was there from its
\* beginning to its end (_broadcast_message() and _commit_broadcast_methods()).
THEOREM BroadcastsReachEveryone == Spec => []EveryoneIsTold
<1>1. HubInv => EveryoneIsTold
    BY DEF HubInv, EveryoneIsTold
<1> QED BY <1>1, InitHasTypes, NextHasTypes, InitIsHubInv, NextKeepsHubInv, PTL DEF Spec

-----------------------------------------------------------------------------
(* The requests of a connection.                                           *)

\* Steps that touch neither the requests nor the states.
LEMMA SameRequests ==
    ASSUME UNCHANGED <<requests, state>>, NEW c
    PROVE  /\ Chain(c) => Chain(c)'
           /\ \A s : Knows(c, s) => Knows(c, s)'
BY DEF Chain, Knows, Waiting

\* A request that is appended tells the next change, or one of another connection.
LEMMA AppendedRequest ==
    ASSUME TypeInv, NEW c \in Connections, Chain(c), NEW e \in Requests,
           requests' = Append(requests, e),
           IF e[1] = c THEN e[2] = state[c] /\ e[3] = state'[c] ELSE state'[c] = state[c]
    PROVE  /\ Chain(c)'
           /\ \A s : Knows(c, s) => Knows(c, s)'
<1> DEFINE n == Len(requests)
<1>1. /\ n \in Nat /\ DOMAIN requests = 1 .. n /\ DOMAIN requests' = 1 .. n + 1
      /\ Len(requests') = n + 1
      /\ \A i \in 1 .. n : requests'[i] = requests[i]
      /\ requests'[n + 1] = e
    BY AppendedSeq DEF TypeInv, TypeOK
<1>2. /\ \A i \in 1 .. n : requests[i][1] = c =>
            /\ \A j \in i + 1 .. n :
                  requests[j][1] = c /\ (\A k \in i + 1 .. j - 1 : requests[k][1] # c)
                      => requests[j][2] = requests[i][3]
            /\ (\A k \in i + 1 .. n : requests[k][1] # c) => requests[i][3] = state[c]
    BY <1>1 DEF Chain
<1> HIDE DEF n
<1>3. ASSUME NEW i \in 1 .. n + 1, requests'[i][1] = c
      PROVE  /\ \A j \in i + 1 .. n + 1 :
                   requests'[j][1] = c /\ (\A k \in i + 1 .. j - 1 : requests'[k][1] # c)
                       => requests'[j][2] = requests'[i][3]
             /\ (\A k \in i + 1 .. n + 1 : requests'[k][1] # c) => requests'[i][3] = state'[c]
    <2>1. CASE i = n + 1
        BY <1>1, <1>3, <2>1
    <2>2. CASE i # n + 1
        <3>1. i \in 1 .. n /\ requests'[i] = requests[i]
            BY <1>1, <2>2
        <3>2. ASSUME NEW j \in i + 1 .. n + 1, requests'[j][1] = c,
                     \A k \in i + 1 .. j - 1 : requests'[k][1] # c
              PROVE  requests'[j][2] = requests'[i][3]
            <4>1. \A k \in i + 1 .. j - 1 : k \in 1 .. n /\ requests[k][1] # c
                BY <1>1, <3>1, <3>2
            <4>2. CASE j = n + 1
                <5>1. \A k \in i + 1 .. n : requests[k][1] # c
                    BY <1>1, <3>1, <4>1, <4>2
                <5> QED BY <1>1, <1>2, <1>3, <3>1, <3>2, <4>2, <5>1
            <4>3. CASE j # n + 1
                <5>1. j \in i + 1 .. n /\ requests'[j] = requests[j]
                    BY <1>1, <3>1, <4>3
                <5> QED BY <1>2, <1>3, <3>1, <3>2, <4>1, <5>1
            <4> QED BY <4>2, <4>3
        <3>3. ASSUME \A k \in i + 1 .. n + 1 : requests'[k][1] # c
              PROVE  requests'[i][3] = state'[c]
            <4>1. e[1] # c
                BY <1>1, <3>1, <3>3
            <4>2. \A k \in i + 1 .. n : requests[k][1] # c
                BY <1>1, <3>1, <3>3
            <4> QED BY <1>2, <1>3, <3>1, <4>1, <4>2
        <3> QED BY <3>2, <3>3
    <2> QED BY <2>1, <2>2
<1>4. Chain(c)'
    BY <1>1, <1>3 DEF Chain
<1>5. ASSUME NEW s, Knows(c, s)
      PROVE  Knows(c, s)'
    <2>1. /\ \A i \in 1 .. n :
                requests[i][1] = c /\ (\A k \in 1 .. i - 1 : requests[k][1] # c) => requests[i][2] = s
          /\ (\A i \in 1 .. n : requests[i][1] # c) => state[c] = s
        BY <1>1, <1>5 DEF Knows, Waiting
    <2>2. ASSUME NEW i \in 1 .. n + 1, requests'[i][1] = c, \A k \in 1 .. i - 1 : requests'[k][1] # c
          PROVE  requests'[i][2] = s
        <3>1. \A k \in 1 .. i - 1 : k \in 1 .. n /\ requests[k][1] # c
            BY <1>1, <2>2
        <3>2. CASE i = n + 1
            <4>1. \A k \in 1 .. n : requests[k][1] # c
                BY <1>1, <3>1, <3>2
            <4> QED BY <1>1, <2>1, <2>2, <3>2, <4>1
        <3>3. CASE i # n + 1
            <4>1. i \in 1 .. n /\ requests'[i] = requests[i]
                BY <1>1, <3>3
            <4> QED BY <2>1, <2>2, <3>1, <4>1
        <3> QED BY <3>2, <3>3
    <2>3. ASSUME \A i \in 1 .. n + 1 : requests'[i][1] # c
          PROVE  state'[c] = s
        <3>1. e[1] # c /\ \A i \in 1 .. n : requests[i][1] # c
            BY <1>1, <2>3
        <3> QED BY <2>1, <3>1
    <2> QED BY <1>1, <2>2, <2>3 DEF Knows, Waiting
<1> QED BY <1>4, <1>5

\* The limiter takes a request: it knows the new state in it then.
LEMMA TakenRequest ==
    ASSUME TypeInv, NEW c \in Connections, Chain(c), requests # <<>>, requests' = Tail(requests),
           state' = state
    PROVE  /\ Chain(c)'
           /\ IF requests[1][1] = c
              THEN /\ \A s : s = requests[1][3] => Knows(c, s)'
                   /\ \A s : Knows(c, s) => requests[1][2] = s
              ELSE \A s : Knows(c, s) => Knows(c, s)'
<1> DEFINE n == Len(requests)
<1>1. /\ n \in Nat /\ 1 \in 1 .. n /\ DOMAIN requests = 1 .. n /\ DOMAIN requests' = 1 .. n - 1
      /\ Len(requests') = n - 1
      /\ \A i \in 1 .. n - 1 : requests'[i] = requests[i + 1]
    BY TailOfSeq DEF TypeInv, TypeOK
<1>2. /\ \A i \in 1 .. n : requests[i][1] = c =>
            /\ \A j \in i + 1 .. n :
                  requests[j][1] = c /\ (\A k \in i + 1 .. j - 1 : requests[k][1] # c)
                      => requests[j][2] = requests[i][3]
            /\ (\A k \in i + 1 .. n : requests[k][1] # c) => requests[i][3] = state[c]
    BY <1>1 DEF Chain
<1> HIDE DEF n
<1>3. ASSUME NEW i \in 1 .. n - 1, requests'[i][1] = c
      PROVE  /\ \A j \in i + 1 .. n - 1 :
                   requests'[j][1] = c /\ (\A k \in i + 1 .. j - 1 : requests'[k][1] # c)
                       => requests'[j][2] = requests'[i][3]
             /\ (\A k \in i + 1 .. n - 1 : requests'[k][1] # c) => requests'[i][3] = state[c]
    <2>1. i + 1 \in 1 .. n /\ requests[i + 1][1] = c /\ requests'[i] = requests[i + 1]
        BY <1>1, <1>3
    <2>2. ASSUME NEW j \in i + 1 .. n - 1, requests'[j][1] = c,
                 \A k \in i + 1 .. j - 1 : requests'[k][1] # c
          PROVE  requests'[j][2] = requests'[i][3]
        <3>1. j + 1 \in (i + 1) + 1 .. n /\ requests'[j] = requests[j + 1]
            BY <1>1, <2>1
        <3>2. ASSUME NEW k \in (i + 1) + 1 .. (j + 1) - 1 PROVE requests[k][1] # c
            <4>1. k - 1 \in i + 1 .. j - 1 /\ k - 1 \in 1 .. n - 1 /\ (k - 1) + 1 = k
                BY <1>1, <2>1
            <4> QED BY <1>1, <2>2, <4>1
        <3> QED BY <1>2, <2>1, <2>2, <3>1, <3>2
    <2>3. ASSUME \A k \in i + 1 .. n - 1 : requests'[k][1] # c
          PROVE  requests'[i][3] = state[c]
        <3>1. ASSUME NEW k \in (i + 1) + 1 .. n PROVE requests[k][1] # c
            <4>1. k - 1 \in i + 1 .. n - 1 /\ k - 1 \in 1 .. n - 1 /\ (k - 1) + 1 = k
                BY <1>1, <2>1
            <4> QED BY <1>1, <2>3, <4>1
        <3> QED BY <1>2, <2>1, <3>1
    <2> QED BY <2>2, <2>3
<1>4. Chain(c)'
    BY <1>1, <1>3 DEF Chain
<1>5. ASSUME requests[1][1] # c, NEW s, Knows(c, s)
      PROVE  Knows(c, s)'
    <2>1. /\ \A i \in 1 .. n :
                requests[i][1] = c /\ (\A k \in 1 .. i - 1 : requests[k][1] # c) => requests[i][2] = s
          /\ (\A i \in 1 .. n : requests[i][1] # c) => state[c] = s
        BY <1>1, <1>5 DEF Knows, Waiting
    <2>2. ASSUME NEW i \in 1 .. n - 1, requests'[i][1] = c, \A k \in 1 .. i - 1 : requests'[k][1] # c
          PROVE  requests'[i][2] = s
        <3>1. i + 1 \in 1 .. n /\ requests'[i] = requests[i + 1]
            BY <1>1
        <3>2. ASSUME NEW k \in 1 .. (i + 1) - 1 PROVE requests[k][1] # c
            <4>1. CASE k = 1
                BY <1>5, <4>1
            <4>2. CASE k # 1
                <5>1. k - 1 \in 1 .. i - 1 /\ k - 1 \in 1 .. n - 1 /\ (k - 1) + 1 = k
                    BY <1>1, <4>2
                <5> QED BY <1>1, <2>2, <5>1
            <4> QED BY <4>1, <4>2
        <3> QED BY <2>1, <2>2, <3>1, <3>2
    <2>3. ASSUME \A i \in 1 .. n - 1 : requests'[i][1] # c
          PROVE  state[c] = s
        <3>1. ASSUME NEW k \in 1 .. n PROVE requests[k][1] # c
            <4>1. CASE k = 1
                BY <1>5, <4>1
            <4>2. CASE k # 1
                <5>1. k - 1 \in 1 .. n - 1 /\ (k - 1) + 1 = k
                    BY <1>1, <4>2
                <5> QED BY <1>1, <2>3, <5>1
            <4> QED BY <4>1, <4>2
        <3> QED BY <2>1, <3>1
    <2> QED BY <1>1, <2>2, <2>3 DEF Knows, Waiting
<1>6. ASSUME requests[1][1] = c, NEW s, s = requests[1][3]
      PROVE  Knows(c, s)'
    <2>1. ASSUME NEW i \in 1 .. n - 1, requests'[i][1] = c, \A k \in 1 .. i - 1 : requests'[k][1] # c
          PROVE  requests'[i][2] = s
        <3>1. i + 1 \in 1 + 1 .. n /\ requests'[i] = requests[i + 1]
            BY <1>1
        <3>2. ASSUME NEW k \in 1 + 1 .. (i + 1) - 1 PROVE requests[k][1] # c
            <4>1. k - 1 \in 1 .. i - 1 /\ k - 1 \in 1 .. n - 1 /\ (k - 1) + 1 = k
                BY <1>1
            <4> QED BY <1>1, <2>1, <4>1
        <3> QED BY <1>1, <1>2, <1>6, <2>1, <3>1, <3>2
    <2>2. ASSUME \A i \in 1 .. n - 1 : requests'[i][1] # c
          PROVE  state[c] = s
        <3>1. ASSUME NEW k \in 1 + 1 .. n PROVE requests[k][1] # c
            <4>1. k - 1 \in 1 .. n - 1 /\ (k - 1) + 1 = k
                BY <1>1
            <4> QED BY <1>1, <2>2, <4>1
        <3> QED BY <1>1, <1>2, <1>6, <3>1
    <2> QED BY <1>1, <2>1, <2>2 DEF Knows, Waiting
<1>7. ASSUME requests[1][1] = c, NEW s, Knows(c, s)
      PROVE  requests[1][2] = s
    BY <1>1, <1>7 DEF Knows
<1> QED BY <1>4, <1>5, <1>6, <1>7

-----------------------------------------------------------------------------
(* Reports.                                                                *)

\* A send brings a message about its connection; no message that was coming is lost.
LEMMA SendBringsMessage ==
    ASSUME TypeInv, LimiterInv, NEW d \in Connections, NEW isMain \in BOOLEAN, Send(d, isMain)
    PROVE  /\ Coming(d)'
           /\ \A c \in Connections : Coming(c) => Coming(c)'
           /\ (dispatcher.message # None => dispatcher.handed = None)'
<1>0. sends \in Seq(Senders) /\ [conn |-> d, main |-> isMain] \in Senders
      /\ dispatcher \in [handed : Connections \cup {None}, message : Messages \cup {None}]
    BY DEF TypeInv, TypeOK, Senders
<1>1. CASE dispatcher = Idle /\ sends = <<>>
    <2>1. /\ dispatcher' = [dispatcher EXCEPT !.handed = d] /\ sends' = sends
        BY <1>1 DEF Send
    <2>2. dispatcher.handed = None /\ dispatcher.message = None
        BY <1>1 DEF Idle
    <2>3. dispatcher'.handed = d /\ dispatcher'.message = None
        BY <1>0, <2>1, <2>2
    <2>4. \A c \in Connections : ~(\E i \in DOMAIN sends : sends[i].conn = c)
        BY <1>1
    <2>5. \A c \in Connections : Coming(c) => c = None
        BY <2>2, <2>4 DEF Coming
    <2> QED BY <2>3, <2>5, NoneAssumption DEF Coming
<1>2. CASE ~(dispatcher = Idle /\ sends = <<>>)
    <2>1. dispatcher' = dispatcher /\ sends' = Append(sends, [conn |-> d, main |-> isMain])
        BY <1>2 DEF Send
    <2>2. /\ \A i \in DOMAIN sends : i \in DOMAIN sends' /\ sends'[i] = sends[i]
          /\ Len(sends) + 1 \in DOMAIN sends' /\ sends'[Len(sends) + 1].conn = d
        BY <1>0, <2>1, AppendedSeq
    <2> QED BY <2>1, <2>2 DEF Coming, LimiterInv
<1> QED BY <1>1, <1>2

\* No send, and the dispatcher stays.
LEMMA NoSendKeepsMessages ==
    ASSUME LimiterInv, UNCHANGED <<sends, dispatcher>>
    PROVE  /\ \A c \in Connections : Coming(c) => Coming(c)'
           /\ (dispatcher.message # None => dispatcher.handed = None)'
BY DEF Coming, LimiterInv

\* What is left for a connection when the histories change in no other way.
LEMMA LimiterInvIsKept ==
    ASSUME (dispatcher.message # None => dispatcher.handed = None)',
           \A c \in Connections : c \notin missed' \cup ahead' =>
               Chain(c)' /\ (Coming(c)' \/ Accounted(c)')
    PROVE  LimiterInv'
BY DEF LimiterInv

LEMMA InitIsLimiterInv == Init => LimiterInv
<1> SUFFICES ASSUME Init PROVE LimiterInv
    OBVIOUS
<1>1. dispatcher.message = None
    BY DEF Init, Idle
<1>2. requests = <<>> /\ reported = state /\ data = [c \in Connections |-> None]
    BY DEF Init
<1>3. \A c \in Connections : Chain(c)
    BY <1>2 DEF Chain
<1>4. \A c \in Connections : Knows(c, reported[c])
    BY <1>2 DEF Knows
<1>5. \A c \in Connections : Accounted(c)
    BY <1>2, <1>4 DEF Accounted
<1> QED BY <1>1, <1>3, <1>5 DEF LimiterInv

LEMMA ChangeStateKeepsReports ==
    ASSUME TypeInv, LimiterInv, NEW d \in Connections, NEW new \in States, ChangeState(d, new)
    PROVE  LimiterInv'
<1>1. /\ UNCHANGED <<data, waiters, sends, dispatcher, reported, ahead>>
      /\ state' = [state EXCEPT ![d] = new] /\ state \in [Connections -> States]
    BY DEF ChangeState, limiterVars, TypeInv, TypeOK
<1>2. (dispatcher.message # None => dispatcher.handed = None)'
    BY <1>1, NoSendKeepsMessages
<1>3. ASSUME NEW c \in Connections, c \notin missed' \cup ahead'
      PROVE  Chain(c)' /\ (Coming(c)' \/ Accounted(c)')
    <2>1. c \notin missed \cup ahead
        BY <1>1, <1>3 DEF ChangeState
    <2>2. Chain(c) /\ (Coming(c) \/ Accounted(c))
        BY <2>1 DEF LimiterInv
    <2>3. Chain(c)' /\ \A s : Knows(c, s) => Knows(c, s)'
        <3>1. CASE QueueFull
            <4>1. c # d /\ requests' = requests
                BY <1>3, <3>1 DEF ChangeState
            <4>2. state'[c] = state[c]
                BY <1>1, <4>1
            <4> QED BY <2>2, <4>1, <4>2 DEF Chain, Knows, Waiting
        <3>2. CASE ~QueueFull
            <4> DEFINE e == <<d, state[d], new>>
            <4>1. requests' = Append(requests, e) /\ e \in Requests
                BY <1>1, <3>2 DEF ChangeState, Requests
            <4>2. e[1] = d /\ e[2] = state[d] /\ e[3] = state'[d] /\ (c # d => state'[c] = state[c])
                BY <1>1
            <4> HIDE DEF e
            <4> QED BY <2>2, <4>1, <4>2, AppendedRequest
        <3> QED BY <3>1, <3>2
    <2>4. Coming(c) => Coming(c)'
        BY <1>1 DEF Coming
    <2>5. Accounted(c) => Accounted(c)'
        BY <1>1, <2>3 DEF Accounted, Watched
    <2> QED BY <2>2, <2>3, <2>4, <2>5
<1> QED BY <1>2, <1>3, LimiterInvIsKept

\* A transition is received: it is reported, or watched, or left over.
LEMMA ReceivedTransition ==
    ASSUME TypeInv, LimiterInv, NEW d \in Connections, NEW old \in States, NEW new \in Transitioning,
           ReceiveTransition(d, old), UNCHANGED <<reported>>,
           NEW c \in Connections, Coming(c) \/ Accounted(c),
           IF c = d THEN Knows(c, new)' /\ \A s : Knows(c, s) => old = s
                    ELSE \A s : Knows(c, s) => Knows(c, s)'
    PROVE  Coming(c)' \/ Accounted(c)'
<1>0. data \in [Connections -> Entries \cup {None}] /\ waiters \in Seq(Waiters)
    BY DEF TypeInv, TypeOK
<1>1. CASE Send(d, TRUE) /\ UNCHANGED <<data, waiters>>
    <2>1. Coming(d)' /\ (Coming(c) => Coming(c)')
        BY <1>1, SendBringsMessage
    <2>2. c # d /\ Accounted(c) => Accounted(c)'
        BY <1>1 DEF Accounted, Watched
    <2> QED BY <2>1, <2>2
<1>2. CASE NoSend /\ data[d] # None /\ UNCHANGED <<data, waiters>>
    <2>1. Coming(c) => Coming(c)'
        BY <1>2, NoSendKeepsMessages DEF NoSend
    <2>2. c # d /\ Accounted(c) => Accounted(c)'
        BY <1>2 DEF Accounted, Watched
    <2>3. c = d /\ Accounted(c) => Accounted(c)'
        BY <1>2 DEF Accounted, Watched
    <2> QED BY <2>1, <2>2, <2>3
<1>3. CASE /\ NoSend /\ data[d] = None
           /\ data' = [data EXCEPT ![d] = [last |-> old, age |-> 0, settled |-> FALSE]]
           /\ waiters' = Append(waiters, [conn |-> d, age |-> 0, linked |-> TRUE, settled |-> FALSE])
    <2>1. Coming(c) => Coming(c)'
        BY <1>3, NoSendKeepsMessages DEF NoSend
    <2>2. [conn |-> d, age |-> 0, linked |-> TRUE, settled |-> FALSE] \in Waiters
        BY DEF Waiters, Settle
    <2>3. /\ \A i \in DOMAIN waiters : i \in DOMAIN waiters' /\ waiters'[i] = waiters[i]
          /\ Len(waiters) + 1 \in DOMAIN waiters'
          /\ waiters'[Len(waiters) + 1] = [conn |-> d, age |-> 0, linked |-> TRUE, settled |-> FALSE]
        BY <1>0, <1>3, <2>2, AppendedSeq
    <2>4. CASE c # d
        <3>1. data'[c] = data[c] /\ (Watched(c) => Watched(c)')
            BY <1>0, <1>3, <2>3, <2>4 DEF Watched
        <3> QED BY <2>1, <2>4, <3>1 DEF Accounted
    <2>5. CASE c = d
        <3>1. data'[c] = [last |-> old, age |-> 0, settled |-> FALSE]
            BY <1>0, <1>3, <2>5
        <3>2. Watched(c)'
            BY <2>3, <2>5 DEF Watched
        <3>3. Accounted(c) => reported[c] = old
            BY <1>3, <2>5 DEF Accounted
        <3>4. [last |-> old, age |-> 0, settled |-> FALSE] \in Entries
            BY DEF Entries, Fresh
        <3>5. data'[c] # None /\ data'[c].last = old /\ ~data'[c].settled
            <4>1. ASSUME NEW e \in Entries
                  PROVE  e # None
                BY NoneAssumption
            <4>2. data'[c] # None
                BY <3>1, <3>4, <4>1
            <4>3. data'[c].last = old
                BY <3>1
            <4>4. data'[c].settled = FALSE
                BY <3>1
            <4> QED BY <4>2, <4>3, <4>4
        <3>6. Accounted(c) => Accounted(c)'
            BY <1>3, <3>2, <3>3, <3>5 DEF Accounted
        <3> QED BY <2>1, <3>6
    <2> QED BY <2>4, <2>5
<1> QED BY <1>1, <1>2, <1>3 DEF ReceiveTransition

\* A stable state is received: it is reported, or it is the one that was told last.
LEMMA ReceivedStable ==
    ASSUME TypeInv, LimiterInv, NEW d \in Connections, NEW new \in States,
           ReceiveStable(d, new), UNCHANGED <<reported>>,
           NEW c \in Connections, Coming(c) \/ Accounted(c),
           IF c = d THEN Knows(c, new)' ELSE \A s : Knows(c, s) => Knows(c, s)'
    PROVE  Coming(c)' \/ Accounted(c)'
<1>0. data \in [Connections -> Entries \cup {None}] /\ waiters \in Seq(Waiters)
    BY DEF TypeInv, TypeOK
<1>1. ASSUME c # d
      PROVE  Watched(c) => Watched(c)'
    <2>1. /\ DOMAIN waiters' = DOMAIN waiters
          /\ \A i \in DOMAIN waiters : waiters[i].conn # d => waiters'[i] = waiters[i]
        BY DEF ReceiveStable
    <2> QED BY <1>1, <2>1 DEF Watched
<1>2. CASE SettlesSilently(d, new)
    <2>1. NoSend /\ data' = [data EXCEPT ![d].settled = TRUE]
        BY <1>2 DEF ReceiveStable
    <2>2. Coming(c) => Coming(c)'
        BY <2>1, NoSendKeepsMessages DEF NoSend
    <2>3. CASE c # d
        <3>1. data'[c] = data[c]
            BY <1>0, <2>1, <2>3
        <3> QED BY <1>1, <2>2, <2>3, <3>1 DEF Accounted
    <2>4. CASE c = d
        <3>1. data[c] \in Entries /\ data[c].last = new
            BY <1>0, <1>2, <2>4 DEF SettlesSilently
        <3>2. data'[c] = [data[c] EXCEPT !.settled = TRUE]
            BY <1>0, <2>1, <2>4
        <3>3. data'[c] \in Entries /\ data'[c].last = new /\ data'[c].settled
            BY <3>1, <3>2 DEF Entries
        <3>4. Accounted(c) => reported[c] = new
            BY <3>1, NoneAssumption DEF Accounted
        <3>5. Accounted(c) => Accounted(c)'
            BY <2>4, <3>3, <3>4, NoneAssumption DEF Accounted
        <3> QED BY <2>2, <3>5
    <2> QED BY <2>3, <2>4
<1>3. CASE ~SettlesSilently(d, new)
    <2>1. Send(d, TRUE)
        BY <1>3 DEF ReceiveStable
    <2>2. Coming(d)' /\ (Coming(c) => Coming(c)')
        BY <2>1, SendBringsMessage
    <2>3. CASE c # d
        <3>1. data'[c] = data[c]
            BY <1>0, <1>3, <2>3 DEF ReceiveStable
        <3> QED BY <1>1, <2>2, <2>3, <3>1 DEF Accounted
    <2> QED BY <2>2, <2>3
<1> QED BY <1>2, <1>3

LEMMA ReceiveKeepsReports ==
    ASSUME TypeInv, LimiterInv, Receive
    PROVE  LimiterInv'
<1> DEFINE d == requests[1][1]
           old == requests[1][2]
           new == requests[1][3]
<1>1. /\ requests # <<>> /\ requests' = Tail(requests)
      /\ UNCHANGED <<state, reported, missed, ahead>>
    BY DEF Receive, historyVars
<1>2. requests[1] \in Requests /\ Head(requests) = requests[1]
    BY <1>1, TailOfSeq DEF TypeInv, TypeOK
<1>3. d \in Connections /\ old \in States /\ new \in States
    BY <1>2 DEF Requests
<1>4. IF new \in Transitioning THEN ReceiveTransition(d, old) ELSE ReceiveStable(d, new)
    BY <1>2 DEF Receive
<1>5. \A c \in Connections : Chain(c) =>
          /\ Chain(c)'
          /\ IF d = c THEN (\A s : s = new => Knows(c, s)') /\ (\A s : Knows(c, s) => old = s)
                      ELSE \A s : Knows(c, s) => Knows(c, s)'
    BY <1>1, TakenRequest
<1> HIDE DEF d, old, new
<1>6. (dispatcher.message # None => dispatcher.handed = None)'
    <2>1. Send(d, TRUE) \/ NoSend
        BY <1>4 DEF ReceiveTransition, ReceiveStable
    <2> QED BY <1>3, <2>1, SendBringsMessage, NoSendKeepsMessages DEF NoSend
<1>7. ASSUME NEW c \in Connections, c \notin missed' \cup ahead'
      PROVE  Chain(c)' /\ (Coming(c)' \/ Accounted(c)')
    <2>1. Chain(c) /\ (Coming(c) \/ Accounted(c))
        BY <1>1, <1>7 DEF LimiterInv
    <2>2. IF c = d THEN (\A s : s = new => Knows(c, s)') /\ \A s : Knows(c, s) => old = s
                   ELSE \A s : Knows(c, s) => Knows(c, s)'
        BY <1>5, <2>1
    <2>3. CASE new \in Transitioning
        BY <1>1, <1>3, <1>4, <1>5, <2>1, <2>2, <2>3, ReceivedTransition
    <2>4. CASE new \notin Transitioning
        BY <1>1, <1>3, <1>4, <1>5, <2>1, <2>2, <2>4, ReceivedStable
    <2> QED BY <2>3, <2>4
<1> QED BY <1>6, <1>7, LimiterInvIsKept

LEMMA WaiterKeepsReports ==
    ASSUME TypeInv, LimiterInv, NEW i \in DOMAIN waiters, WaiterSettles(i) \/ WaiterTimesOut(i)
    PROVE  LimiterInv'
<1>0. waiters \in Seq(Waiters) /\ waiters[i] \in Waiters
    BY ElementOfSeq, LenProperties DEF TypeInv
<1>1. /\ waiters' = RemoveAt(waiters, i)
      /\ UNCHANGED <<state, requests, data, reported, missed, ahead>>
    BY DEF WaiterSettles, WaiterTimesOut, historyVars
<1>2. \A k \in DOMAIN waiters : k # i => \E j \in DOMAIN waiters' : waiters'[j] = waiters[k]
    BY <1>0, <1>1, RemovedAt
<1> DEFINE d == waiters[i].conn
<1>3. d \in Connections
    BY <1>0 DEF Waiters
<1>4. \/ WaiterSettles(i) /\ waiters[i].settled /\ UNCHANGED <<sends, dispatcher>>
      \/ Send(d, FALSE)
    BY DEF WaiterSettles, WaiterTimesOut
<1> HIDE DEF d
<1>5. /\ (dispatcher.message # None => dispatcher.handed = None)'
      /\ \A c \in Connections : Coming(c) => Coming(c)'
    BY <1>3, <1>4, SendBringsMessage, NoSendKeepsMessages
<1>6. \A c \in Connections : Watched(c) => Watched(c)' \/ Coming(c)'
    <2>1. CASE waiters[i].settled
        BY <1>2, <2>1 DEF Watched
    <2>2. CASE Send(d, FALSE)
        BY <1>2, <1>3, <2>2, SendBringsMessage DEF Watched, d
    <2> QED BY <1>4, <2>1, <2>2
<1>7. ASSUME NEW c \in Connections, c \notin missed' \cup ahead'
      PROVE  Chain(c)' /\ (Coming(c)' \/ Accounted(c)')
    <2>1. Chain(c) /\ (Coming(c) \/ Accounted(c))
        BY <1>1, <1>7 DEF LimiterInv
    <2>2. Chain(c)' /\ \A s : Knows(c, s) => Knows(c, s)'
        BY <1>1, <2>1, SameRequests
    <2>3. Accounted(c) => Accounted(c)' \/ Coming(c)'
        BY <1>1, <1>6, <2>2 DEF Accounted
    <2> QED BY <1>5, <2>1, <2>2, <2>3
<1> QED BY <1>5, <1>7, LimiterInvIsKept

\* A message is built: the state is told, unless requests about it are waiting.
LEMMA BuildKeepsReports ==
    ASSUME TypeInv, LimiterInv, Build
    PROVE  LimiterInv'
<1> DEFINE d == dispatcher.handed
<1>1. /\ d # None /\ data' = Popped(d) /\ waiters' = Unlinked(d)
      /\ dispatcher' = [handed |-> None, message |-> [conn |-> d, status |-> state[d]]]
      /\ reported' = [reported EXCEPT ![d] = state[d]]
      /\ missed' = missed \ {d}
      /\ ahead' = (IF Waiting(d) THEN ahead \cup {d} ELSE ahead \ {d})
      /\ UNCHANGED <<state, requests, sends>>
    BY DEF Build
<1>2. /\ d \in Connections
      /\ data \in [Connections -> Entries \cup {None}] /\ reported \in [Connections -> States]
      /\ waiters \in Seq(Waiters)
    BY <1>1 DEF TypeInv, TypeOK
<1>3. (dispatcher.message # None => dispatcher.handed = None)'
    BY <1>1
<1>4. \A c \in Connections \ {d} : dispatcher.handed # c
    BY DEF d
<1> HIDE DEF d
<1>5. ASSUME NEW c \in Connections, c \notin missed' \cup ahead'
      PROVE  Chain(c)' /\ (Coming(c)' \/ Accounted(c)')
    <2>1. CASE c = d
        <3>1. ~Waiting(c) /\ data'[c] = None /\ reported'[c] = state'[c]
            BY <1>1, <1>2, <1>5, <2>1 DEF Popped
        <3>2. ~Waiting(c)'
            BY <1>1, <3>1 DEF Waiting
        <3>3. Chain(c)' /\ \A s : s = state'[c] => Knows(c, s)'
            BY <3>2 DEF Chain, Knows, Waiting
        <3> QED BY <3>1, <3>3 DEF Accounted
    <2>2. CASE c # d
        <3>1. Chain(c) /\ (Coming(c) \/ Accounted(c))
            BY <1>1, <1>5, <2>2 DEF LimiterInv
        <3>2. Chain(c)' /\ \A s : Knows(c, s) => Knows(c, s)'
            BY <1>1, <3>1, SameRequests
        <3>3. Coming(c) => Coming(c)'
            BY <1>1, <1>4, <2>2 DEF Coming
        <3>4. data'[c] = data[c] /\ reported'[c] = reported[c]
            BY <1>1, <1>2, <2>2 DEF Popped
        <3>5. Watched(c) => Watched(c)'
            BY <1>1, <2>2 DEF Watched, Unlinked
        <3> QED BY <3>1, <3>2, <3>3, <3>4, <3>5 DEF Accounted
    <2> QED BY <2>1, <2>2
<1> QED BY <1>3, <1>5, LimiterInvIsKept

\* The dispatcher takes the first sender in line.
LEMMA PutKeepsReports ==
    ASSUME TypeInv, LimiterInv, PutIntoOutbox
    PROVE  LimiterInv'
<1>1. /\ dispatcher.message # None /\ ReceiveNext
      /\ UNCHANGED <<state, requests, data, waiters, reported, missed, ahead>>
    BY DEF PutIntoOutbox, historyVars
<1>2. dispatcher.handed = None /\ sends \in Seq(Senders)
    BY <1>1 DEF LimiterInv, TypeInv, TypeOK
<1>3. dispatcher'.message = None
    BY <1>1 DEF ReceiveNext, Idle
<1>4. ASSUME NEW c \in Connections, Coming(c)
      PROVE  Coming(c)'
    <2>1. PICK i \in DOMAIN sends : sends[i].conn = c
        BY <1>2, <1>4, NoneAssumption DEF Coming
    <2>2. sends # <<>>
        BY <2>1
    <2>3. /\ dispatcher'.handed = Head(sends).conn /\ sends' = Tail(sends)
        BY <1>1, <2>2 DEF ReceiveNext
    <2>4. /\ Head(sends) = sends[1] /\ Len(sends) \in Nat /\ DOMAIN sends = 1 .. Len(sends)
          /\ DOMAIN sends' = 1 .. Len(sends) - 1
          /\ \A k \in 1 .. Len(sends) - 1 : sends'[k] = sends[k + 1]
        BY <1>2, <2>2, <2>3, TailOfSeq
    <2>5. CASE i = 1
        BY <2>1, <2>3, <2>4, <2>5 DEF Coming
    <2>6. CASE i # 1
        <3> DEFINE n == Len(sends)
        <3>1. i \in 1 .. n /\ n \in Nat
            BY <2>1, <2>4
        <3> HIDE DEF n
        <3>2. i - 1 \in 1 .. n - 1 /\ (i - 1) + 1 = i
            BY <2>6, <3>1
        <3>3. i - 1 \in DOMAIN sends' /\ sends'[i - 1].conn = c
            BY <2>1, <2>4, <3>2 DEF n
        <3> QED BY <3>3 DEF Coming
    <2> QED BY <2>5, <2>6
<1>5. ASSUME NEW c \in Connections, c \notin missed' \cup ahead'
      PROVE  Chain(c)' /\ (Coming(c)' \/ Accounted(c)')
    <2>1. Chain(c) /\ (Coming(c) \/ Accounted(c))
        BY <1>1, <1>5 DEF LimiterInv
    <2>2. Chain(c)' /\ \A s : Knows(c, s) => Knows(c, s)'
        BY <1>1, <2>1, SameRequests
    <2>3. Accounted(c) => Accounted(c)'
        BY <1>1, <2>2 DEF Accounted, Watched
    <2> QED BY <1>4, <2>1, <2>2, <2>3
<1> QED BY <1>3, <1>5, LimiterInvIsKept

LEMMA TickKeepsReports ==
    ASSUME TypeInv, LimiterInv, Tick
    PROVE  LimiterInv'
<1>1. /\ waiters' = [i \in DOMAIN waiters |-> [waiters[i] EXCEPT !.age = Settle]]
      /\ data' = [c \in Connections |-> IF data[c] = None \/ data[c].age = Fresh THEN data[c]
                                        ELSE [data[c] EXCEPT !.age = @ + 1]]
      /\ UNCHANGED <<state, requests, sends, dispatcher, reported, missed, ahead>>
    BY DEF Tick, historyVars
<1>2. /\ (dispatcher.message # None => dispatcher.handed = None)'
      /\ \A c \in Connections : Coming(c) => Coming(c)'
    BY <1>1, NoSendKeepsMessages
<1>3. /\ data \in [Connections -> Entries \cup {None}] /\ data' \in [Connections -> Entries \cup {None}]
      /\ \A i \in DOMAIN waiters : waiters[i] \in Waiters
    BY TickHasTypes DEF TypeInv, TypeOK
<1>4. \A c \in Connections : Watched(c) => Watched(c)'
    BY <1>1, <1>3 DEF Watched, Waiters
<1>5. ASSUME NEW c \in Connections
      PROVE  /\ data'[c] = None <=> data[c] = None
             /\ data[c] # None => data'[c].last = data[c].last /\ data'[c].settled = data[c].settled
    <2>1. CASE data[c] = None
        BY <1>1, <2>1
    <2>2. CASE data[c] # None /\ data[c].age # Fresh
        <3>1. data[c] \in Entries /\ data'[c] = [data[c] EXCEPT !.age = @ + 1]
            BY <1>1, <1>3, <2>2
        <3>2. data[c].age + 1 \in 0 .. Fresh
            BY <2>2, <3>1 DEF Entries, Fresh
        <3>3. data'[c] \in Entries
            BY <3>1, <3>2 DEF Entries
        <3> QED BY <2>2, <3>1, <3>3, NoneAssumption DEF Entries
    <2>3. CASE data[c] # None /\ data[c].age = Fresh
        BY <1>1, <2>3
    <2> QED BY <2>1, <2>2, <2>3
<1>6. ASSUME NEW c \in Connections, c \notin missed' \cup ahead'
      PROVE  Chain(c)' /\ (Coming(c)' \/ Accounted(c)')
    <2>1. Chain(c) /\ (Coming(c) \/ Accounted(c))
        BY <1>1, <1>6 DEF LimiterInv
    <2>2. Chain(c)' /\ \A s : Knows(c, s) => Knows(c, s)'
        BY <1>1, <2>1, SameRequests
    <2>3. Accounted(c) => Accounted(c)'
        BY <1>1, <1>4, <1>5, <2>2 DEF Accounted
    <2> QED BY <1>2, <2>1, <2>2, <2>3
<1> QED BY <1>2, <1>6, LimiterInvIsKept

\* The hub and the clients do not concern the limiter.
LEMMA OthersKeepReports ==
    ASSUME LimiterInv,
           UNCHANGED <<state, requests, data, waiters, sends, dispatcher, reported, missed, ahead>>
    PROVE  LimiterInv'
<1>1. /\ (dispatcher.message # None => dispatcher.handed = None)'
      /\ \A c \in Connections : Coming(c) => Coming(c)'
    BY NoSendKeepsMessages
<1>2. ASSUME NEW c \in Connections, c \notin missed' \cup ahead'
      PROVE  Chain(c)' /\ (Coming(c)' \/ Accounted(c)')
    <2>1. Chain(c) /\ (Coming(c) \/ Accounted(c))
        BY <1>2 DEF LimiterInv
    <2>2. Chain(c)' /\ \A s : Knows(c, s) => Knows(c, s)'
        BY <2>1, SameRequests
    <2>3. Accounted(c) => Accounted(c)'
        BY <2>2 DEF Accounted, Watched
    <2> QED BY <1>1, <2>1, <2>2, <2>3
<1> QED BY <1>1, <1>2, LimiterInvIsKept

LEMMA NextKeepsReports == TypeInv /\ LimiterInv /\ [Next]_vars => LimiterInv'
<1> SUFFICES ASSUME TypeInv, LimiterInv, [Next]_vars PROVE LimiterInv'
    OBVIOUS
<1>1. CASE LimiterStep
    BY <1>1, ReceiveKeepsReports, WaiterKeepsReports, BuildKeepsReports, PutKeepsReports DEF LimiterStep
<1>2. CASE \/ StartBroadcast \/ BroadcastStep
           \/ \E k \in Clients : ClientArrives(k) \/ ClientLeaves(k)
           \/ UNCHANGED vars
    <2>1. UNCHANGED <<state, requests, data, waiters, sends, dispatcher, reported, missed, ahead>>
        BY <1>2 DEF StartBroadcast, BroadcastStep, BeginBroadcast, FinishBroadcast, SendToClient,
                    ClientArrives, ClientLeaves, vars, limiterVars, historyVars
    <2> QED BY <2>1, OthersKeepReports
<1> QED BY <1>1, <1>2, ChangeStateKeepsReports, TickKeepsReports DEF Next

\* When the limiter has nothing left to do about a connection, the last message
\* that it built tells the state of the connection, unless a request was dropped,
\* an entry was left over, or a message got ahead of the requests
\* (ConnectionStatusMessageRateLimiter of message_handlers.py and the queue that
\* it reads).
THEOREM ReportsAreTrue == Spec => []LastReportIsTrue
<1>1. ASSUME TypeInv, LimiterInv
      PROVE  LastReportIsTrue
    <2> SUFFICES ASSUME NEW c \in Connections, Quiet(c), c \notin missed \cup ahead, ~LeftOver(c)
                 PROVE  reported[c] = state[c]
        BY DEF LastReportIsTrue
    <2>1. Accounted(c) /\ ~Waiting(c) /\ ~Watched(c)
        BY <1>1 DEF LimiterInv, Quiet, Coming, Watched
    <2>2. \A s : Knows(c, s) => state[c] = s
        BY <2>1 DEF Knows
    <2> QED BY <2>1, <2>2 DEF Accounted, LeftOver
<1> QED BY <1>1, InitHasTypes, NextHasTypes, InitIsLimiterInv, NextKeepsReports, PTL DEF Spec
================================================================================
