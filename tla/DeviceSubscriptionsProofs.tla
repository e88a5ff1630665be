------------------------ MODULE DeviceSubscriptionsProofs ------------------------
(***************************************************************************)
(* The device tree mirrors the object registry, and clients are subscribed *)
(* and told as they asked, for any sets of clients and ids, any size of    *)
(* the licence and any bound on subscriptions.                             *)
(***************************************************************************)
EXTENDS DeviceSubscriptions, FiniteSetTheorems, SequenceTheorems, TLAPS

\* The registry is a table of objects by id; the tree mirrors it.
MirrorInv ==
    /\ objects \in [Ids -> {"none", "uav", "lps"}]
    /\ TreeMirrorsRegistry

\* ObjectRegistry.remove_by_id() keeps them together, whoever calls it and
\* whatever is registered under the id.
LEMMA RemoveKeepsMirror ==
    ASSUME NEW i \in Ids, MirrorInv, RemoveObject(i)
    PROVE  MirrorInv'
<1>1. objects' = [objects EXCEPT ![i] = "none"]
    BY DEF RemoveObject
<1>2. objects' \in [Ids -> {"none", "uav", "lps"}]
    BY <1>1 DEF MirrorInv
<1>3. tree' = tree \ {i}
    <2>1. CASE i \in tree
        BY <2>1 DEF RemoveObject, StructureChanged
    <2>2. CASE i \notin tree
        BY <2>2 DEF RemoveObject
    <2> QED BY <2>1, <2>2
<1>4. tree' = {j \in Ids : objects'[j] = "uav"}
    BY <1>1, <1>3 DEF MirrorInv, TreeMirrorsRegistry
<1> QED BY <1>2, <1>4 DEF MirrorInv, TreeMirrorsRegistry

\* A driver adds a UAV: the registry and the tree take it, or neither does.
LEMMA AddUAVKeepsMirror ==
    ASSUME NEW i \in Ids, MirrorInv, AddUAV(i)
    PROVE  MirrorInv'
<1>1. CASE HasFreeSlot
    <2>1. objects' = [objects EXCEPT ![i] = "uav"] /\ tree' = tree \cup {i}
        BY <1>1 DEF AddUAV, StructureChanged
    <2> QED BY <2>1 DEF MirrorInv, TreeMirrorsRegistry
<1>2. CASE ~HasFreeSlot
    BY <1>2 DEF AddUAV, MirrorInv, TreeMirrorsRegistry
<1> QED BY <1>1, <1>2

\* An LPS takes an id that no UAV has.
LEMMA AddLPSKeepsMirror ==
    ASSUME NEW i \in Ids, MirrorInv, AddLPS(i)
    PROVE  MirrorInv'
<1>1. objects[i] = "none" /\ tree' = tree
    BY DEF AddLPS
<1>2. objects' \in {[objects EXCEPT ![i] = "lps"], objects}
    BY DEF AddLPS, MirrorInv
<1> QED BY <1>1, <1>2 DEF MirrorInv, TreeMirrorsRegistry

\* Requests of clients touch neither.
LEMMA ClientsKeepRegistries ==
    ASSUME ClientStep
    PROVE  UNCHANGED <<objects, tree>>
<1>1. ASSUME NEW c \in Clients, ClientRemoved(c)
      PROVE  UNCHANGED <<objects, tree>>
    BY <1>1 DEF ClientRemoved, registries
<1>2. ASSUME NEW c \in Clients, NEW p \in Paths, Subscribe(c, p)
      PROVE  UNCHANGED <<objects, tree>>
    BY <1>2 DEF Subscribe, registries
<1>3. ASSUME NEW c \in Clients, NEW ps, NEW force, Unsubscribe(c, ps, force)
      PROVE  UNCHANGED <<objects, tree>>
    BY <1>3 DEF Unsubscribe, registries
<1>4. ASSUME NEW c \in Clients, NEW p \in Paths, NEW force \in BOOLEAN,
             UnsubscribeSubtree(c, p, force)
      PROVE  UNCHANGED <<objects, tree>>
    BY <1>3, <1>4 DEF UnsubscribeSubtree
<1>5. ASSUME NEW c \in Clients, NEW p \in Paths, NEW force \in BOOLEAN,
             UnsubscribePending(c, p, force)
      PROVE  UNCHANGED <<objects, tree>>
    BY <1>5 DEF UnsubscribePending, registries
<1> QED BY <1>1, <1>2, <1>3, <1>4, <1>5 DEF ClientStep

\* However objects come and go, and whoever removes them, the tree shows the
\* UAVs of the registry and nothing else (registries/objects.py,
\* DeviceTree._on_object_removed() of model/devices.py).
THEOREM TreeIsTrue == Spec => []TreeMirrorsRegistry
<1>1. Init => MirrorInv
    BY DEF Init, MirrorInv, TreeMirrorsRegistry
<1>2. MirrorInv /\ [Next]_vars => MirrorInv'
    <2> SUFFICES ASSUME MirrorInv, [Next]_vars
                 PROVE  MirrorInv'
        OBVIOUS
    <2>1. ASSUME NEW i \in Ids, RemoveUAV(i)
          PROVE  MirrorInv'
        BY <2>1, RemoveKeepsMirror DEF RemoveUAV
    <2>2. ASSUME NEW i \in Ids, RemoveLPS(i)
          PROVE  MirrorInv'
        BY <2>2, RemoveKeepsMirror DEF RemoveLPS
    <2>3. CASE ObjectStep
        BY <2>1, <2>2, <2>3, AddUAVKeepsMirror, AddLPSKeepsMirror DEF ObjectStep
    <2>4. CASE ClientStep
        BY <2>4, ClientsKeepRegistries DEF MirrorInv, TreeMirrorsRegistry
    <2>5. ASSUME NEW i \in Ids, UpdateChannel(i)
          PROVE  MirrorInv'
        BY <2>5 DEF UpdateChannel, registries, MirrorInv, TreeMirrorsRegistry
    <2>6. CASE UNCHANGED vars
        BY <2>6 DEF vars, MirrorInv, TreeMirrorsRegistry
    <2> QED BY <2>3, <2>4, <2>5, <2>6 DEF Next
<1>3. MirrorInv => TreeMirrorsRegistry
    BY DEF MirrorInv
<1> QED BY <1>1, <1>2, <1>3, PTL DEF Spec

-----------------------------------------------------------------------------
(* Subscriptions.                                                          *)

Tables ==
    /\ subscribers \in [Clients -> [Paths -> Nat]]
    /\ wanted \in [Clients -> [Paths -> Nat]]
    /\ pending \in [Clients -> Seq(Paths)]
    /\ clients \subseteq Clients
    /\ doubtful \subseteq clients

\* The pending paths of a client of which the code keeps account are one
\* missing path, as often as the client asked for it: it does not matter then
\* which of them is removed.
OnePendingPath ==
    \A c \in Clients \ doubtful : \A n \in DOMAIN pending[c] :
        /\ pending[c][n] = pending[c][1]
        /\ ~Resolves(tree, pending[c][n])

\* Only nodes of the tree have subscribers.
SubscribersOfNodes ==
    \A c \in Clients, p \in Paths : ~Resolves(tree, p) => subscribers[c][p] = 0

\* Nothing is asked for by a client that is gone.
NothingLeftBehind ==
    \A c \in Clients \ clients : pending[c] = <<>> /\ wanted[c] = NoPaths

IInv ==
    /\ MirrorInv
    /\ tree \subseteq Ids
    /\ Tables
    /\ OnePendingPath
    /\ SubscribersOfNodes
    /\ NothingLeftBehind
    /\ SubscribedAsAsked

\* The nodes of two objects are different, and none is the root.
LEMMA NodesAreApart ==
    /\ \A i, j \in Ids : \A p \in PathsOf(i) \cap PathsOf(j) : i = j
    /\ \A T \in SUBSET Ids : \A p : p \in NodesOf(T) <=> \E i \in T : p \in PathsOf(i)
    /\ \A T \in SUBSET Ids : Root \notin NodesOf(T)
BY DEF PathsOf, NodesOf, ObjectPath, ChannelPath, Root

\* What an object adds to the tree, or takes away.
LEMMA ResolvesInLargerTree ==
    ASSUME NEW T \in SUBSET Ids, NEW i \in Ids
    PROVE  /\ \A p : Resolves(T \cup {i}, p) <=> Resolves(T, p) \/ p \in NodesOf({i})
           /\ i \in T => \A p : Resolves(T \ {i}, p) <=> Resolves(T, p) /\ p \notin NodesOf({i})
           /\ NodesOf({}) = {}
BY NodesAreApart DEF Resolves, NodesOf

\* Counting a path in a sequence of equal paths.
LEMMA OccurrencesOfOnePath ==
    ASSUME NEW s \in Seq(Paths), \A n \in DOMAIN s : s[n] = s[1], NEW p \in Paths
    PROVE  /\ Occurrences(s, p) = IF s # <<>> /\ s[1] = p THEN Len(s) ELSE 0
           /\ \A P \in SUBSET DOMAIN s :
                 (P = DOMAIN s => Cardinality(P) = Len(s)) /\ (P = {} => Cardinality(P) = 0)
<1>1. DOMAIN s = 1 .. Len(s) /\ Len(s) \in Nat /\ (s = <<>> <=> Len(s) = 0)
    BY EmptySeq, LenProperties
<1>2. Cardinality(DOMAIN s) = Len(s) /\ Cardinality({}) = 0
    BY <1>1, FS_Interval, FS_EmptySet
<1>3. CASE s # <<>> /\ s[1] = p
    <2>1. {n \in DOMAIN s : s[n] = p} = DOMAIN s
        BY <1>3
    <2> QED BY <1>2, <1>3, <2>1 DEF Occurrences
<1>4. CASE ~(s # <<>> /\ s[1] = p)
    <2>1. {n \in DOMAIN s : s[n] = p} = {}
        BY <1>1, <1>4
    <2> QED BY <1>2, <1>4, <2>1 DEF Occurrences
<1> QED BY <1>2, <1>3, <1>4

LEMMA OccurrencesType ==
    ASSUME NEW s \in Seq(Paths), NEW P \in SUBSET DOMAIN s
    PROVE  Cardinality(P) \in 0 .. Len(s)
<1>1. DOMAIN s = 1 .. Len(s) /\ Len(s) \in Nat
    BY LenProperties
<1>2. IsFiniteSet(1 .. Len(s)) /\ Cardinality(1 .. Len(s)) = Len(s)
    <2> DEFINE k == Len(s)
    <2>1. 1 \in Int /\ k \in Int /\ k \in Nat
        BY <1>1
    <2> HIDE DEF k
    <2>2. IsFiniteSet(1 .. k) /\ Cardinality(1 .. k) = IF 1 > k THEN 0 ELSE k - 1 + 1
        BY <2>1, FS_Interval
    <2>3. Cardinality(1 .. k) = k
        BY <2>1, <2>2
    <2> QED BY <2>2, <2>3 DEF k
<1>3. IsFiniteSet(P) /\ Cardinality(P) <= Len(s)
    BY <1>1, <1>2, FS_Subset
<1>4. Cardinality(P) \in Nat
    BY <1>3, FS_CardinalityType
<1> QED BY <1>1, <1>3, <1>4

LEMMA SubscriptionsInit == Init => IInv
<1> SUFFICES ASSUME Init PROVE IInv
    OBVIOUS
<1>1. MirrorInv /\ tree \subseteq Ids
    BY DEF Init, MirrorInv, TreeMirrorsRegistry
<1>2. Tables /\ OnePendingPath /\ SubscribersOfNodes /\ NothingLeftBehind
    BY DEF Init, Tables, OnePendingPath, SubscribersOfNodes, NothingLeftBehind, NoPaths
<1>3. SubscribedAsAsked
    <2>1. \A p \in Paths : Occurrences(<<>>, p) = 0
        BY FS_EmptySet DEF Occurrences
    <2> QED BY <2>1 DEF Init, SubscribedAsAsked, NoPaths
<1> QED BY <1>1, <1>2, <1>3 DEF IInv

\* A client's pending paths stay, or all of them become subscriptions, when the
\* tree becomes t and the nodes of old are detached.
StaysPending(c, t, old) ==
    /\ pending'[c] = pending[c]
    /\ \A n \in DOMAIN pending[c] : ~Resolves(t, pending[c][n])
    /\ \A p \in Paths : subscribers'[c][p] = IF p \in NodesOf(old) THEN 0 ELSE subscribers[c][p]

BecomesSubscribed(c, t, old) ==
    /\ pending'[c] = <<>>
    /\ \A n \in DOMAIN pending[c] : Resolves(t, pending[c][n])
    /\ \A p \in Paths :
          subscribers'[c][p] = IF p \in NodesOf(old) THEN 0
                               ELSE subscribers[c][p] + Occurrences(pending[c], p)

\* What is true even of a client whose paths the code mixes up.
SubscribersFollow(t, old) ==
    /\ subscribers' \in [Clients -> [Paths -> Nat]]
    /\ pending' \in [Clients -> Seq(Paths)]
    /\ \A c \in Clients : pending[c] = <<>> => pending'[c] = <<>>
    /\ \A c \in Clients, p \in Paths :
          ~Resolves(t, p) =>
              subscribers'[c][p] = IF p \in NodesOf(old) THEN 0 ELSE subscribers[c][p]

\* The device tree changes: a client's one pending path comes into being and all
\* its subscriptions move to the node, or nothing happens to them.
LEMMA StructureEffect ==
    ASSUME IInv, NEW t \in SUBSET Ids, NEW old \in SUBSET Ids, StructureChanged(t, old)
    PROVE  /\ SubscribersFollow(t, old)
           /\ \A c \in Clients \ doubtful : StaysPending(c, t, old) \/ BecomesSubscribed(c, t, old)
<1> DEFINE N(c, p) == {n \in Found(c, t) : pending[c][n] = p}
<1>1. /\ subscribers' = [c \in Clients |-> [p \in Paths |->
             IF p \in NodesOf(old) THEN 0 ELSE subscribers[c][p] + Cardinality(N(c, p))]]
      /\ pending' = [c \in Clients |-> Without(pending[c], Cardinality(Found(c, t)))]
    BY DEF StructureChanged
<1>2. \A c \in Clients : pending[c] \in Seq(Paths)
    BY DEF IInv, Tables
<1>3. \A c \in Clients : Found(c, t) \in SUBSET DOMAIN pending[c]
    BY DEF Found
<1>4. \A c \in Clients : Cardinality(Found(c, t)) \in 0 .. Len(pending[c])
    BY <1>2, <1>3, OccurrencesType
<1>5. \A c \in Clients, p \in Paths : Cardinality(N(c, p)) \in Nat
    <2> SUFFICES ASSUME NEW c \in Clients, NEW p \in Paths PROVE Cardinality(N(c, p)) \in Nat
        OBVIOUS
    <2>1. N(c, p) \in SUBSET DOMAIN pending[c]
        BY <1>3
    <2> HIDE DEF N
    <2>2. Cardinality(N(c, p)) \in 0 .. Len(pending[c])
        BY <1>2, <2>1, OccurrencesType
    <2>3. Len(pending[c]) \in Nat
        BY <1>2, LenProperties
    <2> QED BY <2>2, <2>3
<1>6. subscribers' \in [Clients -> [Paths -> Nat]]
    <2> HIDE DEF N
    <2> QED BY <1>1, <1>5 DEF IInv, Tables
<1>7. pending' \in [Clients -> Seq(Paths)]
    <2> SUFFICES ASSUME NEW c \in Clients
                 PROVE  Without(pending[c], Cardinality(Found(c, t))) \in Seq(Paths)
        BY <1>1
    <2>1. Cardinality(Found(c, t)) \in Nat /\ Len(pending[c]) \in Nat
        BY <1>2, <1>4, LenProperties
    <2>2. \A n \in Cardinality(Found(c, t)) + 1 .. Len(pending[c]) : pending[c][n] \in Paths
        BY <1>2, <2>1, ElementOfSeq
    <2> QED BY <2>1, <2>2, SubSeqProperties DEF Without
<1>8. ASSUME NEW c \in Clients, pending[c] = <<>>
      PROVE  pending'[c] = <<>>
    <2>1. Len(pending[c]) = 0
        BY <1>8
    <2>2. Cardinality(Found(c, t)) = 0
        BY <1>4, <2>1
    <2> QED BY <1>1, <2>1, <2>2, SubSeqEmpty DEF Without
<1>9. ASSUME NEW c \in Clients, NEW p \in Paths, ~Resolves(t, p)
      PROVE  subscribers'[c][p] = IF p \in NodesOf(old) THEN 0 ELSE subscribers[c][p]
    <2>1. N(c, p) = {}
        BY <1>9 DEF Found
    <2>2. Cardinality(N(c, p)) = 0
        BY <2>1, FS_EmptySet
    <2> HIDE DEF N
    <2>3. subscribers[c][p] \in Nat
        BY DEF IInv, Tables
    <2> QED BY <1>1, <2>2, <2>3
<1>10. ASSUME NEW c \in Clients \ doubtful
       PROVE  StaysPending(c, t, old) \/ BecomesSubscribed(c, t, old)
    <2>1. /\ pending[c] \in Seq(Paths)
          /\ \A n \in DOMAIN pending[c] : pending[c][n] = pending[c][1]
          /\ Len(pending[c]) \in Nat
        BY <1>2, LenProperties DEF IInv, OnePendingPath
    <2>2. CASE Found(c, t) = {}
        <3>1. Cardinality(Found(c, t)) = 0
            BY <2>2, FS_EmptySet
        <3>2. pending'[c] = pending[c]
            BY <1>1, <2>1, <3>1, SubSeqFull DEF Without
        <3>3. \A n \in DOMAIN pending[c] : ~Resolves(t, pending[c][n])
            BY <2>2 DEF Found
        <3>4. \A p \in Paths : N(c, p) = {}
            BY <2>2
        <3>5. \A p \in Paths : Cardinality(N(c, p)) = 0
            BY <3>4, FS_EmptySet
        <3>6. \A p \in Paths : subscribers[c][p] \in Nat
            BY DEF IInv, Tables
        <3> HIDE DEF N
        <3>7. \A p \in Paths :
                  subscribers'[c][p] = IF p \in NodesOf(old) THEN 0 ELSE subscribers[c][p]
            BY <1>1, <3>5, <3>6
        <3> QED BY <3>2, <3>3, <3>7 DEF StaysPending
    <2>3. CASE Found(c, t) # {}
        <3>1. PICK n \in DOMAIN pending[c] : Resolves(t, pending[c][n])
            BY <2>3 DEF Found
        <3>2. \A k \in DOMAIN pending[c] : Resolves(t, pending[c][k])
            BY <2>1, <3>1
        <3>3. Found(c, t) = DOMAIN pending[c]
            BY <3>2 DEF Found
        <3>4. DOMAIN pending[c] = 1 .. Len(pending[c])
            BY <2>1, LenProperties
        <3>5. Cardinality(Found(c, t)) = Len(pending[c])
            BY <2>1, <3>3, <3>4, FS_Interval
        <3>6. pending'[c] = <<>>
            BY <1>1, <2>1, <3>5, SubSeqEmpty DEF Without
        <3>7. \A p \in Paths : Cardinality(N(c, p)) = Occurrences(pending[c], p)
            BY <3>3 DEF Occurrences
        <3> HIDE DEF N
        <3> QED BY <1>1, <3>2, <3>6, <3>7 DEF BecomesSubscribed
    <2> QED BY <2>2, <2>3
<1> QED BY <1>6, <1>7, <1>8, <1>9, <1>10 DEF SubscribersFollow

\* An object is removed: its nodes go with their subscribers, and no pending path
\* comes into being.
LEMMA RemoveKeepsAccounts ==
    ASSUME IInv, NEW i \in Ids, RemoveObject(i), UNCHANGED <<clients, doubtful>>
    PROVE  IInv'
<1>1. MirrorInv'
    BY RemoveKeepsMirror DEF IInv
<1>2. CASE i \notin tree
    <2>1. UNCHANGED <<tree, subscribers, pending>>
        BY <1>2 DEF RemoveObject
    <2>2. wanted' = wanted
        <3>1. \A p : p \notin NodesOf({i} \cap tree)
            BY <1>2 DEF NodesOf
        <3> QED BY <3>1 DEF RemoveObject, IInv, Tables
    <2> QED BY <1>1, <2>1, <2>2 DEF IInv, Tables, OnePendingPath, SubscribersOfNodes,
                                    NothingLeftBehind, SubscribedAsAsked
<1>3. CASE i \in tree
    <2> DEFINE t == tree \ {i}
    <2>1. StructureChanged(t, {i}) /\ tree' = t /\ t \in SUBSET Ids /\ {i} \in SUBSET Ids
        BY <1>3 DEF RemoveObject, StructureChanged, IInv
    <2>2. wanted' = [c \in Clients |-> [p \in Paths |-> IF p \in NodesOf({i}) THEN 0 ELSE wanted[c][p]]]
        <3>1. {i} \cap tree = {i}
            BY <1>3
        <3> QED BY <3>1 DEF RemoveObject
    <2>3. \A p : Resolves(t, p) <=> Resolves(tree, p) /\ p \notin NodesOf({i})
        BY <1>3, ResolvesInLargerTree DEF IInv
    <2> HIDE DEF t
    <2>4. /\ SubscribersFollow(t, {i})
          /\ \A c \in Clients \ doubtful : StaysPending(c, t, {i}) \/ BecomesSubscribed(c, t, {i})
        BY <2>1, StructureEffect
    <2>5. \A c \in Clients \ doubtful :
              /\ pending'[c] = pending[c]
              /\ \A p \in Paths :
                    subscribers'[c][p] = IF p \in NodesOf({i}) THEN 0 ELSE subscribers[c][p]
        <3> SUFFICES ASSUME NEW c \in Clients \ doubtful
                     PROVE  /\ pending'[c] = pending[c]
                            /\ \A p \in Paths : subscribers'[c][p] =
                                  IF p \in NodesOf({i}) THEN 0 ELSE subscribers[c][p]
            OBVIOUS
        <3>1. /\ pending[c] \in Seq(Paths)
              /\ \A p \in Paths : subscribers[c][p] \in Nat
            BY DEF IInv, Tables
        <3>2. \A n \in DOMAIN pending[c] : ~Resolves(t, pending[c][n])
            BY <2>3 DEF IInv, OnePendingPath
        <3>3. CASE pending[c] = <<>>
            <4>1. \A p \in Paths : Occurrences(pending[c], p) = 0
                BY <3>3, FS_EmptySet DEF Occurrences
            <4>2. \A p \in Paths : subscribers[c][p] + Occurrences(pending[c], p) = subscribers[c][p]
                BY <3>1, <4>1
            <4>3. CASE StaysPending(c, t, {i})
                BY <4>3 DEF StaysPending
            <4>4. CASE BecomesSubscribed(c, t, {i})
                BY <3>3, <4>2, <4>4 DEF BecomesSubscribed
            <4> QED BY <2>4, <4>3, <4>4
        <3>4. CASE pending[c] # <<>>
            <4>1. 1 \in DOMAIN pending[c]
                BY <3>1, <3>4, EmptySeq, LenProperties
            <4> QED BY <2>4, <3>2, <4>1 DEF StaysPending, BecomesSubscribed
        <3> QED BY <3>3, <3>4
    <2>6. Tables'
        BY <2>2, <2>4 DEF IInv, Tables, SubscribersFollow
    <2>7. OnePendingPath'
        BY <2>1, <2>3, <2>5 DEF IInv, OnePendingPath
    <2>8. SubscribersOfNodes'
        BY <2>1, <2>3, <2>4 DEF IInv, SubscribersOfNodes, SubscribersFollow
    <2>9. NothingLeftBehind'
        BY <2>2, <2>4 DEF IInv, NothingLeftBehind, NoPaths, SubscribersFollow
    <2>10. SubscribedAsAsked'
        <3> SUFFICES ASSUME NEW c \in Clients \ doubtful, NEW p \in Paths
                     PROVE  subscribers'[c][p] + Occurrences(pending'[c], p) = wanted'[c][p]
            BY DEF SubscribedAsAsked
        <3>1. subscribers[c][p] + Occurrences(pending[c], p) = wanted[c][p]
            BY DEF IInv, SubscribedAsAsked
        <3>2. CASE p \notin NodesOf({i})
            BY <2>2, <2>5, <3>1, <3>2
        <3>3. CASE p \in NodesOf({i})
            <4>1. Resolves(tree, p)
                BY <1>3, <3>3 DEF Resolves, NodesOf
            <4>2. /\ pending[c] \in Seq(Paths)
                  /\ \A n \in DOMAIN pending[c] : pending[c][n] = pending[c][1] /\ pending[c][n] # p
                BY <4>1 DEF IInv, Tables, OnePendingPath
            <4>3. pending[c] # <<>> => 1 \in DOMAIN pending[c]
                BY <4>2, EmptySeq, LenProperties
            <4>4. Occurrences(pending[c], p) = 0
                BY <4>2, <4>3, OccurrencesOfOnePath
            <4>5. subscribers'[c][p] = 0 /\ pending'[c] = pending[c] /\ wanted'[c][p] = 0
                BY <2>2, <2>5, <3>3
            <4> QED BY <4>4, <4>5
        <3> QED BY <3>2, <3>3
    <2> QED BY <1>1, <2>1, <2>6, <2>7, <2>8, <2>9, <2>10 DEF IInv
<1> QED BY <1>2, <1>3

\* A UAV is added: whoever waits for its nodes is subscribed to them.
LEMMA AddUAVKeepsAccounts ==
    ASSUME IInv, NEW i \in Ids, AddUAV(i)
    PROVE  IInv'
<1>1. MirrorInv' /\ UNCHANGED <<clients, doubtful, wanted>>
    BY AddUAVKeepsMirror DEF AddUAV, history, IInv
<1>2. CASE ~HasFreeSlot
    BY <1>1, <1>2 DEF AddUAV, IInv, Tables, OnePendingPath, SubscribersOfNodes, NothingLeftBehind,
                      SubscribedAsAsked
<1>3. CASE HasFreeSlot
    <2> DEFINE t == tree \cup {i}
    <2>1. StructureChanged(t, {}) /\ tree' = t /\ t \in SUBSET Ids /\ {} \in SUBSET Ids
        BY <1>3 DEF AddUAV, StructureChanged, IInv
    <2>2. /\ \A p : Resolves(tree, p) => Resolves(t, p)
          /\ \A p : p \notin NodesOf({})
        BY ResolvesInLargerTree DEF IInv
    <2> HIDE DEF t
    <2>3. /\ SubscribersFollow(t, {})
          /\ \A c \in Clients \ doubtful : StaysPending(c, t, {}) \/ BecomesSubscribed(c, t, {})
        BY <2>1, StructureEffect
    <2>4. Tables'
        BY <1>1, <2>3 DEF IInv, Tables, SubscribersFollow
    <2>5. OnePendingPath'
        BY <1>1, <2>1, <2>3 DEF IInv, OnePendingPath, StaysPending, BecomesSubscribed
    <2>6. SubscribersOfNodes'
        BY <2>1, <2>2, <2>3 DEF IInv, SubscribersOfNodes, SubscribersFollow
    <2>7. NothingLeftBehind'
        BY <1>1, <2>3 DEF IInv, NothingLeftBehind, SubscribersFollow
    <2>8. SubscribedAsAsked'
        <3> SUFFICES ASSUME NEW c \in Clients \ doubtful, NEW p \in Paths
                     PROVE  subscribers'[c][p] + Occurrences(pending'[c], p) = wanted[c][p]
            BY <1>1 DEF SubscribedAsAsked
        <3>1. /\ subscribers[c][p] + Occurrences(pending[c], p) = wanted[c][p]
              /\ wanted[c][p] \in Nat
            BY DEF IInv, SubscribedAsAsked, Tables
        <3>2. CASE StaysPending(c, t, {})
            BY <2>2, <3>1, <3>2 DEF StaysPending
        <3>3. CASE BecomesSubscribed(c, t, {})
            <4>1. Occurrences(pending'[c], p) = 0
                BY <3>3, FS_EmptySet DEF Occurrences, BecomesSubscribed
            <4>2. subscribers'[c][p] = wanted[c][p]
                BY <2>2, <3>1, <3>3 DEF BecomesSubscribed
            <4> QED BY <3>1, <4>1, <4>2
        <3> QED BY <2>3, <3>2, <3>3
    <2> QED BY <1>1, <2>1, <2>4, <2>5, <2>6, <2>7, <2>8 DEF IInv
<1> QED BY <1>2, <1>3

\* The accounts of one client.
AccountFits(c) ==
    /\ c \notin doubtful =>
          /\ \A n \in DOMAIN pending[c] : pending[c][n] = pending[c][1] /\ ~Resolves(tree, pending[c][n])
          /\ \A p \in Paths : subscribers[c][p] + Occurrences(pending[c], p) = wanted[c][p]
    /\ \A p \in Paths : ~Resolves(tree, p) => subscribers[c][p] = 0
    /\ c \notin clients => pending[c] = <<>> /\ wanted[c] = NoPaths

LEMMA AccountsFit ==
    IInv <=> MirrorInv /\ tree \subseteq Ids /\ Tables /\ \A c \in Clients : AccountFits(c)
BY DEF IInv, OnePendingPath, SubscribersOfNodes, NothingLeftBehind, SubscribedAsAsked, AccountFits,
       Tables

\* A request of client c concerns its own accounts.
LEMMA RequestKeepsAccounts ==
    ASSUME IInv, NEW c \in Clients, UNCHANGED registries, Tables', AccountFits(c)',
           \A d \in Clients \ {c} : /\ subscribers'[d] = subscribers[d]
                                    /\ pending'[d] = pending[d]
                                    /\ wanted'[d] = wanted[d]
                                    /\ d \in doubtful' <=> d \in doubtful
                                    /\ d \in clients' <=> d \in clients
    PROVE  IInv'
<1>1. UNCHANGED <<objects, tree>>
    BY DEF registries
<1>2. MirrorInv' /\ (tree \subseteq Ids)'
    BY <1>1 DEF IInv, MirrorInv, TreeMirrorsRegistry
<1>3. \A d \in Clients \ {c} : AccountFits(d)'
    <2> SUFFICES ASSUME NEW d \in Clients \ {c} PROVE AccountFits(d)'
        OBVIOUS
    <2>1. AccountFits(d)
        BY AccountsFit
    <2> QED BY <1>1, <2>1 DEF AccountFits
<1>4. \A d \in Clients : AccountFits(d)'
    BY <1>3
<1>5. OnePendingPath'
    BY <1>4 DEF OnePendingPath, AccountFits
<1>6. SubscribersOfNodes'
    BY <1>4 DEF SubscribersOfNodes, AccountFits
<1>7. NothingLeftBehind'
    BY <1>4 DEF NothingLeftBehind, AccountFits
<1>8. SubscribedAsAsked'
    BY <1>4 DEF SubscribedAsAsked, AccountFits
<1> QED BY <1>2, <1>5, <1>6, <1>7, <1>8 DEF IInv

LEMMA SubscribeKeepsAccounts ==
    ASSUME IInv, NEW c \in Clients, NEW p \in Paths, Subscribe(c, p)
    PROVE  IInv'
<1> DEFINE w == [wanted[c] EXCEPT ![p] = @ + 1]
<1>1. /\ c \in clients /\ UNCHANGED registries /\ UNCHANGED clients /\ tree' = tree
      /\ SubscribeTo(c, p) \/ SubscribeLazily(c, p)
      /\ wanted' = [wanted EXCEPT ![c] = IF c \in doubtful' THEN NoPaths ELSE w]
    BY DEF Subscribe, Holds, registries
<1>2. /\ Tables /\ AccountFits(c)
      /\ subscribers[c] \in [Paths -> Nat] /\ wanted[c] \in [Paths -> Nat]
      /\ pending[c] \in Seq(Paths)
    BY AccountsFit DEF IInv, Tables
<1>3. w \in [Paths -> Nat] /\ NoPaths \in [Paths -> Nat]
    BY <1>2 DEF NoPaths
<1>4. wanted' \in [Clients -> [Paths -> Nat]]
      /\ wanted'[c] = (IF c \in doubtful' THEN NoPaths ELSE w)
      /\ \A d \in Clients \ {c} : wanted'[d] = wanted[d]
    <2> HIDE DEF w
    <2> QED BY <1>1, <1>2, <1>3 DEF Tables
<1>5. CASE SubscribeTo(c, p)
    <2>1. /\ Resolves(tree, p)
          /\ subscribers' = [subscribers EXCEPT ![c][p] = @ + 1]
          /\ UNCHANGED <<pending, doubtful>>
        BY <1>5 DEF SubscribeTo
    <2>2. /\ subscribers' \in [Clients -> [Paths -> Nat]]
          /\ subscribers'[c] = [subscribers[c] EXCEPT ![p] = @ + 1]
          /\ \A d \in Clients \ {c} : subscribers'[d] = subscribers[d]
        BY <1>2, <2>1 DEF Tables
    <2>3. Tables'
        BY <1>1, <1>2, <1>4, <2>1, <2>2 DEF Tables
    <2>4. AccountFits(c)'
        <3>1. ASSUME NEW q \in Paths, c \notin doubtful
              PROVE  subscribers'[c][q] + Occurrences(pending[c], q) = wanted'[c][q]
            <4>1. /\ subscribers[c][q] + Occurrences(pending[c], q) = wanted[c][q]
                  /\ subscribers[c][q] \in Nat /\ wanted[c][q] \in Nat
                BY <1>2, <3>1 DEF AccountFits
            <4>2. Occurrences(pending[c], q) \in Nat
                BY <1>2, OccurrencesType, LenProperties DEF Occurrences
            <4>3. wanted'[c][q] = IF q = p THEN wanted[c][q] + 1 ELSE wanted[c][q]
                BY <1>2, <1>4, <2>1, <3>1
            <4>4. subscribers'[c][q] = IF q = p THEN subscribers[c][q] + 1 ELSE subscribers[c][q]
                BY <1>2, <2>2
            <4> QED BY <4>1, <4>2, <4>3, <4>4
        <3>2. \A q \in Paths : ~Resolves(tree, q) => subscribers'[c][q] = 0
            BY <1>2, <2>1, <2>2 DEF AccountFits
        <3> QED BY <1>1, <1>2, <2>1, <3>1, <3>2 DEF AccountFits
    <2> QED BY <1>1, <1>4, <2>1, <2>2, <2>3, <2>4, RequestKeepsAccounts
<1>6. CASE SubscribeLazily(c, p)
    <2>1. /\ ~Resolves(tree, p)
          /\ pending' = [pending EXCEPT ![c] = Append(@, p)]
          /\ doubtful' = IF \E n \in DOMAIN pending[c] : pending[c][n] # p
                         THEN doubtful \cup {c} ELSE doubtful
          /\ UNCHANGED subscribers
        BY <1>6 DEF SubscribeLazily, Names
    <2>2. /\ Append(pending[c], p) \in Seq(Paths)
          /\ Len(Append(pending[c], p)) = Len(pending[c]) + 1
          /\ \A n \in 1 .. Len(pending[c]) : Append(pending[c], p)[n] = pending[c][n]
          /\ Append(pending[c], p)[Len(pending[c]) + 1] = p
        BY <1>2, AppendProperties
    <2>3. /\ pending' \in [Clients -> Seq(Paths)]
          /\ pending'[c] = Append(pending[c], p)
          /\ \A d \in Clients \ {c} : pending'[d] = pending[d]
        BY <1>2, <2>1, <2>2 DEF Tables
    <2>4. Tables'
        BY <1>1, <1>2, <1>4, <2>1, <2>3 DEF Tables
    <2>5. Len(pending[c]) \in Nat /\ DOMAIN pending[c] = 1 .. Len(pending[c])
          /\ DOMAIN pending'[c] = 1 .. Len(pending[c]) + 1
          /\ Len(pending'[c]) = Len(pending[c]) + 1
        BY <1>2, <2>2, <2>3, LenProperties
    <2>6. ASSUME c \notin doubtful'
          PROVE  /\ \A n \in DOMAIN pending'[c] : pending'[c][n] = p
                 /\ \A q \in Paths : subscribers[c][q] + Occurrences(pending'[c], q) = wanted'[c][q]
        <3>1. c \notin doubtful /\ \A n \in DOMAIN pending[c] : pending[c][n] = p
            BY <2>1, <2>6
        <3>2. \A n \in DOMAIN pending'[c] : pending'[c][n] = p
            BY <2>2, <2>3, <2>5, <3>1
        <3>3. 1 \in DOMAIN pending'[c] /\ pending'[c] # <<>> /\ pending'[c] \in Seq(Paths)
            BY <2>2, <2>3, <2>5
        <3>4. ASSUME NEW q \in Paths
              PROVE  subscribers[c][q] + Occurrences(pending'[c], q) = wanted'[c][q]
            <4>1. Occurrences(pending'[c], q) = IF q = p THEN Len(pending[c]) + 1 ELSE 0
                <5>1. Occurrences(pending'[c], q) = IF pending'[c][1] = q THEN Len(pending'[c]) ELSE 0
                    BY <3>2, <3>3, OccurrencesOfOnePath
                <5> QED BY <2>5, <3>2, <3>3, <5>1
            <4>2. Occurrences(pending[c], q) = IF q = p THEN Len(pending[c]) ELSE 0
                <5>1. CASE pending[c] = <<>>
                    <6>1. {n \in DOMAIN pending[c] : pending[c][n] = q} = {} /\ Len(pending[c]) = 0
                        BY <5>1
                    <6> QED BY <6>1, FS_EmptySet DEF Occurrences
                <5>2. CASE pending[c] # <<>>
                    <6>1. 1 \in DOMAIN pending[c]
                        BY <1>2, <2>5, <5>2, EmptySeq
                    <6> QED BY <1>2, <3>1, <5>2, <6>1, OccurrencesOfOnePath
                <5> QED BY <5>1, <5>2
            <4>3. /\ subscribers[c][q] + Occurrences(pending[c], q) = wanted[c][q]
                  /\ subscribers[c][q] \in Nat /\ wanted[c][q] \in Nat
                BY <1>2, <3>1 DEF AccountFits
            <4>4. wanted'[c][q] = IF q = p THEN wanted[c][q] + 1 ELSE wanted[c][q]
                BY <1>2, <1>4, <2>6
            <4>5. CASE q = p
                BY <2>5, <4>1, <4>2, <4>3, <4>4, <4>5
            <4>6. CASE q # p
                BY <2>5, <4>1, <4>2, <4>3, <4>4, <4>6
            <4> QED BY <4>5, <4>6
        <3> QED BY <3>2, <3>4
    <2>7. AccountFits(c)'
        <3>1. c \notin doubtful' => \A n \in DOMAIN pending'[c] :
                  pending'[c][n] = pending'[c][1] /\ ~Resolves(tree, pending'[c][n])
            BY <2>1, <2>5, <2>6
        <3> QED BY <1>1, <1>2, <2>1, <2>6, <3>1 DEF AccountFits
    <2> QED BY <1>1, <1>4, <2>1, <2>3, <2>4, <2>7, RequestKeepsAccounts
<1> QED BY <1>1, <1>5, <1>6

\* An unsubscription from nodes of the tree.
LEMMA UnsubscribeKeepsAccounts ==
    ASSUME IInv, NEW c \in Clients, NEW ps \in SUBSET Paths, NEW force \in BOOLEAN,
           Unsubscribe(c, ps, force)
    PROVE  IInv'
<1> DEFINE w == [p \in Paths |-> IF p \notin ps \/ wanted[c][p] = 0 THEN wanted[c][p]
                                 ELSE IF force THEN 0 ELSE wanted[c][p] - 1]
           s == [p \in Paths |-> IF p \in ps THEN LeftOf(subscribers[c][p], force)
                                 ELSE subscribers[c][p]]
<1>1. /\ c \in clients /\ UNCHANGED registries /\ UNCHANGED <<clients, pending, doubtful, tree>>
      /\ \A p \in ps : Resolves(tree, p)
      /\ subscribers' = [subscribers EXCEPT ![c] = s]
      /\ wanted' = [wanted EXCEPT ![c] = IF c \in doubtful THEN NoPaths ELSE w]
    BY DEF Unsubscribe, Holds, registries
<1>2. /\ Tables /\ AccountFits(c)
      /\ subscribers[c] \in [Paths -> Nat] /\ wanted[c] \in [Paths -> Nat]
      /\ pending[c] \in Seq(Paths)
    BY AccountsFit DEF IInv, Tables
<1>3. s \in [Paths -> Nat] /\ w \in [Paths -> Nat] /\ NoPaths \in [Paths -> Nat]
    BY <1>2 DEF LeftOf, NoPaths
<1>4. \A p \in Paths : s[p] = IF p \in ps THEN LeftOf(subscribers[c][p], force) ELSE subscribers[c][p]
    OBVIOUS
<1>5. \A p \in Paths : w[p] = IF p \notin ps \/ wanted[c][p] = 0 THEN wanted[c][p]
                              ELSE IF force THEN 0 ELSE wanted[c][p] - 1
    OBVIOUS
<1> HIDE DEF s, w
<1>6. /\ subscribers' \in [Clients -> [Paths -> Nat]] /\ wanted' \in [Clients -> [Paths -> Nat]]
      /\ subscribers'[c] = s /\ (c \notin doubtful => wanted'[c] = w)
      /\ \A d \in Clients \ {c} : subscribers'[d] = subscribers[d] /\ wanted'[d] = wanted[d]
    BY <1>1, <1>2, <1>3 DEF Tables
<1>7. Tables'
    BY <1>1, <1>2, <1>6 DEF Tables
<1>8. ASSUME NEW p \in Paths, c \notin doubtful
      PROVE  s[p] + Occurrences(pending[c], p) = w[p]
    <2>1. /\ subscribers[c][p] + Occurrences(pending[c], p) = wanted[c][p]
          /\ subscribers[c][p] \in Nat /\ wanted[c][p] \in Nat
        BY <1>2, <1>8 DEF AccountFits
    <2>2. CASE p \notin ps
        BY <1>4, <1>5, <2>1, <2>2
    <2>3. CASE p \in ps
        <3>1. \A n \in DOMAIN pending[c] : pending[c][n] = pending[c][1] /\ pending[c][n] # p
            BY <1>1, <1>2, <1>8, <2>3 DEF AccountFits
        <3>2. pending[c] # <<>> => 1 \in DOMAIN pending[c]
            BY <1>2, EmptySeq, LenProperties
        <3>3. Occurrences(pending[c], p) = 0
            BY <1>2, <3>1, <3>2, OccurrencesOfOnePath
        <3> QED BY <1>4, <1>5, <2>1, <2>3, <3>3 DEF LeftOf
    <2> QED BY <2>2, <2>3
<1>9. \A p \in Paths : ~Resolves(tree, p) => s[p] = 0
    BY <1>1, <1>2, <1>4 DEF AccountFits
<1>10. AccountFits(c)'
    BY <1>1, <1>2, <1>6, <1>8, <1>9 DEF AccountFits
<1> QED BY <1>1, <1>6, <1>7, <1>10, RequestKeepsAccounts

\* An unsubscription from a missing path takes one pending path, which is the
\* one that was meant if the client has only one.
LEMMA UnsubscribePendingKeepsAccounts ==
    ASSUME IInv, NEW c \in Clients, NEW p \in Paths, NEW force \in BOOLEAN,
           UnsubscribePending(c, p, force)
    PROVE  IInv'
<1> DEFINE w == [wanted[c] EXCEPT ![p] = IF force \/ @ = 0 THEN 0 ELSE @ - 1]
<1>1. /\ c \in clients /\ UNCHANGED registries /\ UNCHANGED <<clients, subscribers, tree>>
      /\ ~Resolves(tree, p) /\ pending[c] # <<>>
      /\ pending' = [pending EXCEPT ![c] = Tail(@)]
      /\ doubtful' = IF \/ Occurrences(pending[c], p) # Len(pending[c])
                        \/ force /\ Len(pending[c]) > 1
                     THEN doubtful \cup {c} ELSE doubtful
      /\ wanted' = [wanted EXCEPT ![c] = IF c \in doubtful' THEN NoPaths ELSE w]
    BY DEF UnsubscribePending, MayTakeAnother, TakesOneOfAll, RemovePath, Holds, registries
<1>2. /\ Tables /\ AccountFits(c)
      /\ subscribers[c] \in [Paths -> Nat] /\ wanted[c] \in [Paths -> Nat]
      /\ pending[c] \in Seq(Paths)
    BY AccountsFit DEF IInv, Tables
<1>3. /\ w \in [Paths -> Nat] /\ NoPaths \in [Paths -> Nat]
      /\ \A q \in Paths : w[q] = IF q # p THEN wanted[c][q]
                                 ELSE IF force \/ wanted[c][p] = 0 THEN 0 ELSE wanted[c][p] - 1
    BY <1>2 DEF NoPaths
<1>4. /\ Tail(pending[c]) \in Seq(Paths)
      /\ Len(pending[c]) \in Nat \ {0} /\ Len(Tail(pending[c])) = Len(pending[c]) - 1
      /\ DOMAIN pending[c] = 1 .. Len(pending[c])
      /\ DOMAIN Tail(pending[c]) = 1 .. Len(pending[c]) - 1
      /\ \A n \in 1 .. Len(pending[c]) - 1 : Tail(pending[c])[n] = pending[c][n + 1]
    BY <1>1, <1>2, HeadTailProperties, EmptySeq, LenProperties
<1> HIDE DEF w
<1>5. /\ wanted' \in [Clients -> [Paths -> Nat]] /\ pending' \in [Clients -> Seq(Paths)]
      /\ pending'[c] = Tail(pending[c]) /\ (c \notin doubtful' => wanted'[c] = w)
      /\ \A d \in Clients \ {c} : pending'[d] = pending[d] /\ wanted'[d] = wanted[d]
    BY <1>1, <1>2, <1>3, <1>4 DEF Tables
<1>6. Tables'
    BY <1>1, <1>2, <1>5 DEF Tables
<1>7. ASSUME c \notin doubtful'
      PROVE  /\ \A n \in DOMAIN pending'[c] : pending'[c][n] = p
             /\ \A q \in Paths : subscribers[c][q] + Occurrences(pending'[c], q) = wanted'[c][q]
    <2>1. /\ c \notin doubtful /\ Occurrences(pending[c], p) = Len(pending[c])
          /\ ~(force /\ Len(pending[c]) > 1)
        BY <1>1, <1>7
    <2>2. /\ \A n \in DOMAIN pending[c] : pending[c][n] = pending[c][1]
          /\ 1 \in DOMAIN pending[c]
        BY <1>2, <1>4, <2>1 DEF AccountFits
    <2>3. pending[c][1] = p
        <3>1. CASE pending[c][1] # p
            <4>1. Occurrences(pending[c], p) = 0
                BY <1>2, <2>2, <3>1, OccurrencesOfOnePath
            <4>2. Len(pending[c]) # 0
                BY <1>4
            <4> QED BY <2>1, <4>1, <4>2
        <3> QED BY <3>1
    <2>4. \A n \in DOMAIN pending'[c] : pending'[c][n] = p
        <3> SUFFICES ASSUME NEW n \in DOMAIN pending'[c] PROVE pending'[c][n] = p
            OBVIOUS
        <3> DEFINE k == Len(pending[c])
        <3>1. n \in 1 .. k - 1 /\ k \in Nat
            BY <1>4, <1>5
        <3>2. DOMAIN pending[c] = 1 .. k /\ pending'[c][n] = pending[c][n + 1]
            BY <1>4, <1>5, <3>1
        <3> HIDE DEF k
        <3>3. n + 1 \in 1 .. k
            BY <3>1
        <3> QED BY <2>2, <2>3, <3>2, <3>3
    <2>5. ASSUME NEW q \in Paths
          PROVE  subscribers[c][q] + Occurrences(pending'[c], q) = wanted'[c][q]
        <3>1. Occurrences(pending[c], q) = IF q = p THEN Len(pending[c]) ELSE 0
            BY <1>1, <1>2, <2>2, <2>3, OccurrencesOfOnePath
        <3>2. Occurrences(pending'[c], q) = IF q = p THEN Len(pending[c]) - 1 ELSE 0
            <4>1. CASE pending'[c] = <<>>
                <5>1. /\ {n \in DOMAIN pending'[c] : pending'[c][n] = q} = {}
                      /\ Len(pending'[c]) = 0
                    BY <4>1
                <5>2. Len(pending[c]) = 1
                    <6> DEFINE k == Len(pending[c])
                    <6>1. k \in Nat /\ k - 1 = 0
                        BY <1>4, <1>5, <5>1
                    <6> HIDE DEF k
                    <6>2. k = 1
                        BY <6>1
                    <6> QED BY <6>2 DEF k
                <5>3. Occurrences(pending'[c], q) = 0
                    BY <5>1, FS_EmptySet DEF Occurrences
                <5>4. Len(pending[c]) - 1 = 0
                    BY <5>2
                <5> QED BY <5>3, <5>4
            <4>2. CASE pending'[c] # <<>>
                <5>1. pending'[c] \in Seq(Paths) /\ 1 \in DOMAIN pending'[c]
                    BY <1>4, <1>5, <4>2, EmptySeq, LenProperties
                <5>2. pending'[c][1] = p /\ \A n \in DOMAIN pending'[c] : pending'[c][n] = pending'[c][1]
                    BY <2>4, <5>1
                <5>3. Occurrences(pending'[c], q) = IF p = q THEN Len(pending'[c]) ELSE 0
                    BY <4>2, <5>1, <5>2, OccurrencesOfOnePath
                <5> QED BY <1>4, <1>5, <5>3
            <4> QED BY <4>1, <4>2
        <3>3. /\ subscribers[c][q] + Occurrences(pending[c], q) = wanted[c][q]
              /\ subscribers[c][q] \in Nat /\ wanted[c][q] \in Nat
              /\ ~Resolves(tree, q) => subscribers[c][q] = 0
            BY <1>2, <2>1 DEF AccountFits
        <3>4. wanted'[c][q] = IF q # p THEN wanted[c][q]
                              ELSE IF force \/ wanted[c][p] = 0 THEN 0 ELSE wanted[c][p] - 1
            BY <1>3, <1>5, <1>7
        <3>5. CASE q # p
            BY <3>1, <3>2, <3>3, <3>4, <3>5
        <3>6. CASE q = p
            <4>1. subscribers[c][q] = 0 /\ wanted[c][p] = Len(pending[c])
                BY <1>1, <1>4, <3>1, <3>3, <3>6
            <4>2. Occurrences(pending'[c], q) = Len(pending[c]) - 1
                BY <3>2, <3>6
            <4>3. wanted'[c][q] = IF force THEN 0 ELSE Len(pending[c]) - 1
                BY <1>4, <3>4, <3>6, <4>1
            <4> DEFINE k == Len(pending[c])
            <4>4. k \in Nat \ {0} /\ ~(force /\ k > 1)
                BY <1>4, <2>1
            <4>5. /\ subscribers[c][q] = 0 /\ Occurrences(pending'[c], q) = k - 1
                  /\ wanted'[c][q] = IF force THEN 0 ELSE k - 1
                BY <4>1, <4>2, <4>3
            <4> HIDE DEF k
            <4>6. force => k = 1
                BY <4>4
            <4> QED BY <4>4, <4>5, <4>6
        <3> QED BY <3>5, <3>6
    <2> QED BY <2>4, <2>5
<1>8. AccountFits(c)'
    <2>1. c \notin doubtful' => \A n \in DOMAIN pending'[c] :
              pending'[c][n] = pending'[c][1] /\ ~Resolves(tree, pending'[c][n])
        <3> SUFFICES ASSUME c \notin doubtful', NEW n \in DOMAIN pending'[c]
                     PROVE  pending'[c][n] = pending'[c][1] /\ ~Resolves(tree, pending'[c][n])
            OBVIOUS
        <3>1. 1 \in DOMAIN pending'[c]
            BY <1>4, <1>5
        <3> QED BY <1>1, <1>7, <3>1
    <2> QED BY <1>1, <1>2, <1>7, <2>1 DEF AccountFits
<1> QED BY <1>1, <1>5, <1>6, <1>8, RequestKeepsAccounts

\* A client leaves: the tree and the table of pending paths forget it.
LEMMA ClientRemovedKeepsAccounts ==
    ASSUME IInv, NEW c \in Clients, ClientRemoved(c)
    PROVE  IInv'
<1>1. /\ UNCHANGED registries /\ tree' = tree
      /\ clients' = clients \ {c} /\ doubtful' = doubtful \ {c}
      /\ subscribers' = [subscribers EXCEPT ![c] =
             [p \in Paths |-> IF Resolves(tree, p) THEN 0 ELSE @[p]]]
      /\ pending' = [pending EXCEPT ![c] = <<>>]
      /\ wanted' = [wanted EXCEPT ![c] = NoPaths]
    BY DEF ClientRemoved, registries
<1>2. Tables /\ \A p \in Paths : ~Resolves(tree, p) => subscribers[c][p] = 0
    BY DEF IInv, SubscribersOfNodes
<1>3. [p \in Paths |-> IF Resolves(tree, p) THEN 0 ELSE subscribers[c][p]] = NoPaths
    BY <1>2 DEF NoPaths
<1>4. NoPaths \in [Paths -> Nat] /\ \A p \in Paths : NoPaths[p] = 0
    BY DEF NoPaths
<1>5. subscribers' = [subscribers EXCEPT ![c] = NoPaths]
    BY <1>1, <1>3
<1>6. /\ Tables'
      /\ subscribers'[c] = NoPaths /\ pending'[c] = <<>> /\ wanted'[c] = NoPaths
      /\ \A d \in Clients \ {c} : /\ subscribers'[d] = subscribers[d]
                                  /\ pending'[d] = pending[d] /\ wanted'[d] = wanted[d]
    BY <1>1, <1>2, <1>4, <1>5, EmptySeq DEF Tables
<1>7. \A p \in Paths : Occurrences(pending'[c], p) = 0
    BY <1>6, FS_EmptySet DEF Occurrences
<1>8. AccountFits(c)'
    BY <1>4, <1>6, <1>7 DEF AccountFits
<1> QED BY <1>1, <1>6, <1>8, RequestKeepsAccounts

\* An LPS takes no place in the tree, and changes of channels touch no
\* subscription.
LEMMA OthersKeepAccounts ==
    ASSUME IInv, UNCHANGED <<tree, clients, subscribers, pending, wanted, doubtful>>, MirrorInv'
    PROVE  IInv'
BY DEF IInv, Tables, OnePendingPath, SubscribersOfNodes, NothingLeftBehind, SubscribedAsAsked

LEMMA NextKeepsAccounts == IInv /\ [Next]_vars => IInv'
<1> SUFFICES ASSUME IInv, [Next]_vars PROVE IInv'
    OBVIOUS
<1>1. MirrorInv
    BY DEF IInv
<1>2. ASSUME NEW i \in Ids, RemoveUAV(i) PROVE IInv'
    BY <1>2, RemoveKeepsAccounts DEF RemoveUAV
<1>3. ASSUME NEW i \in Ids, RemoveLPS(i) PROVE IInv'
    BY <1>3, RemoveKeepsAccounts DEF RemoveLPS
<1>4. ASSUME NEW i \in Ids, AddLPS(i) PROVE IInv'
    BY <1>1, <1>4, AddLPSKeepsMirror, OthersKeepAccounts DEF AddLPS, history
<1>5. CASE ObjectStep
    BY <1>2, <1>3, <1>4, <1>5, AddUAVKeepsAccounts DEF ObjectStep
<1>6. ASSUME NEW c \in Clients, NEW p \in Paths, NEW force \in BOOLEAN,
             Unsubscribe(c, {p}, force)
      PROVE  IInv'
    <2>1. {p} \in SUBSET Paths
        OBVIOUS
    <2> QED BY <1>6, <2>1, UnsubscribeKeepsAccounts
<1>7. ASSUME NEW c \in Clients, NEW p \in Paths, NEW force \in BOOLEAN,
             UnsubscribeSubtree(c, p, force)
      PROVE  IInv'
    <2> DEFINE ps == {q \in Paths : IsPrefix(p, q) /\ Resolves(tree, q) /\ subscribers[c][q] > 0}
    <2>1. ps \in SUBSET Paths /\ Unsubscribe(c, ps, force)
        BY <1>7 DEF UnsubscribeSubtree
    <2> HIDE DEF ps
    <2> QED BY <2>1, UnsubscribeKeepsAccounts
<1>8. CASE ClientStep
    BY <1>6, <1>7, <1>8, SubscribeKeepsAccounts, UnsubscribePendingKeepsAccounts,
       ClientRemovedKeepsAccounts DEF ClientStep
<1>9. ASSUME NEW i \in Ids, UpdateChannel(i) PROVE IInv'
    <2>1. UNCHANGED <<objects, tree, clients, subscribers, pending, wanted, doubtful>>
        BY <1>9 DEF UpdateChannel, registries, history
    <2> QED BY <1>1, <2>1, OthersKeepAccounts DEF MirrorInv, TreeMirrorsRegistry
<1>10. CASE UNCHANGED vars
    <2>1. UNCHANGED <<objects, tree, clients, subscribers, pending, wanted, doubtful>>
        BY <1>10 DEF vars
    <2> QED BY <1>1, <2>1, OthersKeepAccounts DEF MirrorInv, TreeMirrorsRegistry
<1> QED BY <1>5, <1>8, <1>9, <1>10 DEF Next

\* A client that is not doubtful is subscribed to every path exactly as often as the
\* answers to its requests say, at whatever moment the path comes into being or goes,
\* and nothing remembers a client that is gone (the handlers of DEV-SUB and DEV-UNSUB of
\* model/devices.py and _on_device_tree_structure_changed()).
THEOREM SubscriptionsAreTrue == Spec => []SubscribedAsAsked
<1>1. IInv => SubscribedAsAsked
    BY DEF IInv
<1> QED BY <1>1, SubscriptionsInit, NextKeepsAccounts, PTL DEF Spec

\* The nodes from the root to the channel of an object are the paths that a tree
\* with that object alone resolves.
LEMMA VisitedNodes ==
    ASSUME NEW i \in Ids
    PROVE  Visited(i) = {p \in Paths : Resolves({i}, p)}
<1>1. \A p \in Paths : IsPrefix(p, ChannelPath(i)) <=> Resolves({i}, p)
    <2> SUFFICES ASSUME NEW p \in Paths
                 PROVE  IsPrefix(p, ChannelPath(i)) <=> Resolves({i}, p)
        OBVIOUS
    <2>1. CASE p = Root
        BY <2>1 DEF Root, IsPrefix, ChannelPath, Resolves
    <2>2. ASSUME NEW j \in Ids, p = ObjectPath(j)
          PROVE  IsPrefix(p, ChannelPath(i)) <=> Resolves({i}, p)
        BY <2>2 DEF ObjectPath, IsPrefix, ChannelPath, Resolves, NodesOf, PathsOf, Root
    <2>3. ASSUME NEW j \in Ids, p = ChannelPath(j)
          PROVE  IsPrefix(p, ChannelPath(i)) <=> Resolves({i}, p)
        BY <2>3 DEF ObjectPath, IsPrefix, ChannelPath, Resolves, NodesOf, PathsOf, Root
    <2> QED BY <2>1, <2>2, <2>3 DEF Paths, NodesOf, PathsOf
<1> QED BY <1>1 DEF Visited

\* Of the clients that are not doubtful, a change of a channel reaches exactly the
\* connected ones that hold a subscription to it or above it, with the nodes they
\* asked for
\* (_on_channel_nodes_updated() of model/devices.py).
THEOREM ToldAsTheyAsked == Spec => ToldAsAsked
<1>1. ASSUME IInv, NEW i \in Ids, UpdateChannel(i)
      PROVE  ChannelTold(i)
    <2> SUFFICES ASSUME NEW c \in Clients \ doubtful
                 PROVE  informed'[c] =
                          {p \in Paths : c \in clients /\ wanted[c][p] > 0 /\ Resolves({i}, p)}
        BY DEF ChannelTold
    <2>1. informed'[c] = {p \in Visited(i) : subscribers[c][p] > 0}
        BY <1>1 DEF UpdateChannel
    <2>2. i \in tree
        BY <1>1 DEF UpdateChannel, IInv, MirrorInv, TreeMirrorsRegistry
    <2>3. /\ pending[c] \in Seq(Paths)
          /\ \A n \in DOMAIN pending[c] : pending[c][n] = pending[c][1] /\ ~Resolves(tree, pending[c][n])
          /\ \A p \in Paths : /\ subscribers[c][p] + Occurrences(pending[c], p) = wanted[c][p]
                              /\ subscribers[c][p] \in Nat
          /\ c \notin clients => wanted[c] = NoPaths
        BY <1>1 DEF IInv, Tables, OnePendingPath, SubscribedAsAsked, NothingLeftBehind
    <2>4. pending[c] # <<>> => 1 \in DOMAIN pending[c]
        BY <2>3, EmptySeq, LenProperties
    <2>5. ASSUME NEW p \in Paths, Resolves({i}, p)
          PROVE  subscribers[c][p] = wanted[c][p]
        <3>1. Resolves(tree, p)
            BY <2>2, <2>5 DEF Resolves, NodesOf
        <3>2. Occurrences(pending[c], p) = 0
            BY <2>3, <2>4, <3>1, OccurrencesOfOnePath
        <3> QED BY <2>3, <3>2
    <2>6. \A p \in Paths : c \notin clients => wanted[c][p] = 0
        BY <2>3 DEF NoPaths
    <2>7. informed'[c] = {p \in Paths : Resolves({i}, p) /\ wanted[c][p] > 0}
        BY <2>1, <2>5, VisitedNodes
    <2> QED BY <2>6, <2>7
<1>2. IInv => [\A i \in Ids : UpdateChannel(i) => ChannelTold(i)]_vars
    BY <1>1
<1> QED BY <1>2, SubscriptionsInit, NextKeepsAccounts, PTL DEF Spec, ToldAsAsked

-----------------------------------------------------------------------------
(* Types and bounds.                                                       *)

\* There are as many subscriptions to a path as the table says, of the whole set.
LEMMA UnitsAreCounted ==
    ASSUME NEW f \in [Paths -> Nat], IsFiniteSet(Units(f)), NEW p \in Paths,
           f[p] <= MaxSubscriptions
    PROVE  f[p] <= Cardinality(Units(f))
<1> DEFINE S == 1 .. f[p]
           g == [n \in S |-> <<p, n>>]
<1>1. f[p] \in Nat /\ MaxSubscriptions \in Nat
    BY MaxSubscriptionsAssumption
<1>2. g \in Injection(S, Units(f))
    BY <1>1 DEF Injection, IsInjective, Units
<1>3. IsFiniteSet(S) /\ Cardinality(S) = f[p]
    BY <1>1, FS_Interval
<1> HIDE DEF g
<1>4. Cardinality(S) <= Cardinality(Units(f))
    BY <1>2, FS_Injection
<1> QED BY <1>3, <1>4

LEMMA FewerUnits ==
    ASSUME NEW f \in [Paths -> Nat], IsFiniteSet(Units(f)), NEW g \in [Paths -> Nat],
           \A p \in Paths : g[p] <= f[p]
    PROVE  IsFiniteSet(Units(g)) /\ Cardinality(Units(g)) <= Cardinality(Units(f))
<1>1. Units(g) \subseteq Units(f)
    <2> SUFFICES ASSUME NEW u \in Units(g) PROVE u \in Units(f)
        OBVIOUS
    <2>1. /\ u \in Paths \X (1 .. MaxSubscriptions) /\ u[2] <= g[u[1]]
          /\ u[1] \in Paths /\ u[2] \in Nat
        BY MaxSubscriptionsAssumption DEF Units
    <2>2. g[u[1]] <= f[u[1]] /\ g[u[1]] \in Nat /\ f[u[1]] \in Nat
        BY <2>1
    <2>3. u[2] <= f[u[1]]
        BY <2>1, <2>2
    <2> QED BY <2>1, <2>3 DEF Units
<1> QED BY <1>1, FS_Subset

LEMMA OneUnitMore ==
    ASSUME NEW f \in [Paths -> Nat], IsFiniteSet(Units(f)), NEW p \in Paths
    PROVE  /\ IsFiniteSet(Units([f EXCEPT ![p] = @ + 1]))
           /\ Cardinality(Units([f EXCEPT ![p] = @ + 1])) <= Cardinality(Units(f)) + 1
<1> DEFINE g == [f EXCEPT ![p] = @ + 1]
           u == <<p, f[p] + 1>>
<1>1. Units(g) \subseteq Units(f) \cup {u}
    <2> SUFFICES ASSUME NEW v \in Units(g) PROVE v \in Units(f) \cup {u}
        OBVIOUS
    <2>1. PICK q \in Paths, n \in 1 .. MaxSubscriptions : v = <<q, n>> /\ n <= g[q]
        BY DEF Units
    <2>2. n \in Nat /\ f[q] \in Nat /\ g[q] = IF q = p THEN f[q] + 1 ELSE f[q]
        BY <2>1, MaxSubscriptionsAssumption
    <2>3. n <= f[q] \/ (q = p /\ n = f[p] + 1)
        BY <2>1, <2>2
    <2> QED BY <2>1, <2>3 DEF Units
<1> HIDE DEF g
<1>2. /\ IsFiniteSet(Units(f) \cup {u})
      /\ Cardinality(Units(f) \cup {u}) \in {Cardinality(Units(f)), Cardinality(Units(f)) + 1}
    BY FS_AddElement
<1>3. Cardinality(Units(f)) \in Nat
    BY FS_CardinalityType
<1>4. IsFiniteSet(Units(g)) /\ Cardinality(Units(g)) <= Cardinality(Units(f) \cup {u})
    BY <1>1, <1>2, FS_Subset
<1>5. Cardinality(Units(g)) \in Nat
    BY <1>4, FS_CardinalityType
<1>6. Cardinality(Units(g)) <= Cardinality(Units(f)) + 1
    BY <1>2, <1>3, <1>4, <1>5
<1> QED BY <1>4, <1>6 DEF g

\* Positions in a sequence become subscriptions to the paths there, of which
\* there are no more than there were positions.
LEMMA MovedUnits ==
    ASSUME NEW f \in [Paths -> Nat], IsFiniteSet(Units(f)), NEW s \in Seq(Paths),
           NEW F \in SUBSET DOMAIN s, NEW g \in [Paths -> Nat],
           \A p \in Paths : g[p] <= f[p] + Cardinality({n \in F : s[n] = p})
    PROVE  /\ IsFiniteSet(Units(g))
           /\ Cardinality(Units(g)) <= Cardinality(Units(f)) + Cardinality(F)
<1> DEFINE N(p) == {n \in F : s[n] = p}
           H(p) == CHOOSE h : h \in Bijection(1 .. Cardinality(N(p)), N(p))
           A == {u \in Units(g) : u[2] > f[u[1]]}
           j == [u \in A |-> H(u[1])[u[2] - f[u[1]]]]
<1>1. IsFiniteSet(F)
    <2> DEFINE k == Len(s)
    <2>1. DOMAIN s = 1 .. k /\ 1 \in Int /\ k \in Int
        BY LenProperties
    <2> HIDE DEF k
    <2>2. IsFiniteSet(1 .. k)
        BY <2>1, FS_Interval
    <2> QED BY <2>1, <2>2, FS_Subset
<1>2. \A p \in Paths : /\ Cardinality(N(p)) \in Nat
                       /\ H(p) \in Bijection(1 .. Cardinality(N(p)), N(p))
    <2> SUFFICES ASSUME NEW p \in Paths
                 PROVE  /\ Cardinality(N(p)) \in Nat
                        /\ H(p) \in Bijection(1 .. Cardinality(N(p)), N(p))
        OBVIOUS
    <2>1. IsFiniteSet(N(p))
        BY <1>1, FS_Subset
    <2> HIDE DEF N
    <2>2. Cardinality(N(p)) \in Nat /\ ExistsBijection(1 .. Cardinality(N(p)), N(p))
        BY <2>1, FS_CardinalityType
    <2>3. \E h : h \in Bijection(1 .. Cardinality(N(p)), N(p))
        BY <2>2 DEF ExistsBijection
    <2> QED BY <2>2, <2>3
<1>3. ASSUME NEW u \in A
      PROVE  /\ u[1] \in Paths /\ u[2] \in Nat /\ u = <<u[1], u[2]>>
             /\ u[2] - f[u[1]] \in 1 .. Cardinality(N(u[1]))
             /\ j[u] \in N(u[1])
    <2>1. /\ u \in Paths \X (1 .. MaxSubscriptions) /\ u[2] <= g[u[1]] /\ u[2] > f[u[1]]
          /\ u[1] \in Paths /\ u[2] \in Nat /\ u = <<u[1], u[2]>>
        BY MaxSubscriptionsAssumption DEF Units
    <2>2. g[u[1]] <= f[u[1]] + Cardinality(N(u[1])) /\ g[u[1]] \in Nat /\ f[u[1]] \in Nat
        BY <2>1
    <2>3. Cardinality(N(u[1])) \in Nat /\ H(u[1]) \in Bijection(1 .. Cardinality(N(u[1])), N(u[1]))
        BY <1>2, <2>1
    <2>4. j[u] = H(u[1])[u[2] - f[u[1]]]
        OBVIOUS
    <2> HIDE DEF N, H, j
    <2>5. u[2] - f[u[1]] \in 1 .. Cardinality(N(u[1]))
        BY <2>1, <2>2, <2>3
    <2> QED BY <2>1, <2>3, <2>4, <2>5 DEF Bijection, Injection
<1>4. j \in Injection(A, F)
    <2>1. j \in [A -> F]
        <3> SUFFICES ASSUME NEW u \in A PROVE j[u] \in F
            OBVIOUS
        <3>1. j[u] \in N(u[1])
            BY <1>3
        <3> QED BY <3>1
    <2>2. ASSUME NEW u \in A, NEW v \in A, j[u] = j[v]
          PROVE  u = v
        <3>1. u[1] = v[1]
            <4> HIDE DEF j
            <4>1. s[j[u]] = u[1] /\ s[j[v]] = v[1]
                BY <1>3
            <4> QED BY <2>2, <4>1
        <3>2. H(u[1])[u[2] - f[u[1]]] = H(u[1])[v[2] - f[u[1]]]
            BY <2>2, <3>1
        <3>3. /\ H(u[1]) \in Bijection(1 .. Cardinality(N(u[1])), N(u[1]))
              /\ u[2] - f[u[1]] \in 1 .. Cardinality(N(u[1]))
              /\ v[2] - f[u[1]] \in 1 .. Cardinality(N(u[1]))
            BY <1>2, <1>3, <3>1
        <3> HIDE DEF N, H, j
        <3>4. u[2] - f[u[1]] = v[2] - f[u[1]]
            BY <3>2, <3>3 DEF Bijection, Injection, IsInjective
        <3>5. u[2] \in Nat /\ v[2] \in Nat /\ f[u[1]] \in Nat
            BY <1>3
        <3>6. u[2] = v[2]
            BY <3>4, <3>5
        <3>7. u = <<u[1], u[2]>> /\ v = <<v[1], v[2]>>
            BY <1>3
        <3> QED BY <3>1, <3>6, <3>7
    <2> HIDE DEF j
    <2> QED BY <2>1, <2>2 DEF Injection, IsInjective
<1> HIDE DEF j, H, N
<1>5. IsFiniteSet(A) /\ Cardinality(A) <= Cardinality(F)
    BY <1>1, <1>4, FS_Injection
<1>6. Units(g) \subseteq Units(f) \cup A
    <2> SUFFICES ASSUME NEW u \in Units(g), u \notin A PROVE u \in Units(f)
        OBVIOUS
    <2>1. u \in Paths \X (1 .. MaxSubscriptions) /\ u[1] \in Paths /\ u[2] \in Nat
        BY MaxSubscriptionsAssumption DEF Units
    <2>2. f[u[1]] \in Nat /\ ~(u[2] > f[u[1]])
        BY <2>1
    <2> QED BY <2>1, <2>2 DEF Units
<1> HIDE DEF A
<1>7. /\ IsFiniteSet(Units(f) \cup A)
      /\ Cardinality(Units(f) \cup A) = Cardinality(Units(f)) + Cardinality(A) - Cardinality(Units(f) \cap A)
    BY <1>5, FS_Union
<1>8. IsFiniteSet(Units(f) \cap A)
    BY <1>5, FS_Subset
<1>9. IsFiniteSet(Units(g)) /\ Cardinality(Units(g)) <= Cardinality(Units(f) \cup A)
    BY <1>6, <1>7, FS_Subset
<1>10. {Cardinality(Units(f)), Cardinality(A), Cardinality(F), Cardinality(Units(f) \cap A),
        Cardinality(Units(g)), Cardinality(Units(f) \cup A)} \subseteq Nat
    BY <1>1, <1>5, <1>7, <1>8, <1>9, FS_CardinalityType
<1> QED BY <1>5, <1>7, <1>9, <1>10

WithinBounds(c) ==
    /\ IsFiniteSet(Units(subscribers[c]))
    /\ Held(c) <= MaxSubscriptions
    /\ \A p \in Paths : subscribers[c][p] <= MaxSubscriptions

Listed == {i \in Ids : objects[i] # "none"}

Registries ==
    /\ IsFiniteSet(Listed) /\ Cardinality(Listed) <= SizeLimit
    /\ uavs \subseteq Ids /\ proxy \subseteq Ids
    /\ informed \in [Clients -> SUBSET Paths]

\* No account is kept of a doubtful client.
NoAccounts == \A c \in doubtful : wanted[c] = NoPaths

TypeInv == IInv /\ Registries /\ NoAccounts /\ \A c \in Clients : WithinBounds(c)

LEMMA HeldType ==
    ASSUME NEW c \in Clients, Tables, IsFiniteSet(Units(subscribers[c]))
    PROVE  /\ Len(pending[c]) \in Nat /\ Cardinality(Units(subscribers[c])) \in Nat
           /\ Held(c) = Len(pending[c]) + Cardinality(Units(subscribers[c]))
BY LenProperties, FS_CardinalityType DEF Tables, Held

LEMMA TypeInvImpliesTypeOK == TypeInv => TypeOK
<1> SUFFICES ASSUME TypeInv PROVE TypeOK
    OBVIOUS
<1>1. Tables /\ MirrorInv /\ tree \subseteq Ids /\ SubscribedAsAsked
    BY DEF TypeInv, IInv
<1>2. MaxSubscriptions \in Nat
    BY MaxSubscriptionsAssumption
<1>3. ASSUME NEW c \in Clients
      PROVE  /\ Len(pending[c]) \in 0 .. MaxSubscriptions
             /\ \A p \in Paths : subscribers[c][p] \in 0 .. MaxSubscriptions
             /\ \A p \in Paths : wanted[c][p] \in 0 .. MaxSubscriptions
    <2>1. /\ subscribers[c] \in [Paths -> Nat] /\ wanted[c] \in [Paths -> Nat]
          /\ pending[c] \in Seq(Paths)
        BY <1>1 DEF Tables
    <2>2. /\ IsFiniteSet(Units(subscribers[c])) /\ Held(c) <= MaxSubscriptions
          /\ \A p \in Paths : subscribers[c][p] <= MaxSubscriptions
        BY DEF TypeInv, WithinBounds
    <2>3. /\ Len(pending[c]) \in Nat /\ Cardinality(Units(subscribers[c])) \in Nat
          /\ Held(c) = Len(pending[c]) + Cardinality(Units(subscribers[c]))
        BY <1>1, <2>2, HeldType
    <2>4. ASSUME NEW p \in Paths
          PROVE  wanted[c][p] \in 0 .. MaxSubscriptions
        <3>1. CASE c \in doubtful
            BY <1>2, <3>1 DEF TypeInv, NoAccounts, NoPaths
        <3>2. CASE c \notin doubtful
            <4>1. subscribers[c][p] + Occurrences(pending[c], p) = wanted[c][p]
                BY <1>1, <3>2 DEF SubscribedAsAsked
            <4>2. subscribers[c][p] <= Cardinality(Units(subscribers[c]))
                BY <2>1, <2>2, UnitsAreCounted
            <4>3. Occurrences(pending[c], p) \in 0 .. Len(pending[c])
                BY <2>1, OccurrencesType DEF Occurrences
            <4>4. subscribers[c][p] \in Nat /\ wanted[c][p] \in Nat
                BY <2>1
            <4> QED BY <1>2, <2>2, <2>3, <4>1, <4>2, <4>3, <4>4
        <3> QED BY <3>1, <3>2
    <2> QED BY <1>2, <2>1, <2>2, <2>3, <2>4
<1>4. subscribers \in [Clients -> [Paths -> 0 .. MaxSubscriptions]]
    BY <1>1, <1>3 DEF Tables
<1>5. wanted \in [Clients -> [Paths -> 0 .. MaxSubscriptions]]
    BY <1>1, <1>3 DEF Tables
<1>6. \A c \in Clients : pending[c] \in BoundedSeq(Paths, MaxSubscriptions)
    <2> SUFFICES ASSUME NEW c \in Clients
                 PROVE  pending[c] \in BoundedSeq(Paths, MaxSubscriptions)
        OBVIOUS
    <2>1. pending[c] \in [1 .. Len(pending[c]) -> Paths]
        BY <1>1, LenProperties, ElementOfSeq DEF Tables
    <2> QED BY <1>3, <2>1 DEF BoundedSeq, SeqOf
<1> QED BY <1>1, <1>4, <1>5, <1>6 DEF TypeInv, Registries, Listed, MirrorInv, Tables, TypeOK

\* Who holds less stays within the bounds.
LEMMA LessIsWithinBounds ==
    ASSUME NEW c \in Clients, Tables, Tables', WithinBounds(c),
           \A p \in Paths : subscribers'[c][p] <= subscribers[c][p],
           Len(pending'[c]) <= Len(pending[c])
    PROVE  WithinBounds(c)'
<1>1. subscribers[c] \in [Paths -> Nat] /\ subscribers'[c] \in [Paths -> Nat]
    BY DEF Tables
<1>2. /\ IsFiniteSet(Units(subscribers'[c]))
      /\ Cardinality(Units(subscribers'[c])) <= Cardinality(Units(subscribers[c]))
    BY <1>1, FewerUnits DEF WithinBounds
<1>3. /\ Len(pending[c]) \in Nat /\ Len(pending'[c]) \in Nat
      /\ Cardinality(Units(subscribers[c])) \in Nat /\ Cardinality(Units(subscribers'[c])) \in Nat
    BY <1>2, LenProperties, FS_CardinalityType DEF Tables, WithinBounds
<1>4. Held(c)' <= MaxSubscriptions
    BY <1>2, <1>3, MaxSubscriptionsAssumption DEF WithinBounds, Held
<1>5. \A p \in Paths : subscribers'[c][p] <= MaxSubscriptions
    <2> SUFFICES ASSUME NEW p \in Paths PROVE subscribers'[c][p] <= MaxSubscriptions
        OBVIOUS
    <2>1. /\ subscribers[c][p] \in Nat /\ subscribers'[c][p] \in Nat
          /\ subscribers[c][p] <= MaxSubscriptions
        BY <1>1 DEF WithinBounds
    <2> QED BY <2>1, MaxSubscriptionsAssumption
<1> QED BY <1>2, <1>4, <1>5 DEF WithinBounds

\* The paths that come into being move from the pending ones to the nodes.
LEMMA StructureStaysWithinBounds ==
    ASSUME NEW c \in Clients, Tables, Tables', WithinBounds(c),
           NEW t, NEW old, StructureChanged(t, old)
    PROVE  WithinBounds(c)'
<1> DEFINE F == Found(c, t)
           N(p) == {n \in F : pending[c][n] = p}
<1>1. /\ subscribers[c] \in [Paths -> Nat] /\ subscribers'[c] \in [Paths -> Nat]
      /\ pending[c] \in Seq(Paths) /\ MaxSubscriptions \in Nat
    BY MaxSubscriptionsAssumption DEF Tables
<1>2. F \in SUBSET DOMAIN pending[c]
    BY DEF Found
<1>3. /\ \A p \in Paths : subscribers'[c][p] = IF p \in NodesOf(old) THEN 0
                                               ELSE subscribers[c][p] + Cardinality(N(p))
      /\ pending'[c] = SubSeq(pending[c], Cardinality(F) + 1, Len(pending[c]))
    BY DEF StructureChanged, Without
<1> HIDE DEF F
<1>4. Cardinality(F) \in 0 .. Len(pending[c]) /\ Len(pending[c]) \in Nat
    BY <1>1, <1>2, OccurrencesType, LenProperties
<1>5. \A p \in Paths : Cardinality(N(p)) \in 0 .. Len(pending[c])
    <2> SUFFICES ASSUME NEW p \in Paths PROVE Cardinality(N(p)) \in 0 .. Len(pending[c])
        OBVIOUS
    <2>1. N(p) \in SUBSET DOMAIN pending[c]
        BY <1>2
    <2> HIDE DEF N
    <2> QED BY <1>1, <2>1, OccurrencesType
<1>6. \A p \in Paths : subscribers'[c][p] <= subscribers[c][p] + Cardinality(N(p))
    <2> SUFFICES ASSUME NEW p \in Paths
                 PROVE  subscribers'[c][p] <= subscribers[c][p] + Cardinality(N(p))
        OBVIOUS
    <2>1. subscribers[c][p] \in Nat /\ Cardinality(N(p)) \in Nat
        BY <1>1, <1>4, <1>5
    <2> HIDE DEF N
    <2> QED BY <1>3, <2>1
<1>7. /\ IsFiniteSet(Units(subscribers'[c]))
      /\ Cardinality(Units(subscribers'[c])) <= Cardinality(Units(subscribers[c])) + Cardinality(F)
    BY <1>1, <1>2, <1>6, MovedUnits DEF WithinBounds
<1>8. Len(pending'[c]) = Len(pending[c]) - Cardinality(F)
    <2> DEFINE k == Cardinality(F)
               m == Len(pending[c])
    <2>1. k \in 0 .. m /\ m \in Nat
        BY <1>4
    <2> HIDE DEF k
    <2>2. \A n \in k + 1 .. m : pending[c][n] \in Paths
        BY <1>1, <2>1, ElementOfSeq
    <2>3. Len(SubSeq(pending[c], k + 1, m)) = IF k + 1 <= m THEN m - (k + 1) + 1 ELSE 0
        BY <2>1, <2>2, SubSeqProperties
    <2>4. k + 1 \in Nat /\ (k + 1 <= m \/ k = m)
        BY <2>1
    <2>5. Len(SubSeq(pending[c], k + 1, m)) = m - k
        BY <2>1, <2>3, <2>4
    <2> QED BY <1>3, <2>5 DEF k
<1>9. /\ Cardinality(Units(subscribers[c])) \in Nat /\ Cardinality(Units(subscribers'[c])) \in Nat
      /\ Cardinality(F) \in Nat
    BY <1>4, <1>7, FS_CardinalityType DEF WithinBounds
<1>10. Held(c)' <= MaxSubscriptions
    <2>1. Len(pending[c]) + Cardinality(Units(subscribers[c])) <= MaxSubscriptions
        BY DEF WithinBounds, Held
    <2>2. Len(pending'[c]) + Cardinality(Units(subscribers'[c])) <= MaxSubscriptions
        BY <1>1, <1>4, <1>7, <1>8, <1>9, <2>1
    <2> QED BY <2>2 DEF Held
<1>11. \A p \in Paths : subscribers'[c][p] <= MaxSubscriptions
    <2> SUFFICES ASSUME NEW p \in Paths PROVE subscribers'[c][p] <= MaxSubscriptions
        OBVIOUS
    <2>1. subscribers[c][p] <= Cardinality(Units(subscribers[c]))
        BY <1>1, UnitsAreCounted DEF WithinBounds
    <2>2. Len(pending[c]) + Cardinality(Units(subscribers[c])) <= MaxSubscriptions
        BY DEF WithinBounds, Held
    <2>3. subscribers[c][p] \in Nat /\ subscribers'[c][p] \in Nat /\ Cardinality(N(p)) \in 0 .. Len(pending[c])
        BY <1>1, <1>5
    <2>4. subscribers'[c][p] <= subscribers[c][p] + Cardinality(N(p))
        BY <1>6
    <2> HIDE DEF N
    <2> QED BY <1>1, <1>4, <1>9, <2>1, <2>2, <2>3, <2>4
<1> QED BY <1>7, <1>10, <1>11 DEF WithinBounds

LEMMA InitHasTypes == Init => TypeInv
<1> SUFFICES ASSUME Init PROVE TypeInv
    OBVIOUS
<1>1. IInv
    BY SubscriptionsInit
<1>2. Registries
    <2>1. Listed = {}
        BY DEF Init, Listed
    <2> QED BY <2>1, FS_EmptySet, SizeLimitAssumption DEF Init, Registries, Silence
<1>3. ASSUME NEW c \in Clients
      PROVE  WithinBounds(c)
    <2>1. subscribers[c] = NoPaths /\ pending[c] = <<>>
        BY DEF Init
    <2>2. Units(NoPaths) = {}
        <3> SUFFICES ASSUME NEW u \in Units(NoPaths) PROVE FALSE
            OBVIOUS
        <3>1. PICK p \in Paths, n \in 1 .. MaxSubscriptions : u = <<p, n>> /\ n <= NoPaths[p]
            BY DEF Units
        <3> QED BY <3>1, MaxSubscriptionsAssumption DEF NoPaths
    <2>3. Len(pending[c]) = 0 /\ Cardinality(Units(NoPaths)) = 0 /\ IsFiniteSet(Units(NoPaths))
        BY <2>1, <2>2, FS_EmptySet
    <2> QED BY <2>1, <2>3, MaxSubscriptionsAssumption DEF WithinBounds, Held, NoPaths
<1> QED BY <1>1, <1>2, <1>3 DEF TypeInv, NoAccounts, Init

\* What is registered, and what the last step told.
LEMMA RemovalKeepsRegistries ==
    ASSUME TypeInv, NEW i \in Ids, RemoveObject(i), uavs' \subseteq Ids, proxy' \subseteq Ids,
           informed' = Silence
    PROVE  Registries'
<1>1. Listed' \subseteq Listed
    BY DEF RemoveObject, Listed, TypeInv, IInv, MirrorInv
<1>2. IsFiniteSet(Listed) /\ Cardinality(Listed) <= SizeLimit
    BY DEF TypeInv, Registries
<1>3. IsFiniteSet(Listed') /\ Cardinality(Listed') <= Cardinality(Listed)
    BY <1>1, <1>2, FS_Subset
<1>4. Cardinality(Listed') <= SizeLimit
    BY <1>2, <1>3, FS_CardinalityType, SizeLimitAssumption
<1> QED BY <1>3, <1>4 DEF Registries, Silence

LEMMA AdditionKeepsRegistries ==
    ASSUME TypeInv, NEW i \in Ids, NEW kind,
           objects' = IF HasFreeSlot THEN [objects EXCEPT ![i] = kind] ELSE objects,
           uavs' \subseteq Ids, proxy' \subseteq Ids, informed' = Silence
    PROVE  Registries'
<1>1. IsFiniteSet(Listed) /\ Cardinality(Listed) <= SizeLimit /\ Cardinality(Listed) \in Nat
    BY FS_CardinalityType DEF TypeInv, Registries
<1>2. CASE ~HasFreeSlot
    <2>1. Listed' = Listed
        BY <1>2 DEF Listed
    <2> QED BY <1>1, <2>1 DEF Registries, Silence
<1>3. CASE HasFreeSlot
    <2>1. Listed' \subseteq Listed \cup {i}
        BY <1>3 DEF Listed, TypeInv, IInv, MirrorInv
    <2>2. /\ IsFiniteSet(Listed \cup {i})
          /\ Cardinality(Listed \cup {i}) \in {Cardinality(Listed), Cardinality(Listed) + 1}
        BY <1>1, FS_AddElement
    <2>3. Cardinality(Listed) < SizeLimit
        BY <1>3 DEF HasFreeSlot, Listed
    <2>4. IsFiniteSet(Listed') /\ Cardinality(Listed') <= Cardinality(Listed \cup {i})
        BY <2>1, <2>2, FS_Subset
    <2>5. Cardinality(Listed') \in Nat
        BY <2>4, FS_CardinalityType
    <2>6. Cardinality(Listed') <= SizeLimit
        BY <1>1, <2>2, <2>3, <2>4, <2>5, SizeLimitAssumption
    <2> QED BY <2>4, <2>6 DEF Registries, Silence
<1> QED BY <1>2, <1>3

LEMMA RequestKeepsRegistries ==
    ASSUME Registries, UNCHANGED registries, informed' \in [Clients -> SUBSET Paths]
    PROVE  Registries'
BY DEF Registries, registries, Listed

\* Objects come and go.
LEMMA RemovalKeepsTypes ==
    ASSUME TypeInv, IInv', NEW i \in Ids, RemoveObject(i), uavs' \subseteq Ids, proxy' \subseteq Ids,
           informed' = Silence, UNCHANGED <<clients, doubtful>>
    PROVE  TypeInv'
<1>1. Registries'
    BY RemovalKeepsRegistries
<1>2. NoAccounts'
    BY DEF TypeInv, IInv, Tables, NoAccounts, RemoveObject, NoPaths
<1>3. ASSUME NEW c \in Clients
      PROVE  WithinBounds(c)'
    <2>1. Tables /\ Tables' /\ WithinBounds(c)
        BY DEF TypeInv, IInv
    <2>2. CASE i \in tree
        BY <2>1, <2>2, StructureStaysWithinBounds DEF RemoveObject
    <2>3. CASE i \notin tree
        <3>1. UNCHANGED <<subscribers, pending>>
            BY <2>3 DEF RemoveObject
        <3> QED BY <2>1, <3>1 DEF WithinBounds, Held
    <2> QED BY <2>2, <2>3
<1> QED BY <1>1, <1>2, <1>3 DEF TypeInv

LEMMA AddUAVKeepsTypes ==
    ASSUME TypeInv, IInv', NEW i \in Ids, AddUAV(i)
    PROVE  TypeInv'
<1>1. Registries'
    <2>1. objects' = IF HasFreeSlot THEN [objects EXCEPT ![i] = "uav"] ELSE objects
        BY DEF AddUAV
    <2>2. uavs' \subseteq Ids /\ proxy' \subseteq Ids /\ informed' = Silence
        BY DEF AddUAV, TypeInv, Registries
    <2> QED BY <2>1, <2>2, AdditionKeepsRegistries
<1>2. NoAccounts'
    BY DEF TypeInv, NoAccounts, AddUAV, history
<1>3. ASSUME NEW c \in Clients
      PROVE  WithinBounds(c)'
    <2>1. Tables /\ Tables' /\ WithinBounds(c)
        BY DEF TypeInv, IInv
    <2>2. CASE HasFreeSlot
        BY <2>1, <2>2, StructureStaysWithinBounds DEF AddUAV
    <2>3. CASE ~HasFreeSlot
        <3>1. UNCHANGED <<subscribers, pending>>
            BY <2>3 DEF AddUAV
        <3> QED BY <2>1, <3>1 DEF WithinBounds, Held
    <2> QED BY <2>2, <2>3
<1> QED BY <1>1, <1>2, <1>3 DEF TypeInv

LEMMA AddLPSKeepsTypes ==
    ASSUME TypeInv, IInv', NEW i \in Ids, AddLPS(i)
    PROVE  TypeInv'
<1>1. Registries'
    <2>1. objects' = IF HasFreeSlot THEN [objects EXCEPT ![i] = "lps"] ELSE objects
        BY DEF AddLPS, TypeInv, IInv, MirrorInv
    <2>2. uavs' \subseteq Ids /\ proxy' \subseteq Ids /\ informed' = Silence
        BY DEF AddLPS, TypeInv, Registries
    <2> QED BY <2>1, <2>2, AdditionKeepsRegistries
<1> QED BY <1>1 DEF TypeInv, NoAccounts, AddLPS, history, WithinBounds, Held

\* A request of a client changes what that client holds.
LEMMA OthersStayWithinBounds ==
    ASSUME NEW c \in Clients, WithinBounds(c),
           subscribers'[c] = subscribers[c], pending'[c] = pending[c]
    PROVE  WithinBounds(c)'
BY DEF WithinBounds, Held

LEMMA HoldsKeepsNoAccounts ==
    ASSUME Tables, NoAccounts, NEW c \in Clients, NEW w, Holds(c, w), doubtful' \subseteq doubtful \cup {c}
    PROVE  NoAccounts'
BY DEF Tables, NoAccounts, Holds

LEMMA SubscribeKeepsTypes ==
    ASSUME TypeInv, IInv', NEW c \in Clients, NEW p \in Paths, Subscribe(c, p)
    PROVE  TypeInv'
<1>1. /\ Tables /\ Tables' /\ WithinBounds(c) /\ MaxSubscriptions \in Nat
      /\ subscribers[c] \in [Paths -> Nat] /\ pending[c] \in Seq(Paths)
    BY MaxSubscriptionsAssumption DEF TypeInv, IInv, Tables
<1>2. /\ Len(pending[c]) \in Nat /\ Cardinality(Units(subscribers[c])) \in Nat
      /\ Held(c) = Len(pending[c]) + Cardinality(Units(subscribers[c]))
    BY <1>1, HeldType DEF WithinBounds
<1>3. Len(pending[c]) + Cardinality(Units(subscribers[c])) < MaxSubscriptions
    BY <1>2 DEF Subscribe
<1>4. Registries'
    BY RequestKeepsRegistries DEF TypeInv, Subscribe, Silence
<1>5. NoAccounts'
    <2>1. doubtful' \subseteq doubtful \cup {c}
        BY DEF Subscribe, SubscribeTo, SubscribeLazily, Names
    <2> QED BY <1>1, <2>1, HoldsKeepsNoAccounts DEF TypeInv, Subscribe
<1>6. CASE SubscribeTo(c, p)
    <2> DEFINE f == [subscribers[c] EXCEPT ![p] = @ + 1]
    <2>1. /\ subscribers'[c] = f /\ UNCHANGED pending
          /\ \A d \in Clients \ {c} : subscribers'[d] = subscribers[d]
        BY <1>1, <1>6 DEF SubscribeTo, Tables
    <2>2. /\ IsFiniteSet(Units(f))
          /\ Cardinality(Units(f)) <= Cardinality(Units(subscribers[c])) + 1
        BY <1>1, OneUnitMore DEF WithinBounds
    <2>3. Cardinality(Units(f)) \in Nat
        BY <2>2, FS_CardinalityType
    <2>4. \A q \in Paths : f[q] <= MaxSubscriptions
        <3> SUFFICES ASSUME NEW q \in Paths PROVE f[q] <= MaxSubscriptions
            OBVIOUS
        <3>1. subscribers[c][q] <= Cardinality(Units(subscribers[c])) /\ subscribers[c][q] \in Nat
            BY <1>1, UnitsAreCounted DEF WithinBounds
        <3>2. f[q] \in {subscribers[c][q], subscribers[c][q] + 1}
            BY <1>1
        <3> HIDE DEF f
        <3> QED BY <1>1, <1>2, <1>3, <3>1, <3>2
    <2> HIDE DEF f
    <2>5. Held(c)' <= MaxSubscriptions
        <3>1. Held(c)' = Len(pending[c]) + Cardinality(Units(f))
            BY <2>1 DEF Held
        <3> QED BY <1>1, <1>2, <1>3, <2>2, <2>3, <3>1
    <2>6. WithinBounds(c)'
        BY <2>1, <2>2, <2>4, <2>5 DEF WithinBounds
    <2>7. \A d \in Clients \ {c} : WithinBounds(d)'
        BY <2>1, OthersStayWithinBounds DEF TypeInv
    <2> QED BY <1>4, <1>5, <2>6, <2>7 DEF TypeInv
<1>7. CASE SubscribeLazily(c, p)
    <2>1. /\ pending'[c] = Append(pending[c], p) /\ UNCHANGED subscribers
          /\ \A d \in Clients \ {c} : pending'[d] = pending[d]
        BY <1>1, <1>7 DEF SubscribeLazily, Tables
    <2>2. Len(pending'[c]) = Len(pending[c]) + 1
        BY <1>1, <2>1, AppendProperties
    <2>3. Held(c)' <= MaxSubscriptions
        <3>1. Held(c)' = Len(pending[c]) + 1 + Cardinality(Units(subscribers[c]))
            BY <2>1, <2>2 DEF Held
        <3> QED BY <1>1, <1>2, <1>3, <3>1
    <2>4. WithinBounds(c)'
        BY <1>1, <2>1, <2>3 DEF WithinBounds
    <2>5. \A d \in Clients \ {c} : WithinBounds(d)'
        BY <2>1, OthersStayWithinBounds DEF TypeInv
    <2> QED BY <1>4, <1>5, <2>4, <2>5 DEF TypeInv
<1> QED BY <1>6, <1>7 DEF Subscribe

\* The other requests take subscriptions away.
LEMMA FewerSubscriptionsKeepTypes ==
    ASSUME TypeInv, IInv', NEW c \in Clients, UNCHANGED registries, informed' = Silence, NoAccounts',
           \A p \in Paths : subscribers'[c][p] <= subscribers[c][p],
           Len(pending'[c]) <= Len(pending[c]),
           \A d \in Clients \ {c} : subscribers'[d] = subscribers[d] /\ pending'[d] = pending[d]
    PROVE  TypeInv'
<1>1. Registries'
    BY RequestKeepsRegistries DEF TypeInv, Silence
<1>2. WithinBounds(c)'
    BY LessIsWithinBounds DEF TypeInv, IInv
<1>3. \A d \in Clients \ {c} : WithinBounds(d)'
    BY OthersStayWithinBounds DEF TypeInv
<1> QED BY <1>1, <1>2, <1>3 DEF TypeInv

LEMMA UnsubscribeKeepsTypes ==
    ASSUME TypeInv, IInv', NEW c \in Clients, NEW ps, NEW force \in BOOLEAN, Unsubscribe(c, ps, force)
    PROVE  TypeInv'
<1>1. Tables /\ NoAccounts
    BY DEF TypeInv, IInv
<1>2. NoAccounts'
    <2>1. PICK w : Holds(c, w) /\ UNCHANGED doubtful
        BY DEF Unsubscribe
    <2> QED BY <1>1, <2>1, HoldsKeepsNoAccounts
<1>3. /\ UNCHANGED pending /\ UNCHANGED registries /\ informed' = Silence
      /\ \A p \in Paths : subscribers'[c][p] = IF p \in ps THEN LeftOf(subscribers[c][p], force)
                                               ELSE subscribers[c][p]
      /\ \A d \in Clients \ {c} : subscribers'[d] = subscribers[d]
    BY <1>1 DEF Unsubscribe, Tables, registries
<1>4. \A p \in Paths : subscribers'[c][p] <= subscribers[c][p]
    <2> SUFFICES ASSUME NEW p \in Paths PROVE subscribers'[c][p] <= subscribers[c][p]
        OBVIOUS
    <2>1. subscribers[c][p] \in Nat
        BY <1>1 DEF Tables
    <2> QED BY <1>3, <2>1 DEF LeftOf
<1>5. Len(pending'[c]) <= Len(pending[c])
    <2>1. Len(pending[c]) \in Nat
        BY <1>1, LenProperties DEF Tables
    <2> QED BY <1>3, <2>1
<1> QED BY <1>2, <1>3, <1>4, <1>5, FewerSubscriptionsKeepTypes

LEMMA UnsubscribePendingKeepsTypes ==
    ASSUME TypeInv, IInv', NEW c \in Clients, NEW p \in Paths, NEW force \in BOOLEAN,
           UnsubscribePending(c, p, force)
    PROVE  TypeInv'
<1>1. /\ Tables /\ NoAccounts
      /\ pending[c] \in Seq(Paths) /\ pending[c] # <<>>
    BY DEF TypeInv, IInv, Tables, UnsubscribePending
<1>2. NoAccounts'
    <2>1. PICK w : Holds(c, w)
        BY DEF UnsubscribePending
    <2>2. doubtful' \subseteq doubtful \cup {c}
        BY DEF UnsubscribePending
    <2> QED BY <1>1, <2>1, <2>2, HoldsKeepsNoAccounts
<1>3. /\ UNCHANGED subscribers /\ UNCHANGED registries /\ informed' = Silence
      /\ pending'[c] = Tail(pending[c])
      /\ \A d \in Clients \ {c} : pending'[d] = pending[d]
    BY <1>1 DEF UnsubscribePending, RemovePath, Tables, registries
<1>4. Len(pending'[c]) <= Len(pending[c])
    <2>1. Len(pending[c]) \in Nat \ {0} /\ Len(Tail(pending[c])) = Len(pending[c]) - 1
        BY <1>1, HeadTailProperties, EmptySeq, LenProperties
    <2> QED BY <1>3, <2>1
<1>5. \A q \in Paths : subscribers'[c][q] <= subscribers[c][q]
    <2> SUFFICES ASSUME NEW q \in Paths PROVE subscribers'[c][q] <= subscribers[c][q]
        OBVIOUS
    <2>1. subscribers[c][q] \in Nat
        BY <1>1 DEF Tables
    <2> QED BY <1>3, <2>1
<1> QED BY <1>2, <1>3, <1>4, <1>5, FewerSubscriptionsKeepTypes

LEMMA ClientRemovedKeepsTypes ==
    ASSUME TypeInv, IInv', NEW c \in Clients, ClientRemoved(c)
    PROVE  TypeInv'
<1>1. Tables /\ NoAccounts
    BY DEF TypeInv, IInv
<1>2. NoAccounts'
    BY <1>1 DEF NoAccounts, ClientRemoved, Tables
<1>3. /\ UNCHANGED registries /\ informed' = Silence
      /\ pending'[c] = <<>>
      /\ \A p \in Paths : subscribers'[c][p] = IF Resolves(tree, p) THEN 0 ELSE subscribers[c][p]
      /\ \A d \in Clients \ {c} : pending'[d] = pending[d] /\ subscribers'[d] = subscribers[d]
    BY <1>1 DEF ClientRemoved, Tables
<1>4. Len(pending'[c]) <= Len(pending[c])
    <2>1. Len(pending[c]) \in Nat
        BY <1>1, LenProperties DEF Tables
    <2> QED BY <1>3, <2>1
<1>5. \A p \in Paths : subscribers'[c][p] <= subscribers[c][p]
    <2> SUFFICES ASSUME NEW p \in Paths PROVE subscribers'[c][p] <= subscribers[c][p]
        OBVIOUS
    <2>1. subscribers[c][p] \in Nat
        BY <1>1 DEF Tables
    <2> QED BY <1>3, <2>1
<1> QED BY <1>2, <1>3, <1>4, <1>5, FewerSubscriptionsKeepTypes

LEMMA NextHasTypes == TypeInv /\ [Next]_vars => TypeInv'
<1> SUFFICES ASSUME TypeInv, [Next]_vars PROVE TypeInv'
    OBVIOUS
<1>1. IInv'
    BY NextKeepsAccounts DEF TypeInv
<1>2. ASSUME NEW i \in Ids, RemoveUAV(i) PROVE TypeInv'
    <2>1. uavs' \subseteq Ids /\ proxy' \subseteq Ids /\ UNCHANGED <<clients, doubtful>>
        BY <1>2 DEF RemoveUAV, TypeInv, Registries
    <2> QED BY <1>1, <1>2, <2>1, RemovalKeepsTypes DEF RemoveUAV
<1>3. ASSUME NEW i \in Ids, RemoveLPS(i) PROVE TypeInv'
    <2>1. uavs' \subseteq Ids /\ proxy' \subseteq Ids /\ UNCHANGED <<clients, doubtful>>
        BY <1>3 DEF RemoveLPS, TypeInv, Registries
    <2> QED BY <1>1, <1>3, <2>1, RemovalKeepsTypes DEF RemoveLPS
<1>4. CASE ObjectStep
    BY <1>1, <1>2, <1>3, <1>4, AddUAVKeepsTypes, AddLPSKeepsTypes DEF ObjectStep
<1>5. ASSUME NEW c \in Clients, NEW p \in Paths, NEW force \in BOOLEAN,
             UnsubscribeSubtree(c, p, force)
      PROVE  TypeInv'
    BY <1>1, <1>5, UnsubscribeKeepsTypes DEF UnsubscribeSubtree
<1>6. CASE ClientStep
    BY <1>1, <1>5, <1>6, SubscribeKeepsTypes, UnsubscribeKeepsTypes, UnsubscribePendingKeepsTypes,
       ClientRemovedKeepsTypes DEF ClientStep
<1>7. ASSUME NEW i \in Ids, UpdateChannel(i) PROVE TypeInv'
    <2>1. /\ UNCHANGED <<registries, clients, subscribers, pending, history>>
          /\ informed' \in [Clients -> SUBSET Paths]
        BY <1>7 DEF UpdateChannel, Visited
    <2>2. Registries'
        BY <2>1, RequestKeepsRegistries DEF TypeInv
    <2>3. \A c \in Clients : WithinBounds(c)'
        BY <2>1, OthersStayWithinBounds DEF TypeInv
    <2> QED BY <1>1, <2>1, <2>2, <2>3 DEF TypeInv, NoAccounts, history
<1>8. CASE UNCHANGED vars
    <2>1. /\ UNCHANGED <<registries, clients, subscribers, pending, history>>
          /\ informed' \in [Clients -> SUBSET Paths]
        BY <1>8 DEF vars, registries, history, TypeInv, Registries
    <2>2. Registries'
        BY <2>1, RequestKeepsRegistries DEF TypeInv
    <2>3. \A c \in Clients : WithinBounds(c)'
        BY <2>1, OthersStayWithinBounds DEF TypeInv
    <2> QED BY <1>1, <2>1, <2>2, <2>3 DEF TypeInv, NoAccounts, history
<1> QED BY <1>4, <1>6, <1>7, <1>8 DEF Next

\* Every variable keeps its type; the registry never holds more objects than the
\* licence allows (_ensure_has_free_slot_for_object() of registries/objects.py),
\* and moving subscriptions between pending paths and nodes makes none up.
THEOREM TypeCorrect == Spec => []TypeOK
BY InitHasTypes, NextHasTypes, TypeInvImpliesTypeOK, PTL DEF Spec
================================================================================
