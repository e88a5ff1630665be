--------------------------- MODULE DeviceSubscriptions ---------------------------
(***************************************************************************)
(* The object registry, the registries that are proxied to it, the device  *)
(* tree that mirrors it, and the subscriptions of clients to the nodes of  *)
(* that tree: registries/objects.py, model/devices.py and the handlers of  *)
(* DEV-SUB and DEV-UNSUB in app.py.                                        *)
(*                                                                         *)
(* Every handler here is synchronous: a request, a signal and what its     *)
(* receivers do are one action.  Requests of one client that name several  *)
(* paths are sequences of requests with one path each.  What a client was  *)
(* told (wanted), and whether it made a request about missing paths that   *)
(* the code does not carry out as it answers (doubtful: two missing paths  *)
(* that are mixed up, or removeAll of a path that is pending more than     *)
(* once), are history variables.                                           *)
(***************************************************************************)
EXTENDS Naturals, FiniteSets, SequencesExt

CONSTANTS
    Clients,            \* the clients, connected when the model starts
    Ids,                \* identifiers that objects may have
    SizeLimit,          \* licensed size of the object registry
    MaxSubscriptions    \* bound on the subscriptions of one client

ASSUME SizeLimitAssumption == SizeLimit \in Nat
ASSUME MaxSubscriptionsAssumption == MaxSubscriptions \in Nat \ {0}

VARIABLES
    objects,        \* what is registered under an id: a UAV, an LPS, nothing
    uavs,           \* ids of the UAVs that a driver keeps
    proxy,          \* ids in the registry of the local positioning systems
    tree,           \* ids of the object nodes below the root of the tree
    clients,        \* the clients in the client registry
    subscribers,    \* the _subscribers of the attached nodes
    pending,        \* _pending_subscriptions
    informed,       \* paths in the DEV-INF that the last step sent
    wanted,         \* subscriptions that a client holds by the answers it got
    doubtful        \* clients that named two missing paths, or removed all of several pending ones

vars == <<objects, uavs, proxy, tree, clients, subscribers, pending,
          informed, wanted, doubtful>>
registries == <<objects, uavs, proxy, tree>>
history == <<wanted, doubtful>>

-----------------------------------------------------------------------------
(* Paths: the root, one node per object, one channel below it. *)

Root == <<>>
ObjectPath(i) == <<i>>
ChannelPath(i) == <<i, "channel">>
PathsOf(i) == {ObjectPath(i), ChannelPath(i)}
NodesOf(ids) == UNION {PathsOf(i) : i \in ids}
Paths == {Root} \cup NodesOf(Ids)

\* DeviceTree.resolve() in a tree with the object nodes t.
Resolves(t, p) == p \in {Root} \cup NodesOf(t)

NoPaths == [p \in Paths |-> 0]
Silence == [c \in Clients |-> {}]

TypeOK ==
    /\ objects \in [Ids -> {"none", "uav", "lps"}]
    /\ Cardinality({i \in Ids : objects[i] # "none"}) <= SizeLimit
    /\ uavs \subseteq Ids /\ proxy \subseteq Ids /\ tree \subseteq Ids
    /\ clients \subseteq Clients
    /\ subscribers \in [Clients -> [Paths -> 0 .. MaxSubscriptions]]
    /\ \A c \in Clients : pending[c] \in BoundedSeq(Paths, MaxSubscriptions)
    /\ informed \in [Clients -> SUBSET Paths]
    /\ wanted \in [Clients -> [Paths -> 0 .. MaxSubscriptions]]
    /\ doubtful \subseteq Clients

Init ==
    /\ objects = [i \in Ids |-> "none"]
    /\ uavs = {} /\ proxy = {} /\ tree = {}
    /\ clients = Clients
    /\ subscribers = [c \in Clients |-> NoPaths]
    /\ pending = [c \in Clients |-> <<>>]
    /\ informed = Silence
    /\ wanted = [c \in Clients |-> NoPaths]
    /\ doubtful = {}

-----------------------------------------------------------------------------
(* The device tree and its subscribers follow the object registry. *)

\* Positions of the pending paths of client c that a tree with the object nodes t
\* resolves.
Found(c, t) == {n \in DOMAIN pending[c] : Resolves(t, pending[c][n])}

Occurrences(s, p) == Cardinality({n \in DOMAIN s : s[n] = p})

\* paths.remove(path): all DeviceTreePath objects are equal to each other, as
\* that dataclass declares no field, so the first path is the one that goes.
RemovePath(s, p) == Tail(s)

\* The pending paths that are left when n of them were found and removed.
Without(s, n) == SubSeq(s, n + 1, Len(s))

\* _on_device_tree_structure_changed() with the object nodes t; the nodes of
\* the ids in old were detached, with the subscribers they had.
StructureChanged(t, old) ==
    /\ tree' = t
    /\ subscribers' = [c \in Clients |-> [p \in Paths |->
           IF p \in NodesOf(old) THEN 0
           ELSE subscribers[c][p] + Cardinality({n \in Found(c, t) : pending[c][n] = p})]]
    /\ pending' = [c \in Clients |-> Without(pending[c], Cardinality(Found(c, t)))]

\* Broken: the device tree misses that an object is removed.
RemoveObjectOnly(i) ==
    /\ objects' = [objects EXCEPT ![i] = "none"]
    /\ UNCHANGED <<tree, subscribers, pending, wanted>>

\* ObjectRegistry.remove_by_id().  The proxy and the drivers remove by id,
\* whatever object is registered under it now.
RemoveObject(i) ==
    /\ objects' = [objects EXCEPT ![i] = "none"]
    /\ IF i \in tree THEN StructureChanged(tree \ {i}, {i})
                      ELSE UNCHANGED <<tree, subscribers, pending>>
    /\ wanted' = [c \in Clients |-> [p \in Paths |->
           IF p \in NodesOf({i} \cap tree) THEN 0 ELSE wanted[c][p]]]

\* Broken: the registry takes one object more than the licence allows.
HasFreeSlotOrOneMore == Cardinality({i \in Ids : objects[i] # "none"}) <= SizeLimit

\* _ensure_has_free_slot_for_object()
HasFreeSlot == Cardinality({i \in Ids : objects[i] # "none"}) < SizeLimit

\* _register_uav() and ObjectRegistry.add().  A driver keeps the UAV even when
\* the registry is full, and then the UAV has no place in the device tree.
AddUAV(i) ==
    /\ i \notin uavs
    /\ objects[i] = "none"
    /\ uavs' = uavs \cup {i}
    /\ IF HasFreeSlot
       THEN /\ objects' = [objects EXCEPT ![i] = "uav"]
            /\ StructureChanged(tree \cup {i}, {})
       ELSE UNCHANGED <<objects, tree, subscribers, pending>>
    /\ informed' = Silence
    /\ UNCHANGED <<proxy, clients, history>>

\* The driver drops a UAV: ObjectRegistry.remove().
RemoveUAV(i) ==
    /\ i \in uavs
    /\ uavs' = uavs \ {i}
    /\ RemoveObject(i)
    /\ informed' = Silence
    /\ UNCHANGED <<proxy, clients, doubtful>>

\* LocalPositioningSystemRegistry.create() with ObjectRegistryProxy._add():
\* the entry of the proxy stays when the object registry refuses the object.
AddLPS(i) ==
    /\ objects[i] = "none"
    /\ proxy' = proxy \cup {i}
    /\ objects' = [objects EXCEPT ![i] = IF HasFreeSlot THEN "lps" ELSE @]
    /\ informed' = Silence
    /\ UNCHANGED <<uavs, tree, clients, subscribers, pending, history>>

\* ObjectRegistryProxy.remove_by_id(), which use_object_registry() calls for every
\* entry when the extension stops.
RemoveLPS(i) ==
    /\ i \in proxy
    /\ proxy' = proxy \ {i}
    /\ RemoveObject(i)
    /\ informed' = Silence
    /\ UNCHANGED <<uavs, clients, doubtful>>

-----------------------------------------------------------------------------
(* Requests of clients. *)

\* Client c holds the subscriptions w by the answers it got; of a doubtful
\* client no account is kept.
Holds(c, w) ==
    wanted' = [wanted EXCEPT ![c] = IF c \in doubtful' THEN NoPaths ELSE w]

\* The subscriptions of a client, pending ones and those to nodes.
Units(table) == {u \in Paths \X (1 .. MaxSubscriptions) : u[2] <= table[u[1]]}
Held(c) == Len(pending[c]) + Cardinality(Units(subscribers[c]))

\* Client c names the missing path p: from then on the code may mix it up
\* with another missing path of the same client.
Names(c, p) ==
    doubtful' = IF \E n \in DOMAIN pending[c] : pending[c][n] # p
                THEN doubtful \cup {c} ELSE doubtful

\* DeviceTreeNodeBase._subscribe()
SubscribeTo(c, p) ==
    /\ Resolves(tree, p)
    /\ subscribers' = [subscribers EXCEPT ![c][p] = @ + 1]
    /\ UNCHANGED <<pending, doubtful>>

SubscribeLazily(c, p) ==
    /\ ~Resolves(tree, p)
    /\ pending' = [pending EXCEPT ![c] = Append(@, p)]
    /\ Names(c, p)
    /\ UNCHANGED subscribers

\* create_DEV_SUB_message_for(); a request that is refused changes nothing.
Subscribe(c, p) ==
    /\ c \in clients
    /\ Held(c) < MaxSubscriptions
    /\ SubscribeTo(c, p) \/ SubscribeLazily(c, p)
    /\ Holds(c, [wanted[c] EXCEPT ![p] = @ + 1])
    /\ informed' = Silence
    /\ UNCHANGED <<registries, clients>>

\* Broken: removeAll takes one subscription.
LeftOfOne(n, force) == IF n = 0 THEN 0 ELSE n - 1

\* DeviceTreeNodeBase._unsubscribe(): what is left of n subscriptions.
LeftOf(n, force) == IF force \/ n = 0 THEN 0 ELSE n - 1

\* create_DEV_UNSUB_message_for() for paths that exist.
Unsubscribe(c, ps, force) ==
    /\ c \in clients
    /\ \A p \in ps : Resolves(tree, p)
    /\ subscribers' = [subscribers EXCEPT ![c] =
           [p \in Paths |-> IF p \in ps THEN LeftOf(@[p], force) ELSE @[p]]]
    /\ UNCHANGED doubtful
    /\ Holds(c, [p \in Paths |->
           IF p \notin ps \/ wanted[c][p] = 0 THEN wanted[c][p]
           ELSE IF force THEN 0 ELSE wanted[c][p] - 1])
    /\ informed' = Silence
    /\ UNCHANGED <<registries, clients, pending>>

\* includeSubtrees: list_subscriptions() finds the paths below p.
UnsubscribeSubtree(c, p, force) ==
    Unsubscribe(c, {q \in Paths : /\ IsPrefix(p, q)
                                  /\ Resolves(tree, q)
                                  /\ subscribers[c][q] > 0}, force)

\* remove() may take another pending path of the client instead of p.
MayTakeAnother(c, p) == Occurrences(pending[c], p) # Len(pending[c])

\* unsubscribe() does not look at force when a path is pending: removeAll takes
\* one of several subscriptions, and the others come alive with the object.
\* The documentation has it that the client is unsubscribed "no matter how many
\* times" it subscribed (model/devices.py:1208, app.py:357).
TakesOneOfAll(c, force) == force /\ Len(pending[c]) > 1

\* A path that does not exist: one pending path is removed, if there is any,
\* and the client is told that it is unsubscribed, from all if it asked so.
UnsubscribePending(c, p, force) ==
    /\ c \in clients
    /\ ~Resolves(tree, p)
    /\ pending[c] # <<>>
    /\ pending' = [pending EXCEPT ![c] = RemovePath(@, p)]
    /\ doubtful' = IF MayTakeAnother(c, p) \/ TakesOneOfAll(c, force)
                   THEN doubtful \cup {c} ELSE doubtful
    /\ Holds(c, [wanted[c] EXCEPT ![p] = IF force \/ @ = 0 THEN 0 ELSE @ - 1])
    /\ informed' = Silence
    /\ UNCHANGED <<registries, clients, subscribers>>

\* ClientRegistry.remove() and _on_client_removed()
ClientRemoved(c) ==
    /\ c \in clients
    /\ clients' = clients \ {c}
    /\ subscribers' = [subscribers EXCEPT ![c] =
           [p \in Paths |-> IF Resolves(tree, p) THEN 0 ELSE @[p]]]
    /\ pending' = [pending EXCEPT ![c] = <<>>]
    /\ wanted' = [wanted EXCEPT ![c] = NoPaths]
    /\ doubtful' = doubtful \ {c}
    /\ informed' = Silence
    /\ UNCHANGED registries

\* Broken: the node itself is not visited.
VisitedAbove(i) == {p \in Paths : IsStrictPrefix(p, ChannelPath(i))}

\* iterparents(include_self=True) of the channel of object i
Visited(i) == {p \in Paths : IsPrefix(p, ChannelPath(i))}

\* A driver changes the channel of a registered UAV in a mutator session:
\* DeviceTreeMutator.__exit__() and _on_channel_nodes_updated().
UpdateChannel(i) ==
    /\ objects[i] = "uav"
    /\ informed' = [c \in Clients |-> {p \in Visited(i) : subscribers[c][p] > 0}]
    /\ UNCHANGED <<registries, clients, subscribers, pending, history>>

ObjectStep ==
    \E i \in Ids : AddUAV(i) \/ RemoveUAV(i) \/ AddLPS(i) \/ RemoveLPS(i)

ClientStep ==
    \E c \in Clients :
        \/ ClientRemoved(c)
        \/ \E p \in Paths : Subscribe(c, p)
        \/ \E p \in Paths, force \in BOOLEAN :
               \/ Resolves(tree, p) /\ subscribers[c][p] > 0
                                    /\ Unsubscribe(c, {p}, force)
               \/ Resolves(tree, p) /\ UnsubscribeSubtree(c, p, force)
               \/ UnsubscribePending(c, p, force)

Next == ObjectStep \/ ClientStep \/ \E i \in Ids : UpdateChannel(i)

Spec == Init /\ [][Next]_vars

-----------------------------------------------------------------------------
(* Properties. *)

\* The tree shows the UAVs of the registry and nothing else, whoever removes
\* an object: a driver, a proxy that owns it, or a proxy whose own object of
\* the same id was refused (registries/objects.py, _on_object_removed()).
TreeMirrorsRegistry == tree = {i \in Ids : objects[i] = "uav"}

\* A client that is not doubtful is subscribed to every path exactly as often
\* as the answers it got say, however its requests, the objects and the moment
\* at which a lazy path comes into being interleave.  Nothing remembers a client
\* that is gone, so that no object that is added later can subscribe it again.
\* Doubtful clients are left out because the code fails them in two ways: it
\* mixes two missing paths up (see PendingPathsDoNotExist), and it takes back one
\* subscription only when a client removes all those to a missing path, although
\* the answer says that it is unsubscribed (TakesOneOfAll).
SubscribedAsAsked ==
    \A c \in Clients \ doubtful, p \in Paths :
        subscribers[c][p] + Occurrences(pending[c], p) = wanted[c][p]

\* For a client that is not doubtful: the nodes from the root to the channel of
\* object i that it has asked for, and the last step told it of exactly those.
ChannelTold(i) ==
    \A c \in Clients \ doubtful : informed'[c] =
        {p \in Paths : c \in clients /\ wanted[c][p] > 0 /\ Resolves({i}, p)}

\* A change of a channel reaches a client that is not doubtful, once, if and only
\* if the client is connected and holds a subscription, by the answers it got,
\* to the channel or to a node above it; the message has the value of exactly
\* those nodes.  Doubtful clients are left out: the code may tell them of a
\* missing path that they named in vain, or go on telling them of a path that
\* they removed all subscriptions to (see SubscribedAsAsked).
ToldAsAsked == [][\A i \in Ids : UpdateChannel(i) => ChannelTold(i)]_vars

\* The docstring of _pending_subscriptions: "device tree paths that they want
\* to subscribe to but the paths do not exist yet" (model/devices.py).
PendingPathsDoNotExist ==
    \A c \in Clients : \A n \in DOMAIN pending[c] : ~Resolves(tree, pending[c][n])
=============================================================================
