# A verification project for Skybrush Server

Skybrush Server connects ground control stations with drones. It is one Python
program on top of [trio](https://trio.readthedocs.io): a core (message hub,
command execution manager, registries) and some forty extensions (transports, drone
drivers, shows, missions, RTK, clocks). This directory holds TLA+ modules for
parts of it, the TLC configurations that check them, and TLAPS proofs.

Contents: [1 the inventory](#1-inventory), [2 how trio is modelled](#2-trio),
[3 the modules](#3-modules), [4 the runs](#4-runs), [5 the proofs](#5-proofs),
[6 what was found](#6-findings), [7 what is left out](#7-not-modelled),
[8 the plan](#8-plan).

Paths are relative to `src/flockwave/server/` unless they start with `test/`.

## 1 Inventory

Trio runs one task at a time, so nothing here is about threads; what makes the
program hard is the order in which tasks get their turn, queues that drop what
does not fit, timeouts that race with answers, and state that is read before
an `await` and used after it.

| Component | State | Operations | Interacts with |
|---|---|---|---|
| Command execution (`commands.py`, `model/commands.py`, handlers in `app.py`) | `_entries` with one status object per receipt (timestamps, deadline, cancel scope, suspension future), queue of the executor (2048) | issue a receipt, mark as notified, execute, report progress, suspend, resume, cancel, clean up each second | drivers (awaitables), hub (receipts go out in responses, `when_sent()` calls back), clients (`ASYNC-ST`, `-RESP`, `-TIMEOUT`, `-CANCEL`, `-RESUME`) |
| Message hub (`message_hub.py`) | outbound queue (4096), handlers, middleware, cached broadcast methods | handle an incoming message, enqueue, send, broadcast | channels, client registry, handlers of every extension |
| Rate limiters (`message_hub.py`) | pending requests, last stable state per connection, batches | add a request, collect, suppress, dispatch | connection registry, UAV drivers, hub |
| HTTP bridge (`ext/http.py`) | a dummy client and its channel, the message id and the queue it waits for | submit a message, authenticate, wait for the response and its commands | hub, client registry, commands |
| Client registry (`registries/clients.py`, `registries/base.py`) | clients by id | add, remove, `use()` | channels, subscriptions, hub |
| Connections (`registries/connections.py`, `ext/virtual_connections.py`) | connection entries and their supervising tasks | add, remove, reconnect | drivers, CONN-INF limiter |
| Missions (`ext/missions/`) | missions with state, parameters, start time, authorization; one job per mission; queue of notifications (16) | create, parametrize, authorize, revoke, schedule, start, cancel, run | scheduler library, hub |
| Object registries (`registries/objects.py`, `ext/lps`, `ext/missions/registry.py`) | objects by id, size limit, a proxy registry for each kind | add, remove, enumerate | device tree, drivers |
| Show control (`ext/show/`, `tasks/alarm.py`, `model/clock.py`) | start conditions, show clock, starter and countdown tasks, takeoff schedule of the drones | configure, authorize, follow a timecode, count down, start | clocks, UAV drivers, LED lights |
| Device tree (`model/devices.py`) | tree of nodes, one subscription count per node and client | subscribe, unsubscribe, mutate, notify | object registry, clients |
| Progress reporter and waiting tasks (`tasks/`) | current progress, suspension, wake-up events | `notify()`, `suspend()`, `updates()` | long commands of drivers |
| MAVLink driver (`ext/mavlink/`) | UAVs of a network, heartbeats, packet routing, parameters of the start | send and await packets, retransmit, configure | radio links, RTK, takeoff manager |
| MAVLink transfers (`ext/mavlink/ftp.py`, `log_download.py`, `utils.py`) | sequence numbers, sessions, chunks and gaps | upload, download, list, repeat requests | network, drones |
| RTK (`ext/rtk/`, `ext/mavlink/rtk.py`) | presets, survey settings, RTCM fragments | select a preset, survey, encode | serial ports, NTRIP, MAVLink |
| Time synchronisation (`ext/timesync/`) | backends with their offsets, votes | measure, select | clocks |
| Virtual UAVs (`ext/virtual_uavs/`) | state machine of a simulated drone | take off, land, fly a show, errors | commands, shows |
| Other drivers and adapters (Crazyflie, motion capture, weather, RC, beacon, ...) | a device each | translate | drivers and hub |

The behaviours that are hard to get right, and where they bite, are listed as
`hazards` in `PROJECT.json`. What makes each of the core components correct:

* **Commands.** A client that asked for a command gets its receipt before
  anything else about it, hears of one outcome at most, hears nothing after
  it cancelled the command, and no entry is kept for ever. What was cancelled
  or timed out really stops.
* **Hub.** A message is delivered or dropped, never duplicated; whatever waits
  for a message to be sent learns of it only if it was.
* **HTTP bridge.** Every HTTP request gets its own response, with the outcome of every
  command in it; requests that share a client do not disturb each other; nothing
  is left behind.
* **Missions.** A mission starts once, when and only if its last change says
  so; a cancelled mission ends; what clients were shown is what the mission
  is like, unless an update was lost and reported as lost.
* **Rate limiters.** The last state that a client was sent is the last state
  there was, once things have settled.
* **Drones.** In the end a drone does what the show wants, whatever the radio link loses; a
  file or a log that was transferred is the one that was asked for, and every
  transfer ends.
* **Connections, objects, devices.** Counts and caches agree with the
  registries they mirror when clients and objects come and go in any order.
* **Shows.** An authorized show starts when its clock shows zero, not before, not
  when it was revoked or its clock stopped; drones that were told when to start
  learn of every change in time.

## 2 Trio

All models use the same reading of trio's semantics:

* An action is the code that one task runs between two checkpoints. Synchronous
  calls (handlers of signals, `send_nowait()`, `reschedule()`) belong to the
  action that makes them, so the guard of an action is what holds when the
  task resumes, not when it went to sleep.
* A cancelled scope takes effect only at a checkpoint. A task that was
  woken for another reason is not interrupted any more, which is why
  `CommandExecution` tells `"woken"` from `"running"`: between the two, the
  cleanup may remove its entry and a user may cancel it, and the code up to the next
  checkpoint still runs.
* Trio expires deadlines before it runs the next batch of tasks, so a
  task cannot be woken with a deadline that has passed without its scope being
  cancelled (`Wake`).
* Tasks of one batch run in any order (trio shuffles them), so every
  interleaving of runnable tasks is possible.
* Time is only what the code can tell: for commands, whether a deadline lies ahead, has
  passed or is lifted; for missions, a small number of instants.

## 3 Modules

| Module | What it is |
|---|---|
| `AsyncOperation` | what a client is promised about one command: issued, learnt, one verdict |
| `CommandExecution` | the command machinery in detail, shown to implement `AsyncOperation` |
| `HTTPBridge` | the HTTP extension, on top of `AsyncOperation` |
| `Missions` | the missions extension |
| `ShowStart` | the show clock, its alarms, the countdown and the start of a show |
| `ConnectionStatus` | changes of connections, the CONN-INF limiter, the hub that broadcasts, and what clients see |
| `ScheduledTakeoff` | the takeoff manager of a MAVLink network and its drones |
| `DeviceSubscriptions` | object registries, the device tree, and the subscriptions of clients |
| `LogDownload` | lists and downloads of flight logs over a lossy link |
| `FileTransfer` | MAVFTP transfers of several tasks to one drone over a lossy link |
| `MAVLinkProofs` | the safety of `LogDownload` and of `FileTransfer`, for all constants |
| `...Proofs` | the safety of the module of that name, for all constants; `CommandExecutionProofs` also shows that it implements `AsyncOperation` |
| `MC...` | symmetry, bounds and constants for TLC |

`CommandExecution` implements `AsyncOperation`, on which `HTTPBridge` is built. `ConnectionStatus`
composes the limiter with the client registry and the broadcasts of the hub; `ScheduledTakeoff`
composes the manager with the show that `ShowStart` models on its own; `DeviceSubscriptions`
composes the registries with the tree and its clients. The other modules stand alone, since
what they model shares no state.

### CommandExecution

The way of a command, and the actions that model it:

1. A handler asks the drivers for the result of a command; for each UAV
   whose driver returns an awaitable, `dispatch_to_uavs()` creates a status
   object and puts its receipt in the response (`NewReceipts`). It awaits
   between drivers, so the receipts of one response come in groups and may expire while
   the request is handled.
2. The hub enqueues the response or finds its queue full (`RespondToRequest`),
   takes messages out of the queue (`HubTake`) and sends each in a task
   of its own (`SendResponse`, `LoseResponse`). The queue is a set: those tasks
   make the order of the queue unobservable.
3. The `when_sent()` callback of a response marks its receipts as
   notified one after the other and hands the awaitables to the executor, waiting when the
   executor is behind (`MarkAsClientsNotified`, `ExecutorReceive`).
4. A task for the command enters the cancel scope and awaits or iterates
   (`StartTask`, `Park`, `Wake`, `Report`, `Suspend`, `Return`, the `Cancelled...`
   actions). `_finish()` decides what is announced (`Finish`).
5. Meanwhile clients cancel and resume (`Cancel`, `Resume`), deadlines
   pass, trio cancels scopes (`ScopeExpires`) and the cleanup drops entries
   (`Cleanup`).

`known` and `verdicts` are history variables. Notifications are dropped by
full queues as responses are; their fate after the queue changes nothing in the
server, so they are forgotten when the hub takes them.

Simplifications: a receipt is never reissued (the code draws random ids and
checks for collisions); `aclose()` of an async generator is part of the step
that finishes the command; results that are neither awaitable nor generators
never come from `app.py` and are left out.

`AsyncOperation` has the two facts a client can see, `known` and `verdict`.
The refinement mapping (`PromisedVerdict`) reads the verdict off the history of
announcements and the status of the command.

### HTTPBridge

`index()` is the process of each request (`Begin`, `Authenticate`, `Handle`,
`Refuse`, `Receive`, `HangUp`). The client is registered under
`http://<host>`, so requests that overlap share one client and its channel
(`client`, `channelOf`), and the channel waits for one message id at a time
(`awaited`, `queue`). A send to the zero-capacity queue waits for the
reader (`stuck`) and breaks when the reader closes it (`SendBreaks`). The
commands are those of `AsyncOperation`, instantiated on `known` and `verdict`:
its actions, and nothing else, give the notifications that arrive. Responses and notifications
go through `enqueue_message()`, which drops them when the outbound queue of the hub is full
(`Enqueue`); other clients may fill it at any moment, so any of them may be dropped. `dropped`
remembers whose response or result it was. The response to an unhandled message is awaited and not dropped
(`Refuse`).

Whether a request brings its own message id (`ClientIds`), comes with credentials
(`WithCredentials`) and is of a type that `dispatch_to_uav()` handles
(`SingleUAV`) are constants. The checks before a client is registered
(content type, body, authorization scheme) change nothing and are left out.

### Missions

The handlers of the `X-MSN-` requests run without a checkpoint and through
synchronous signals, so each is one action, which includes
`_update_mission_in_scheduler()` (`UpdatedJob`) and the notifications it
sends (`NotifyUpdated`). The scheduler is `flockwave.concurrency.Scheduler`, outside
this repository, and modelled from its use: it starts a job once its time has
come, refuses a job that is late unless told otherwise, and a job that is
cancelled does not start or gets `Cancelled` at its next checkpoint. `RunMission`
is `Mission.run()` up to the first checkpoint in `_run()`; the code of a mission
type is a choice: return, fail, run for ever.

A mission is shown by its state, parameters and start time; those in `outdated` have changed
since a notification last showed them. The instants are few,
but `start_now()` always counts as a change, since real clocks advance.

### ShowStart

Time advances by half seconds, the shortest period the countdown tells apart
(`seconds > -0.5`). `now` is the half second in progress and what
happens in it happens in any order: requests (`Configure`), the timecode
(`TimecodeChanges`), timers (`TimerExpires`) and the steps of the tasks. `Tick` waits
until no task can run, which says that the event loop is never half a second late.

`_on_config_updated()` is one action: it synchronizes the clock, whose signal
wakes the alarms (`Signalled`), cancels the old tasks (`Cancelled`: those that were woken
by an event run up to their next await, `doomed`; the others end) and creates new
ones (`RenewedTasks`). `CancellableTaskGroup` is outside this repository; it is taken to cancel
every task it started. A task is a record with its place in `wait_until()`,
what it knows of the clock (`running`, which it refreshes less often than it
reads the time), the events in its channel and its timer. `Rings` is the alarm
returning. `StartShow` is the starter, `Announce`, `CallOff` and `EndCountdown` are the
iterations of the countdown and its `finally` block. `told` is what the drones know, as
the Crazyflie extension sends it to them; other drones are
scheduled by the takeoff manager (`ScheduledTakeoff`). The timecode is external.

A configuration is authorized if `authorized_to_start` is set and the start method is
AUTO, since every use asks for both. `disturbed`, `armed` and `reconfigured`
are history variables.

### ConnectionStatus

`ChangeState` is the signal of a connection with all its receivers, down to `add_request()`,
which drops the request if the queue is full (`QueueFull`). The main loop of the limiter is
`Receive`, the tasks that wait to see whether a transition settles are `WaiterSettles` and
`WaiterTimesOut`, and the dispatcher is `Build` and `PutIntoOutbox`. The message is built from the
state of the moment (`Build`), not of the request. `StartBroadcast` is the hub taking a message out of its queue;
`BroadcastStep` is one send of `_broadcast_message()`. Clients come with new ids
and leave for good; their coming and going invalidates the cached methods
(`InvalidateBroadcastMethods`), not the list that a broadcast in progress iterates over.
Ages are counted in units of 0.1 s, up to the two limits the code compares them with.

`missed`, `ahead` and `overtaken` are history variables for what the code does lose:
a request dropped by the full queue; a message that told more than the requests before
it, after which the limiter takes an untold state for reported; a message that another one
overtook on its way to a client. `LeftOver` is an entry that a
silent settling left in the limiter. `LastReportIsTrue` and `ClientsLearn` show that nothing else goes wrong.

### ScheduledTakeoff

The main loop is `WaitForConfiguration`, `BeginRound` and `FinishRound`; the broadcast
between the two reaches any set of drones. The scan (`Scan`) puts drones whose last
status differs from what the show wants into a bounded queue; `SpawnUpdate`, `BeginUpdate`,
`RequestSucceeds` and `RequestTimesOut` are the update of one drone, which sets the seconds, the
milliseconds and the authorization by one request each, of which any may be lost or
lose its acknowledgment. `Cooldown` is the wait after an update. The requests of clients are
`ChangeConfiguration` and `ChangeStartTime`. The parameters of a drone (`drone`) and its status
packets (`ReceiveStatus`) are external.

Start times are in half seconds. The status stores the seconds that a drone reports as
milliseconds, so every drone with a start time is taken for outdated and is configured
again after each cooldown (`ReportedTime`): harmless, but for the traffic.

### DeviceSubscriptions

All handlers are synchronous, so a request or a signal with its receivers is one
action. A UAV is kept by its driver even if the registry refuses it (`AddUAV`); an LPS
stays in its proxy (`AddLPS`), and the proxy removes by id what may be another's object
by then (`RemoveLPS`). An object has one channel below it, for the tree of devices that is complete
before the object is registered.

`RemovePath` takes the first pending path whatever path was meant, since all
`DeviceTreePath` objects are equal (`MayTakeAnother`). `removeAll` of a missing path takes one of its
pending subscriptions only (`TakesOneOfAll`): `unsubscribe()` does not look at `force` there
(`model/devices.py:1228`), though the documentation says "no matter how many times" (`app.py:357`) and
the answer tells the client that it is unsubscribed. A client that met one of the two is `doubtful` until
it leaves: it named two missing paths at once, or removed all of several subscriptions to one. `SubscribedAsAsked` and
`ToldAsAsked` leave doubtful clients out, because the code fails them; `device_pending` shows the
first failure, and section 6 tells of the second.

### LogDownload and FileTransfer

In both, the drone and the link are external: a message may be lost or late, and the drone answers a
request whenever it comes. What the code keeps is modelled to the field.

`LogDownload` has the steps of `_send_and_wait()` and of the loops of a list and a
download, the `ChunkAssembler` with its gaps, the futures of the network and the bounded queue of
packets (`Queued`). Data are blocks of 90 bytes.

`FileTransfer` has one task for each upload and download, with its own sequence numbers
(`NextSeq`), on one set of sessions. A reply goes to every task that waits for its number
(`Takes`), `RepeatRequest` and `TimeOut` are the retry policy, and `Fail` is an exception
on its way out through `aclosing()`: it closes the session, and then the connection by
`RESET_SESSIONS`, which also closes the sessions of the others. `CancelTransfer` sends
nothing, since no await succeeds in a cancelled scope. `Answer` computes what history remembers:
`complete` uploads, and transfers that are `excused` because another one came between and nothing
was compared, or because they took a reply meant for another. `TransferIsTrue` speaks of the moment at which the
outcome of a transfer becomes known. Its names differ from those of `LogDownload`, so that
`MAVLinkProofs` can extend both.

## 4 Runs

| Run | Shows | Bounds | States |
|---|---|---|---|
| `command` | safety, refinement and liveness of commands | 2 receipts, 2 clients, outbound queue 2, executor queue 1, 1 report | 224 752 |
| `http_safety` | answers do not get mixed up or cut short | 2 requests, one with credentials, 2 receipts | 3 914 181 |
| `http_liveness` | a request that is served alone is answered | 2 requests, one with credentials, 1 receipt | 26 176 |
| `missions` | scheduler, missions and clients agree; cancelled missions end | 2 missions, 3 instants, room for one notification | 614 436 |
| `show_safety` | no false start, no missed start, drones wait for the show | 8 instants, 4 changes | 615 332 |
| `connection_status` | what is suppressed or merged leaves nobody with an old state | 1 connection, 1 client, 4 changes, queues of 2 and 1 | 499 816 |
| `scheduled_takeoff` | updates are tracked, and drones do what the show wants | 1 drone, 4 changes, 1 start time | 76 884 |
| `devices` | tree, registry and subscriptions agree | 2 clients, 2 ids, room for 1 object, 2 subscriptions each | 37 852 |
| `log_download` | a log that comes out is the log on the drone; downloads end | logs of 4 blocks and 1, ranges of 3, queue 2, 1 retry | 184 788 |
| `file_transfer` | what ends well is true; transfers end | 2 transfers, 2 chunks, 1 session, 1 message each way, 1 retry | 305 863 |
| `show_false_start`, `device_pending` | disagreements, see [6](#6-findings) | | |

**Why the bounds are enough.** The races between cleanup, task, user and
scope are about one command; a second one is needed for responses with more than one receipt,
for one `ASYNC-TIMEOUT` with several receipts, for full queues and for a sender blocked by
another command. Two clients are needed for the grouping of timeouts by client.
`MaxReports` = 1 lets a command report or suspend, and go on after that. Queue sizes are
chosen so that queues do fill up. Two HTTP requests share a client in
every way; a third would be to the second what the first is. Missions only
meet in the queue of the notifier, so two of them compete for one place. `ShowStart` scales its
times down but keeps their order: the countdown begins (11 s, 4 half seconds) before the point
of no return (10 s, 2), its period (1 s, 2) is the difference, waits are longer than
the recheck interval (60 s, 2), and a start time is in the past, near or far enough for a
countdown that waits first. Four changes are enough to authorize, stop, restart and reconfigure a
show. The bounds are `MaxTime` and `MaxChanges`.

The requests of one connection never touch the entry of another, so
`ConnectionStatus` has one connection; four changes leave a stable state, come back, and leave it again.
Drones of a network share the queue and the limiter of updates, both of size one here. Two
clients and two objects in a registry with room for one make an object replace another under a proxy or a
driver. A log of four blocks in ranges of three has a full range, a short one, and a gap between blocks
that are kept. One session makes two transfers meet in it, one with a
checksum and one with or without; one message each way is enough for a request that is handled twice, or
late, after its transfer has given up. The sequence number of one transfer begins at the last one, to wrap, and
that of
the other such that a late reply of the one may be taken for one of the other. What is
bounded besides the sizes of queues: `MaxChanges`, `MaxSubscriptions`, `MaxRequests`,
`MaxReplies`, `MaxConcurrent`; and messages of `LogDownload` are a set, since a repeated packet is the same as
a late one.

`CHECK_DEADLOCK FALSE`: receipts, HTTP requests, instants, changes and transfers are used up, so
the behaviours of most models end; the devices never stop, and their deadlock is checked.

**Symmetry** is used in `http_safety` and `devices`, which have no liveness property.

**Fairness** is what trio and the server guarantee, and nothing else:

* `CommandExecution`: time passes, expired scopes are cancelled, a
  runnable task gets its turn, and the cleanup task, an endless loop, runs.
  Nothing is assumed of drivers (`Wake`), clients (`Resume`, `Cancel`) or networks
  (`SendResponse`).
* `HTTPBridge`: the hub delivers every message in its queue and
  `index()` reads every message sent to it. The conditions are per request and per receipt
  because queues are first in, first out: an endless row of suspensions does not
  keep a response back. Nothing is assumed of commands and HTTP clients.
* `Missions`: time passes and the scheduler does its part (`RunMission`,
  `RunIsCancelled`). Nothing is assumed of clients, of the code of
  missions or of the notifier.
* `ConnectionStatus`: the tasks of the limiter, the dispatcher and the hub get their turns,
  and time passes. Nothing is assumed of connections and clients.
* `ScheduledTakeoff`: the tasks get their turns, a limiter serves those who wait in turn, and time
  passes; a drone acknowledges some request of those that are repeated for ever,
  and sends its status. No broadcast need arrive. Without the assumption on the drone,
  nothing could follow.
* `LogDownload`, `FileTransfer`: the task of a transfer gets its turn and its timeouts pass. Nothing
  is assumed of drone and link, which may be silent.

`LoneRequestIsAnswered` speaks of every request that is served alone, all of whose commands were
answered. It has two exceptions, in which `index()` does wait for ever:

* the hub dropped the response or a result, because its queue was full or a middleware took the
  response (`dropped`);
* a request with credentials lost its queue (`LostItsQueue`): a
  send that still waits for the queue of the authentication breaks when that queue is closed, and
  by then `expect_response_for()` may have set the next queue, which the
  `except` branch of `HTTPChannel.send()` then takes off the channel (`ext/http.py:147`).

Requests that overlap (`crowded`) are left out, too: the one that registered the client may remove it.

`CancelledMissionEnds` leaves out missions whose authorization or start time
is changed after the cancellation, which then go on, see [6](#6-findings).

Each property has a mutant in `PROJECT.json`: an operator marked "Broken" in the
module that changes the code the way a plausible bug would, and that violates the
property.

## 5 Proofs

`CommandExecutionProofs` proves for every set of receipts (finite), every set of clients and every
capacity that `Spec` implies `[]TypeOK`, `[]AtMostOneVerdict`, `[]ReceiptBeforeReports`,
`[]OnlySuspendedEntriesLinger` and `CancelIsSilent`. The only assumptions are those of
`ConstantsAssumption`.

None of these invariants is inductive. `AtMostOneVerdict` alone says nothing of a
command that has an entry and a verdict already; `ReceiptBeforeReports`
nothing of a task that runs although its response was never sent. `IInv` adds

* `FreshReceipts`: nothing is known of a receipt before it is issued;
* `EntriesAwaitVerdict`: a command with an entry has had no verdict,
  and one in progress without an entry has had its timeout. This decides the race
  between the cleanup, the scope and the task: whoever removes the entry
  announces, and the others look for the entry first;
* `ReceiptBeforeTask`: past the executor's door, the receipt was notified, and it
  was notified only once known;
* `ResponsesAreDisjoint` and `ResponsesHoldAwaitables`: a receipt is in
  one response at most, on its way from the handler through the queue and the
  channel to the callbacks, and as long as it is there its awaitable waits.

The proof has a lemma for each action, and `FinishKeepsInv` for the five
actions that end in `_finish()`. `KeepsPromise` is the refinement:
each step is a step of `AsyncOperation` or a stutter, with `IInv` for the facts that
the guards of `AsyncOperation` ask for (a result is announced only of a known and
pending receipt).

`MissionsProofs` proves `[]TypeOK`, `[]JobFollowsMission`, `[]ShownOrPending` and `LifeCycle` for every
set of missions and parameters, every capacity of the queue of the notifier and every number of
instants. Its `IInv` adds `RunnerFits`: the task of a mission is what the state of the
mission says. Without it the end of a second task could change how a mission ended.
`ChangeKeepsInv` reduces each action to the one mission it changes, `NotifyEffect` says
what a full queue does, and `LegalChange` does the same as the former for `LifeCycle`.

`HTTPBridgeProofs` proves `[]TypeOK` and `[]NoClientLeftBehind`, and, for `~ClientIds`,
`[]OwnResponse` and `[]AnswerIsComplete`, for every set of requests and receipts. Where clients bring
their own message ids, the latter two are not claimed: `OwnResponse` fails (section 6). `OwnResponse` is not
inductive:
nothing in it keeps a response to an earlier request out of the queue of a later one that shares its
channel. `IInv` adds what the channel does about it: it waits for one id, which is that of the owner
of its queue (`OwnIds`), lets one response through (`OneResponse`), and a response that already waits for its
reader is for that reader. `AnswerIsComplete` needs `ReceiptsAreSent` (the response has all the
receipts of its request, whose commands start before it is sent), `ResultsAreTrue` and
`WaitsForTheRest`: what is not waited for any more is merged.

`DeviceSubscriptionsProofs` proves `[]TypeOK`, `[]TreeMirrorsRegistry`, `[]SubscribedAsAsked` and `ToldAsAsked`
for every set of ids and clients, every `SizeLimit` and `MaxSubscriptions`. `RemoveKeepsMirror` is
the case that matters for the first, a removal by id whoever asks for it. For the others, `IInv` has
`OnePendingPath`: the pending paths of a client that is not `doubtful` are one missing path,
repeated, so that it does not matter which of them `RemovePath` takes, whose wrong choice is
the finding `device_pending`. Nothing is proved of doubtful clients. `SubscribersOfNodes` and `NothingLeftBehind` say that what goes takes its
subscriptions along. The bound on the subscriptions of a client (`WithinBounds`), the last part of `TypeOK`, is
about a sum over
a table; it is stated as the size of the set of its units (`Units`), so that no
induction is needed: when an object comes and pending paths become subscriptions, the units of the one
table are mapped one to one into the other, and what a request adds is one unit. Doubtful clients keep no
account, and for the others `OnePendingPath` says that nothing is moved twice.

`ConnectionStatusProofs` proves `[]TypeOK`, `[]EveryoneIsTold` and `[]LastReportIsTrue` for every set of
connections and clients and all capacities. `EveryoneIsTold` needs two facts: the cached methods, if there
are any, are those of all clients, and a broadcast that has begun has yet to send to everyone whom it has not told
(`HubInv`). `LastReportIsTrue` speaks of quiet connections only; `LimiterInv` says what holds while the limiter
works. The requests in its queue are a chain, each beginning at the state where the one before it ended
(`Chain`), and the first begins at what the limiter believes (`Knows`). Then either a message about
the connection is `Coming`, or what the limiter believes is what it reported, or a task
watches whether the transition settles (`Watched`, `Accounted`). `missed` and `ahead` are the two ways in
which the code breaks the chain.

`MAVLinkProofs` proves of `LogDownload` `[]TypeOK`, `[]ResultIsTrue` and `RequestsWhatIsMissing` (a request asks for
missing blocks only, and for as many in a row as it may) for every
finite set of logs and all sizes, capacities and retries. `IInv` follows the data from the drone to the
result: messages and the future hold proper blocks (`MessagesAreProper`), the stage fits the operation
(`Stages`), blocks are where they belong, complete up to the first missing one (`Blocks`), and
they are those of the log that was asked for unless history says otherwise (`OfThisLog`).

Of `FileTransfer` it proves `[]TransferTypeOK`, and `TransferIsTrue` in two steps.

* With checksums (`CheckedUploadsAreTrue`), nothing but the assumptions on the constants is needed. `TypeInv` says
  that the operation of a transfer fits its stage (`Fits`), that no request is ahead of the transfer that
  sent it (`Sent`), and that a reply with all of an upload's data was only sent when they were in
  its file (`ComparedWith`). However many sessions were reset meanwhile, who compares is told the truth.
* Without them (`TransfersAreTrue`), the sequence numbers must do the work. `InTime` gives an age to everything
  that is under
  way: it is of the current request of its transfer, or of one `a` steps before it, and a
  transfer makes at most `Chunks + 4` steps (`Steps`, `Ahead`). If twice that is below `SeqModulus`
  (`NumbersSuffice`), no reply to an earlier request has the number that the transfer waits for. `InStep` then
  relates a transfer that nobody disturbed to the drone:
  its session is open and its chunks are in the file, or came from there (`Progress`), and a reply to its
  current request tells what the drone has done (`Told`). A request that is repeated, and handled again after
  the next
  ones, writes the same chunk to the same place.

`NumbersSuffice` is a hypothesis of the theorem, not an assumption of the model: in the code it holds for files
below
7.8 MB (65 536 numbers, two to a request, 239 bytes to a chunk), and in the run (12 < 16). Larger files take
their numbers twice,
and a reply that was under way for that long could then pass for another; the theorem says nothing of them unless
they compare checksums.

`ScheduledTakeoffProofs` proves `[]TypeOK` and `[]UpdatesAreTracked` for every finite set of drones, all start
times and all capacities. `IInv` states the account of the queue without counting (`Tracking`), and has
`Configured`: an update only begins when there is a configuration, of which it takes the
start time and the method of the moment. Without it the type of a task is not inductive.

`ShowStartProofs` proves `[]TypeOK`, `NoFalseStart`, `StartsOnTime` and `DronesWaitForShow` for all
times, capacities, start times and timecodes. All three are action properties about a half second in which many
tasks run in any order, and `IInv` describes what each task relies on:

* `Cancellations`: a cancelled task that still runs does so in this half second, in which the show is
  `disturbed`; the others belong to an authorized show;
* `Beliefs`: a starter does not take a stopped clock for a running one when it looks at the time, unless
  the show is disturbed. This is what the finding `show_false_start` is the exception of;
* `StarterIsReady`: as long as a show is `armed`, it has a starter whose timer or event comes no later than
  the zero of the clock;
* `DronesAreGuarded`: drones that were told a time are guarded by a countdown that looks at the
  clock again before they start, or the clock can no longer be moved beyond that time (`Settled`).

`TimeAssumption` says `Period <= NoReturn`, as in the code (1 s and 10 s): a countdown that looks at
the clock less often than the point of no return is away would not see every adjustment in time.

**Assumptions.** All theorems rest on the named assumptions of the modules' constants and on nothing else:
capacities and times are natural numbers, sets of receipts, logs and drones are finite,
and `None` is not an element of the sets it stands in for. The values of each run satisfy them, as TLC checks.

The `IInv` of `ShowStart` and of `ScheduledTakeoff` (with two drones, 634 370 states), and `TypeInv`, `InTime`
and `InStep` (with two sessions, and uploads without checksums, too), were
model-checked on bounds like those of section 4 before they were proved.

**Only model-checked**:

* every liveness property, since fairness and `ENABLED` are beyond the prover;
* the two findings, whose properties do not hold.

## 6 Findings

Each is a run that violates a property taken from a doc or comment of the code.

* `show_false_start`: the starter of a show whose start time has passed waits in
  the edge-triggered loop of its alarm. When the clock is stopped, the loop, which
  does not look whether the clock runs, takes the zero of the stopped clock for the
  alarm time and the show starts. Clearing the start time does it, even in a request that
  revokes the authorization, because the clock event wakes the task before it is cancelled.

* `device_pending`: all `DeviceTreePath` objects are equal (`model/devices.py:644`), so of two
  pending paths of a client the first is removed, whichever came into being.

More was met that no run checks:

* Commands: `_cleanup()` announces the timeout of a command without cancelling its task; if the
  task was woken at that moment and yields a `Suspend`, its deadline is lifted and it waits for ever.
* HTTP: a request is never answered if the full outbound queue dropped the result of one of its
  commands (`message_hub.py:428`), if a broken send took its queue, or if the request that
  registered the shared client removed it before all results were in. `ASYNC-TIMEOUT` has `ids`, `index()` looks for `id`, so the request is not
  answered; receipts of `dispatch_to_uav()` are dropped by `extract_receipts_from_response()`,
  so the request is answered at once, without the result. With `ClientIds = TRUE`, `OwnResponse`
  fails: two overlapping requests of a host with the same message id may be answered with each
  other's response, against `ext/http.py:5`.
* Missions: a mission cancelled before its start is only scheduled to be started; revoking its
  authorization first leaves it alive, and a second cancellation is acknowledged without effect.
* Shows: the schema (`ext/show/extension.py:454`) says that stopping the timecode stops the
  clock even beyond the point of no return; `ext/show/clock.py:242` does not, as its class says.
* Connections: a change that settles before it is told leaves its entry in the limiter,
  and the next transition is not told. `broadcast_message()` is said to block
  until the message was broadcast; it returns once the message is in the queue.
* Takeoff: a start time with a fraction of a second is split by `divmod(..., 1)` and
  its milliseconds are always zero (`ext/mavlink/driver.py:2339`), so a drone that misses every broadcast
  keeps the wrong time: with `StartTimes = {3}`, `DronesFollow` fails. A
  revocation after the start time has passed is not broadcast, and with `Individual = FALSE`,
  the default, nothing else reaches the drones.
* Devices: a request to unsubscribe from a missing path removes one pending path even if
  `removeAll` is set and the path is pending more than once (`model/devices.py:1228`); the answer says that
  the client is unsubscribed, and the documentation that it is so "no matter how many times it is
  subscribed" (`app.py:357`), but when the object comes, the client is subscribed again. Unsubscribing a subtree of a missing path raises `NoSuchPathError`; subscriptions to an
  object that is removed are forgotten, not pending again.
* Logs: the data of another log are taken if they come late (`ext/mavlink/log_download.py:182`);
  a list waits for ever for an entry that was lost.
* Files: a cancelled transfer closes neither its session nor its connection, and the drone
  may refuse the next one until somebody resets its sessions.

`DronesWaitForShow` and `StartsOnTime` have exceptions that are hazards of the code, not
of the model: a countdown that is cancelled while the show remains scheduled calls nobody
off, nobody does in the last half second, and a show that is authorized while the timecode stands
still has no starter.

## 7 Not modelled

`PROJECT.json` lists every component with a reason. In short: sockets, serial ports and
radio (pure I/O); the vendored Socket.IO and Engine.IO; numerical code
(trajectories, geodesy, statistics, the kinematics of virtual UAVs); file formats;
authentication methods and licences, which compare and decode; the creation of missions from
mission types and their plans (`X-MSN-NEW`, `X-MSN-PLAN`), which only add a mission in its
initial state or compute; the limiters of SYS-MSG and UAV-INF, which collect; `ls()`, `mkdir()` and `rm()` of
MAVFTP,
each a request that is repeated like the others; requests to
the show with invalid start conditions; adding and removing connections; logging throughout.
`ProgressReporter.updates()` clears the suspension after it was yielded and so may lose one
that came meanwhile (`tasks/progress.py:207`); a model of it would have little else to say.

## 8 Plan

Order by how much of the server depends on the component and how little tests
reach its hazards. Every module takes its sizes and sets as
`CONSTANTS` with named assumptions, has one action per handler or task step, invariants
as conjunctions of named parts, and no recursive operators, so that it can be proved about.

1. `AsyncOperation`, `CommandExecution`, their run, `IInv` and the refinement: checked and proved.
2. `HTTPBridge` on top of `AsyncOperation`, `Missions`, `ShowStart`: checked and proved.
3. `ConnectionStatus` with the broadcasts of the hub, `ScheduledTakeoff`, `DeviceSubscriptions`
   with the object registries, `LogDownload`, `FileTransfer`: checked and proved.
4. Candidates for a model: `ProgressReporter`, time synchronisation, the batching limiters.

Every invariant and every safety property that a passing run checks is proved. What could
still be proved is `TransferIsTrue` for files that use their numbers twice, which needs a bound on the time that
a message is under way.
