# Distributed schedule service: specifications

TLA+ specifications of the distributed schedule service ("DMS", this repository), the TLC runs
that check them and the TLAPS proofs about them. The service runs on every device; it starts,
connects, calls and moves abilities on other devices, installs them there if need be, and keeps
a copy of the mission lists of other devices. Every definition that models code is listed in
`PROJECT.json` under `map` with the lines it stands for; hazards, mutants and theorems are
listed there as well.

    tlc -config connect_races.cfg MCDmsConnect.tla      one run
    tlapm DmsConnectProofs.tla                          one module of proofs

## 1. The system

| component | state | operations | hard |
|---|---|---|---|
| remote connect (`distributed_sched_service.cpp`, `..._adapter.cpp`) | caller: `distributedConnectAbilityMap_`, `trackingUidMap_`; callee: `connectAbilityMap_`; death recipients; delayed offline tasks | connect, disconnect, on both sides; death of a process; loss and return of a device | the locks are released around every call; retries; a limit checked before and counted after the remote call; two tables on two devices |
| mission continuation (`distributed_sched_continuation.cpp`) | `callbackMap_`, `freeInstall_`, `continuationDevice_`, the timers of `continuationHandler_` | request, query of the bundle manager, `ContinueAbility`, report of the target, timeout | everything is keyed by the mission, of which one request after another may be under way; answers race timeouts |
| free install (`dms_callback_task.cpp`) | `callbackMap_`, `continuationMissionMap_`, delayed events | request, refusal, report, timeout, loss of the device | four sources of the one result |
| mission synchronisation (`mission/distributed_sched_mission_manager.cpp`) | client: `listenDeviceMap_`, `deviceMissionInfos_`, `remoteDmsMap_`, retries; server: `remoteSyncDeviceSet_`, `isRegMissionChange_`, queues of three handlers | register, unregister, start, stop, change, death of a listener or of the service, links | tasks run later than the set they follow; answers and notifications come in different threads; restart of the server |
| remote call (same service file, `StartAbilityByCall`) | `callerMap_`, `calleeMap_` | start, release, deaths, loss of a device | as remote connect, without a limit or a retry |
| continuation manager (`dtbabilitymgr`) | tokens, `callbackMap_`, `appProxy_`, the connection `connect_` | register, unregister, callbacks to and from the device panel | a check under a lock and the use under another, or under none; a counter kept over restarts |
| mission snapshots, data storage | a cache of ten, the key-value store, delayed deletion | store, fetch, delete | two handlers that store, readers that put back, notifications that are not made, deletion against return of the device |
| device information (`services/base`) | `remoteDevices_`, `uuidNetworkIdMap_` | reports of softbus: online, offline | reports are handled late, look-ups of devices that have gone |
| permissions | none | decisions on data of the bundle manager | combinations |
| stubs, proxies, converters | none that lasts | marshalling, gates | two lists of fields that must agree; writes and reads that fail |
| dump, tracing, JavaScript | none that lasts | output | - |

How they interact: applications call the service over IPC, in any of its threads; the service
calls the ability manager (AMS), the bundle manager and the service of another device, each time
without holding the lock of the table concerned; those call back. Device information posts
online and offline events to one handler, which calls remote connect first (`DeviceOffline`,
with a delay), then mission synchronisation, which also has the data of a device deleted later. A continuation that needs an installation goes
through free install, whose failure or timeout comes back as the result of the continuation.

What makes each correct:

* connect: both tables say the same once nothing is under way; nothing is left of a process or
  device that is gone; the counter of the limit is what the table holds; an ability that is bound
  is in a table, so that somebody can release it; additions and removals are reported in pairs.
* continuation: whoever was accepted is told, once, and the truth; the mission is cleaned on the
  source only if the target has it; no timer or callback outlives its request to hit another.
* free install: one result for each request, success only for an ability that was started, a
  timeout for every task kept.
* remote call: as connect; and an entry always has a way to end with its application.
* continuation manager: no null pointer is used; what is registered ends with its application;
  the service and the panel agree whether one is shown; no token is given to two.
* snapshots and devices: at rest, what is read is the last snapshot; the network id is the one the
  device has; data of a device that is listened to stays.
* requests: served with the arguments that were given, heard as they were answered, and only for
  whom they are meant.
* mission synchronisation: the server listens while anybody is to be told; the copy is that of
  the server when things are quiet; both ends agree on who synchronises, over restarts.

## 2. The modules

| module | models | with |
|---|---|---|
| `DmsConnect` | both ends of remote connect | `MCDmsConnect`, proofs in `DmsConnectProofs` |
| `DmsMigration` | abstract: a mission moves, one request at a time, each has one outcome | refined by `DmsContinuation` |
| `DmsContinuation` | source side of a continuation | `MCDmsContinuation`, proofs in `DmsContinuationProofs` |
| `DmsFreeInstall` | both ends of free install | `MCDmsFreeInstall`, proofs in `DmsFreeInstallProofs` |
| `DmsMissionSync` | both ends of mission synchronisation | `MCDmsMissionSync`, proofs in `DmsMissionSyncProofs` |
| `DmsCall` | both ends of remote call | `MCDmsCall`, proofs in `DmsCallProofs` |
| `DmsContinuationManager` | the service an application selects a device with | `MCDmsContinuationManager`, proofs in `DmsContinuationManagerProofs` |
| `DmsDevices` | what the service knows of a device | extended by `DmsSnapshots` |
| `DmsSnapshots` | snapshots from the source to an application, over the key-value store, composed with `DmsDevices` | `MCDmsSnapshots`, proofs in `DmsSnapshotsProofs` |
| `DmsParcels` | what each request carries: proxy and handler | extended by `DmsWire` |
| `DmsPermission` | the decisions on abilities of another device | extended by `DmsWire` |
| `DmsWire` | a request on its way, with `DmsParcels` and `DmsPermission` | `MCDmsWire` |

One action is one critical section, one task of a handler, or one call that leaves the service;
a handler of the code is the chain of its actions, with the place it has reached in a variable
(`pc`, `th`, `serving`, `notify`). So every interleaving that the locks allow is there.
Definitions whose name ends in `_Something` are mutants: the nearby wrong code that the property
named in `PROJECT.json` catches; they are used by nothing else.

### DmsConnect

`callerMap` is `distributedConnectAbilityMap_`: for a connect object, the set of devices with a
session. `ConnectRemoteAbility` checks the limit, makes the remote call and tries again, and
records the session when it has returned; these are three steps. On the other side
`ConnectAbilityFromRemote` looks the connect up, binds at the AMS, and records; the decision
whether to record is the one of the first look-up (the code uses the iterator found then, which
is the model's "decides by first lookup"). Process death, `DeviceOffline` with its delayed task
and `DeviceOnline`, which removes that task, are actions on both sides. Abstracted: lists of
sessions are sets, elements and bundle names are one, one caller device. The retry loop gives up
after any failed try. `AddDeathRecipient` on an object that has died fires at once. A thread has
at most one unfinished handler on the remote side. `NotifyApp`, an IPC made under
`distributedLock_`, has no effect on the tables and is left out, and with it what an application
does inside it. `RpcTimeouts` lets a call fail for the caller while the callee still runs it; the
runs switch it off, the proofs hold for both.

### DmsContinuation and DmsMigration

Requests are ContinueLocalMission calls; the tables are those of `DSchedContinuation`, per mission.
Threads: the requests, the answers of the bundle manager (`OnQueryInstallationFinished`), reports
of the target (`NotifyContinuationResultFromRemote`), and the timer. `Serial` makes requests for
one mission wait for each other, `Overlap` lets a request begin between two steps of another.
`ContinueMission` and `ContinueRemoteMission`, which forward, and `PushAbilityToken`,
`PopAbilityToken` and `GenerateSessionId`, which the service does not call, are left out. After a failure
of free install a report of the target may still come. `DmsMigration` says what is promised:
missions have at most one current request, and a request gets one outcome; `OneAtATime` states that
`DmsContinuation` implements it (current request from `callbackMap`, outcome from what was told).

### DmsFreeInstall

A task is named for its id; ids are not used twice (the counter is 64 bits wide). `StartRemoteFreeInstall` pushes the
task, records the mission, calls the target and undoes a refusal; the answer of the call may be
lost. `NotifyCompleteFreeInstallFromRemote` runs for a report of the target or for the timeout:
launch type, pop, mission and result are looked up in separate sections. `NotifyDeviceOffline`
is one section including its calls. The 30 s of the timeout do not pass between two local
statements. What failing a mission does then is the subject of `DmsContinuation`; here it is `failed`.
`MissionForgotten` has an exception that the code makes: tasks dropped because the device went
offline or refused leave their mission in `continuationMissionMap_`.

### DmsMissionSync

One server and the clients that listen to it; both run the same manager, whose two roles share
no state, and a client's tables are per server. `listenerSet`/`called` are `listenDeviceMap_`,
`cache` is `deviceMissionInfos_`, `remoteDms` is `remoteDmsMap_` with whether the proxy is still
good, `retries`, `died` and `dmsDied` are the tasks queued in the client's `missionHandler_`.
At the server `queue` holds the register and unregister tasks, `changes`/`reading` the tasks of
`missionChangeHandler_`, `outbox` the handlers of the clients. A list is its version number. A
start is six steps, from the check of `called` to its setting. A failure of the server loses
all its variables; clients learn of it by the death of their proxy. The uuid of a device can
always be looked up. `OnDnetDied` and `NotifyDmsProxyProcessDied` have no caller and are left out, and
`GetRemoteDms` in two threads at once. Snapshots are in `DmsSnapshots`.

What the code does not promise is visible in the properties as named exceptions. `CacheFresh`
excepts a change *unheard* (it falls between the reading of the list for a starting client and
the later task that registers the listener) and one *missed* (an old list, the answer to a start
or a notification queued earlier, replaced a newer one). `EndsAgree` excepts *loose* clients:
the application stopped although listeners stay (`called` stays set, so that its next start is
answered "already called" and does nothing), it unregistered its last listener without stopping,
a start failed at the server after the client had been added, or retries were used up. The retry queued when a first start
does not find the server does nothing, since it asks for `called`; the model has it.

### DmsCall

As `DmsConnect`, for `callerMap_` and `calleeMap_`, with what differs: a remote device knows a
connect by a proxy, which dies with the application *and with the link*, after which the same
connect comes as another proxy (the connect and the link's count); the deaths of callers and
abilities go through a queue at the callee, so that an entry may be one that was made anew; the
recipient is set after the lock was released. The reports to the resource scheduler are
counted. `CallEndsAgree` names what the code does not do: the caller is not told that an ability
died (*lost*), a link that fails and returns at once is not noticed (*flapped*), releasing one
session drops those with the other devices (*dropped*), and a connect used in two ways at once
(*raced*) is excluded.

### DmsContinuationManager

Calls come on threads, each with its sections under the mutexes of the tokens, the callbacks and
the panel's proxy; `continuationHandler_` is a queue whose tasks run section by section.
`callbackMap_[token]` of the C++ map inserts an entry with null notifiers when there is none.
`connect_` of `DistributedSchedService` is read and written without a mutex; a pointer is taken
whole here, although it is a data race, and so is the look of `IsNotifierRegistered`, which
`UpdateConnectStatus` calls without the lock that the comment at
`distributed_ability_manager_service.cpp:496` asks for. A null pointer that is used ends the
process (`down`), and `Restart` starts it with the counter it kept in a system parameter. The
*cut* of a call or a task is a ghost: another thread changed what it had looked at. The value of
the connect status and the loading of the library are left out. The exceptions of
`DeadAppForgotten` and `PanelAgrees` (`races`) are written above the properties.

### DmsDevices and DmsSnapshots

`DmsDevices` has one remote device, which keeps its uuid and may have another network id
whenever it comes. `tasks` are the two queues its reports go through, in one; a report is
handled in up to three steps: the entry and the maps, the notification of the service, and
after it the removal. `known` is what softbus can tell the uuid of; a look-up that fails gives
the empty uuid, under which the map gets an entry as under any other.

`DmsSnapshots` has the source, whose two handlers get and store snapshots (`work`), and the
key-value service, which is external: it brings entries over in any batches while the device is
here, and notifies who is subscribed. After `RemoveDeviceData` it brings the entries over again, as
inserts, and makes no notification of the deletion. The service of the other device may die,
with the notifications it had yet to make; that of the source stays up. Then there are the
storage, which connects to the service again, the cache, readers that take a snapshot out and
put it back, and `deleteTasks`, found by uuid. A snapshot is its version; `ConvertToSnapshot`
leaves its times zero, so that the one put back always replaces, and the first key is evicted.
The id of a mission that ended is not used again; registering at the AMS succeeds; softbus
reports in order, and its death, which the code does not handle, does not happen.
`SnapshotFresh` and `DeviceTracked` name the exceptions the code makes, each of which the run
reaches.

### DmsParcels, DmsPermission and DmsWire

`DmsParcels` gives for each request two records translated from two places: the fields its proxy
writes with what it refuses, and the fields its handler reads with what a missing or odd one
means, its gate and its answer. The value of a field is the name of its argument, so that two
fields of one type in the wrong order show. `DmsPermission` has the checks as operators over a
case, the facts they look up. `DmsWire` sends one request at a time through the stub's tables,
with faults. `HeardIsTrue` has an exception the code makes: `PARCEL_WRITE_REPLY_NOERROR` lets a
failed write be heard as success.

## 3. The runs

Bounds are the constants of the `.cfg` files; a run takes from seconds to two minutes.
`CHECK_DEADLOCK FALSE` is set where all work can be done and nothing is left to happen.

| run | instance | shows |
|---|---|---|
| `connect_races` | 1 device, 3 connects, 2 processes of one uid, 2 threads, limit 1, one loss, one death | `CounterAgrees`, `CallerReportsAgree`, `LimitOvershoot` (the limit is exceeded by at most the calls under way), `OfflineLeavesNothing`, `RecordedIsBound`, `EveryConnectWatched` |
| `connect_serial` | 2 devices, calls one at a time, 2 tries | `TablesAgree`, `CalleeReportsAgree`, `NoOrphanBinding`, `DeadProcessForgotten` (liveness) |
| `call` | 1 connect, 2 devices of which one may fail, 2 threads, 3 calls, 2 wrappers of a proxy | `EveryCallWatched`, `CallEndsAgree`, `DeadCallerForgotten` |
| `continuation_races` | 2 requests for 1 mission, 2 devices, overlap | `TablesOfOneRequest`, `CleanedOnlyAfterSuccess`, `ToldOnce`, `OneAtATime` (refinement) |
| `continuation_serial` | 3 requests, one after another | `ToldTheTruth`, `GoesItsOwnWay`, `NoStrayTimer`, `AcceptedIsTold` (liveness) |
| `free_install` | a start and a continuation, a device each | `ToldOnce`, `ToldOkIfStarted`, `EveryTaskIsTimed`, `MissionForgotten`, `EveryoneLearns` (liveness) |
| `mission_register` | 2 clients with an application each, calls overlap with failures between them, or links fail at any moment with calls one at a time | `RegisteredWhileSyncing` |
| `mission_fresh` | 1 client with 2 applications that may die, 2 changes, calls overlap | `CacheFresh`, `DeadListenerForgotten` |
| `mission_serial` | 1 client with 2 applications, 2 failures of the server, 1 of the link, the AMS may fail, one call at a time | `EndsAgree`, `Rejoins` (liveness) |
| `continuation_manager` | 2 applications that have a token each, one with both callbacks, 2 threads, 3 calls, 3 tokens | `DiesOnlyByRace`, `DeadAppForgotten`, `PanelAgrees`, `TokensApart` |
| `snapshots` | 2 missions, 2 network ids, 1 reader, a cache of 1, and one of four budgets of what happens: mostly to missions, to applications, to the device, or a death of the key-value service | `SnapshotFresh`, `DeviceTracked` |
| `wire` | every request and caller, either door, one argument odd, one or two facts of a case odd | `ArgumentsArrive`, `HeardIsTrue`, `ServedThroughItsDoor` |

The type invariants are a conjunct of a property of their module, except those of `DmsConnect`
and `DmsFreeInstall`, which are proved.

Why these are enough: a race needs two actors on one key, so two threads (connect), two
requests of one mission, two applications of one client, two clients of one server; a limit of
one and three connects is the least at which a limit is met, exceeded and met again; two changes
are the least that can arrive in the wrong order; a third request sees what two have left. Three tokens for two
applications let the counter come round. A budget of five for the device lets it leave and come back under
either network id with a report still to be handled; one mission that changes twice, or changes and ends, is
enough for the two handlers of the source to cross; a cache of one evicts at the second mission.
`Serial` and `InTime` are assumptions on the environment, not on the code: under `Serial` an
application makes a call when the one before has ended, under `InTime` failures wait for what is
under way; in `DmsMissionSync` a behaviour draws from `Overlaps` which of the two need not wait.
The agreement of two tables on two devices holds only then, and the runs without
them check what holds regardless.

Fairness: threads and handlers of the service run on, queued tasks and timeouts are executed in
the end, a synchronous call returns. Nothing is assumed of users, of the AMS, of the bundle
manager or of a target device, which may keep silent; so `AcceptedIsTold` and `EveryoneLearns`
rest on the timeouts. `Rejoins` assumes in addition that init restarts the service. A client may
use up its retries before that, which is an outcome the property names.

## 4. The proofs

Everything here holds for all values of the constants that satisfy the named assumptions: any
number of devices, applications, requests, threads and missions, any bounds. Finiteness is
assumed only where something is counted (connects and threads, applications, missions). A theorem `Spec => []P`
rests on an inductive invariant, given below with the reason why `P` alone is not inductive; each
module shows with one lemma per action that a step keeps it.

* `DmsConnectProofs`: the type invariant; `CounterAgrees` and `CallerReportsAgree`; `LimitOvershoot`, from
  them. `TypeInv` is `TypeOK` and, in `CallsOK`, what a thread at a given place has
  in hand; `LimitInv` counts `InFlight`,
  the calls that have passed the check and not yet been counted, since the counter is increased
  long after the check. `EveryConnectWatched` is inductive as it stands, with lemmas on the queue of deaths.
  `OfflineLeavesNothing` needs `LostInv`: calls and handlers under way for a lost device (`RacedInv`) and entries of
  either table (`SessionInv`, `RecordInv`) raced with its loss, unless the task that removes
  them is queued. `RecordedIsBound` needs `OwnInv`: a wrapper that was made and is not
  recorded yet is with one handler only and in no table, and is bound when it is to be recorded.
  Under the hypotheses of the run `connect_serial` (`Serial`, no RPC timeout, nobody offline, but for
  any number of deaths) `TablesAgree`, `CalleeReportsAgree` and `NoOrphanBinding` follow from `EndsInv`. They speak of
  a system at rest, so the invariant says of a system at work who will settle each difference: a
  record at the callee has its session at the caller, or a call that will give it one or remove the
  record (`RecordHasSession`), a session of a live process has its record (`SessionHasRecord`), and what the
  AMS has bound for one is recorded or in the hands of a handler that records or unbinds it (`BoundIsKnown`). `SteadyInv`
  says what an actor and its nested call have in hand (`Fits`) and that there is one call at a time (`Alone`).
* `DmsFreeInstallProofs`: the type invariant; `EveryTaskIsTimed`, inductive together with types;
  `ToldOnce` from `TellInv` (a result on its way belongs to a task that has left the map, untold, and to one
  notifier only); `ToldOkIfStarted` from `OkInv` (a result "ok" in hand comes from an ability that was started);
  `MissionForgotten` from `MissionInv`: a mission in its map has its task there, or
  the task was dropped, or someone is about to clear the mission (`ClearedInv`), which needs that nobody works on a task
  before it was sent (`EarlyInv`), nor takes a continuation for a start while its task is kept (`StartInv`).
* `DmsContinuationProofs`: `ToldOnce` from `OnceInv`, which says where a callback is: with its
  request, in the map, in the hands of one thread that will tell it, or gone; `TablesOfOneRequest`;
  `CleanedOnlyAfterSuccess` (whoever has success in hand has it from a target's report); and the
  refinement `OneAtATime`: each step pushes (`Begin` of `DmsMigration`), pops (`End`, with the outcome that
  the callback will be told), or stutters, since telling does not change the outcome.
  These hold however requests, answers and timeouts overlap. For `Serial` and `~Overlap`, `SerialInv` gives
  `ToldTheTruth`, `GoesItsOwnWay` and `NoStrayTimer`: a mission is in the hands of one request's thread
  or of one that tells, never both (`ThreadInv`, `NoteInv`); a timeout without a callback
  is about to be removed by who took the callback (`TimerInv`).
* `DmsMissionSyncProofs`: the type invariant; `RegisteredWhileSyncing`, if the AMS refuses nothing
  (`~AmsFails`, as in its run; a registration that was refused is not tried again), with
  `ServingInv` (a call the server is still at is one whose thread waits for it, or has given it up);
  `DeadListenerForgotten`, inductive with the types; and `CacheFresh`, if the AMS refuses nothing and
  links stay (as in its run, but for any number of deaths of the server), from `FreshInv`: for each client the
  server notifies, the last list is in its copy, last in its queue, in the hands of a thread, or
  still to be read (`ArrivesInv`). That needs that the server knows only clients with a good proxy (`ReachInv`) and that
  a list which aged after it was read is read again (`OlderInv`). Both assumptions are needed. A start that
  fails at the server leaves a client that had synchronised in the set without its copy; and a client whose
  link went down drops its copy, after which a start still under way sets `called` without bringing it again.
  `EndsAgree` is proved for `Serial` (`Overlaps = {{}}`, as in its run), with failing registrations and links and deaths of
  the server included, from `EndsInv`: of each client, that nothing of it overlaps (`Apart`), that what
  the two ends have still to hear of the link is its last change (`LinkKnown`), what a start under way has reached (`StartKnown`),
  and that a client that believes to be told is known to the server, is loose, or starts again, and one the
  server knows is told, is loose, or is being stopped or started (`Ends`).
* `DmsCallProofs`: `EveryCallWatched` and `DeadCallerForgotten`, from `WatchInv`: at each end an entry has its
  death recipient, or a thread that will add it, or the death is queued, and an entry of
  one that has died has its death queued. `CallEndsAgree`, which excludes connects used in two ways at once, from
  `EndsKept`: each other connect has at most one call under way, and (`EndsOf`) a session has its entry,
  an entry its session and its bound ability, a binding its entry, unless the call at the place where it is
  has still to make the one or remove the other, or a loss that was recorded explains it; and each end has
  reported itself as often as its entries say (`CallerReports`, `CalleeReports`).
* `DmsContinuationManagerProofs`: `TokensApart`, inductive with the fact that tokens are not above
  the counter (the counter survives a restart, which the proof covers); `DiesOnlyByRace` from
  `RaceInv`: a thread before its use of an entry, and a queued task, find what they need, or
  were cut. `PanelAgrees` from `PanelInv`, each part up to the races the property
  names: a token the panel was asked for has a task in the queue or a connection being made for it (`AskedDue`),
  no connection is bound but the one the service would close, and none while that is done
  (`OneBound`), and the proxy is there if and only if a connection brought it (`ProxyKnown`). `DeadAppForgotten` from `DeadInv`: as long as no
  token was given again in use and no application died in a call, a token has one owner, a watched notifier is in its
  entry and alive or its death is reported, each entry is watched, and a death that is reported
  concerns a notifier still in its entry or a token that is erased or about to be (`Doomed`). It also needs which tokens an application keeps when one is erased; `Without` therefore
  places each kept token by counting those kept before it (`PlaceOf`), which finite-set
  theorems reason about and induction over the list is not needed for.
* `DmsSnapshotsProofs`: `SnapshotFresh` from `SourceInv` and `CopyInv`: whatever the source has not stored
  yet is in hand of one of its two handlers or in the queue before them, and whatever the other device has not
  got is unsent, on its way in a notification, or excused by an exception that was recorded; `DeviceTracked` from these and
  `DevicesInv` (the queue of reports is a path from what the maps have to where the
  device is, which carries the whole argument about late reports), `ConnectionInv` (a link
  of the storage that is down has somebody who will bring it up), `BoundInv` and `CleaningInv`.

The hypotheses of a theorem are those of the run that checks its property, or weaker. The
assumptions on the constants give parameters their types, keep names apart (`ThreadsAssumption`), bound what is counted
(finitely many applications and missions), and say that there are at least as many tokens as applications.

Checked by TLC only:

* liveness (`DeadProcessForgotten`, `AcceptedIsTold`, `EveryoneLearns`, `Rejoins`), which this prover does not do;
* the invariants of `DmsWire` (`ArgumentsArrive`, `HeardIsTrue`, `ServedThroughItsDoor`). They are about the finitely many
  requests of the repository, written out as tables, and no parameter is left to generalise over: TLC goes through all of them. The one
  bound, cases of `DmsPermission` with at most two odd facts, is in the run.

## 5. Not modelled

Dump, events and tracing, which only pass on; the JavaScript binding, which runs in the
application and keeps its callbacks by token (`jsCbMap_`); the copying of fields from
one record to another and the decoding of a pixel map; functions that nothing in the source
calls (`Stop`, `Uninit...`, `OnDnetDied`); the proxies whose other end is outside the repository.
Message contents, durations and the AMS are abstracted to the outcomes the service tells apart.
Calls that time out and are executed later are in `DmsConnect` and `DmsFreeInstall` only, and no
run has them in `DmsConnect`. The deadlock by an application that calls back from `NotifyApp`
would need a model of what applications do. `PROJECT.json` gives the reason for each part.

## 6. Plan

1. `ServedThroughItsDoor` for every case of `DmsPermission`, not only those with two facts odd.
2. `DmsConnect` with `RpcTimeouts` in a run: what is left at the callee after the caller gave up.
