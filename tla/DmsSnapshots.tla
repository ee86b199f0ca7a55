----------------------------- MODULE DmsSnapshots -----------------------------
(* The snapshots of missions from the device where a mission runs (the source) to an          *)
(* application on another.  The source stores them in a key-value store whose copies the         *)
(* key-value service keeps in step; the other device caches those that were read, drops them      *)
(* from the cache when the store tells of a change (DistributedDataChangeListener), and deletes    *)
(* all of a device some time after it left or is not listened to (DeleteDataStorage).  Handlers,     *)
(* threads of readers and the key-value service run side by side, and the key-value service of        *)
(* the other device may die.                                                                             *)
EXTENDS DmsDevices, Functions

CONSTANTS
    Missions,         \* the missions of the source, in the order of their keys
    Readers,          \* the threads that read snapshots
    MAX_CACHED_ITEM,  \* 10 in the code
    MaxVersion,       \* bound on the snapshots that are made
    Budgets           \* bounds on what happens, of each kind: a run has one of them
ASSUME MissionsAssumption == Missions \subseteq Nat /\ IsFiniteSet(Missions) /\ Missions # {}
ASSUME CacheAssumption == MAX_CACHED_ITEM \in Nat \ {0} /\ MaxVersion \in Nat \ {0}
Kinds == {"device", "mission", "service", "application"}
ASSUME BudgetsAssumption == Budgets \subseteq [Kinds -> Nat]

Versions == 1 .. MaxVersion
NoSnapshot == 0

VARIABLES
    \* the source
    mission,      \* the last snapshot of each mission that runs
    newest,       \* the last snapshot made
    began,        \* the missions that were created; the id of one that ended is not used again
    isReg,        \* isRegMissionChange_: the changes of missions are listened to
    later, soon,  \* missionChangeHandler_: the delayed tasks, and the others
    initList,     \* the missions InitAllSnapshots has yet to store
    work,         \* the snapshot that each handler has got and not yet stored
    src,          \* the snapshots in the store of the source
    srcWhy,       \* ghost: why the store does not have the last snapshot
    \* the key-value service
    unsent,       \* the missions whose entry has still to reach the other device
    kvUp,         \* the service of the other device runs
    store,        \* its copy of the entries
    changes,      \* the notifications it has yet to make
    \* the other device
    kvStorePtr,   \* kvStorePtr_: a store of a service that lives, or of one that died
    watched,      \* the service has the death recipient
    kvDied,       \* a death that is still to be reported
    subscribed,   \* the service has the listener for changes
    waitTasks,    \* dmsDataStorageHandler_
    waitTask,     \* the step of the task that runs
    kvFault,      \* ghost: why the storage is no longer connected again
    cache,        \* cachedSnapshotInfos_
    reading,      \* the snapshot each reader has taken and not yet put back
    listened,     \* listenDeviceMap_: the network ids with listeners
    deleteTasks,  \* missionHandler_: the delayed deletions
    lost,         \* ghost: how the data of a device that was listened to was deleted
    left          \* what may still happen

missions == <<mission, newest, began>>
handlers == <<isReg, later, soon, initList, work, src, srcWhy>>
kv == <<unsent, kvUp, store, changes>>
connection == <<kvStorePtr, watched, kvDied, subscribed, waitTasks, waitTask, kvFault>>
snapshots == <<cache, reading>>
cleaning == <<listened, deleteTasks, lost>>
source == <<missions, handlers>>
vars == <<devices, source, kv, connection, snapshots, cleaning, left>>

-----------------------------------------------------------------------------
(* A snapshot that was read, with the ghost that tells why it may not be the last. *)
Snapshot(v, why) == [v |-> v, why |-> why]
Absent == Snapshot(NoSnapshot, "none")
NotReading == [m |-> NoSnapshot, n |-> None, snapshot |-> Absent]
Workers == {"InitAllSnapshots", "MissionSnapshotChanged"}
NoWork == [m |-> NoSnapshot, v |-> NoSnapshot, cut |-> FALSE]

InCache == {m \in Missions : cache[m] # Absent}
Dequeued(K) == [m \in Missions |-> IF m \in K THEN Absent ELSE cache[m]]
Marked(K, why) == [m \in Missions |-> IF m \in K /\ cache[m] # Absent THEN Snapshot(cache[m].v, why) ELSE cache[m]]
MarkedReading(K, why) ==
    [r \in Readers |-> IF reading[r] # NotReading /\ reading[r].m \in K
                       THEN [reading[r] EXCEPT !.snapshot = Snapshot(reading[r].snapshot.v, why)] ELSE reading[r]]

(* At first the source has a mission, was asked for its missions and has read the list; the *)
(* other device connects to softbus and to its key-value service.                              *)
First == CHOOSE m \in Missions : \A k \in Missions : m <= k
Init ==
    /\ DevicesInit
    /\ mission = [m \in Missions |-> IF m = First THEN 1 ELSE NoSnapshot] /\ newest = 1
    /\ began = {First}
    /\ isReg = FALSE /\ later = {} /\ soon = <<>> /\ initList = {First}
    /\ work = [w \in Workers |-> NoWork]
    /\ src = [m \in Missions |-> NoSnapshot] /\ srcWhy = [m \in Missions |-> "none"]
    /\ unsent = {} /\ kvUp = TRUE /\ store = src /\ changes = <<>>
    /\ kvStorePtr = "none" /\ watched = FALSE /\ kvDied = FALSE /\ subscribed = FALSE
    /\ waitTasks = 1 /\ waitTask = "none" /\ kvFault = "none"
    /\ cache = [m \in Missions |-> Absent] /\ reading = [r \in Readers |-> NotReading]
    /\ listened = {} /\ deleteTasks = {} /\ lost = {}
    /\ left \in Budgets

Happens(kind) == left[kind] > 0 /\ left' = [left EXCEPT ![kind] = @ - 1]

-----------------------------------------------------------------------------
(* The source: the ability manager tells of missions; a task for each is queued, the one    *)
(* for a new mission with a delay (GET_FOREGROUND_SNAPSHOT_DELAY_TIME).                         *)
Job(kind, m) == [kind |-> kind, m |-> m]
Missing(m) == IF isReg THEN srcWhy ELSE [srcWhy EXCEPT ![m] = "missed"]
NotifyMissionSnapshotCreated ==
    \E m \in Missions :
       /\ Happens("mission") /\ newest < MaxVersion /\ m \notin began
       /\ mission' = [mission EXCEPT ![m] = newest + 1] /\ newest' = newest + 1
       /\ began' = began \union {m}
       /\ later' = IF isReg THEN later \union {m} ELSE later
       /\ srcWhy' = Missing(m)
       /\ UNCHANGED <<devices, isReg, soon, initList, work, src, kv, connection, snapshots, cleaning>>
NotifyMissionSnapshotChanged ==
    \E m \in Missions :
       /\ Happens("mission") /\ newest < MaxVersion /\ mission[m] # NoSnapshot
       /\ mission' = [mission EXCEPT ![m] = newest + 1] /\ newest' = newest + 1 /\ began' = began
       /\ soon' = IF isReg THEN Append(soon, Job("changed", m)) ELSE soon
       /\ UNCHANGED <<devices, isReg, later, initList, work, src, srcWhy, kv, connection, snapshots, cleaning>>
NotifyMissionSnapshotDestroyed ==
    \E m \in Missions :
       /\ Happens("mission") /\ mission[m] # NoSnapshot
       /\ mission' = [mission EXCEPT ![m] = NoSnapshot] /\ newest' = newest /\ began' = began
       /\ soon' = IF isReg THEN Append(soon, Job("destroyed", m)) ELSE soon
       /\ UNCHANGED <<devices, isReg, later, initList, work, src, srcWhy, kv, connection, snapshots, cleaning>>

(* MissionSnapshotChanged: the snapshot as it is now, unless the mission has gone; then it is *)
(* stored (it may be too large, or the store may refuse it).  The queue of changes and           *)
(* InitAllSnapshots, which has a handler of its own, do so side by side.                            *)
Gets(w, m) ==
    work' = [work EXCEPT ![w] = IF mission[m] = NoSnapshot THEN NoWork
                                ELSE [m |-> m, v |-> mission[m], cut |-> FALSE]]
RegisterMissionListener ==
    /\ ~isReg /\ isReg' = TRUE
    /\ UNCHANGED <<devices, missions, later, soon, initList, work, src, srcWhy, kv, connection, snapshots, cleaning, left>>
InitGets ==
    \E m \in initList :
       /\ isReg /\ work["InitAllSnapshots"] = NoWork
       /\ \A k \in initList : m <= k
       /\ initList' = initList \ {m}
       /\ Gets("InitAllSnapshots", m)
       /\ UNCHANGED <<devices, missions, isReg, later, soon, src, srcWhy, kv, connection, snapshots, cleaning, left>>
ChangeGets ==
    LET w == "MissionSnapshotChanged" IN
    /\ work[w] = NoWork
    /\ \/ /\ soon # <<>> /\ Head(soon).kind = "changed"
          /\ soon' = Tail(soon) /\ later' = later
          /\ Gets(w, Head(soon).m)
       \/ \E m \in later : later' = later \ {m} /\ soon' = soon /\ Gets(w, m)
    /\ UNCHANGED <<devices, missions, isReg, initList, src, srcWhy, kv, connection, snapshots, cleaning, left>>
Stores(m, v) == src' = [src EXCEPT ![m] = v] /\ unsent' = unsent \union (IF src[m] = v THEN {} ELSE {m})
Cut(w, m) == [x \in Workers |-> IF x = w THEN NoWork
                                ELSE IF work[x].m = m /\ work[x] # NoWork THEN [work[x] EXCEPT !.cut = TRUE] ELSE work[x]]
StoreSnapshotInfo(w) ==
    LET s == work[w] IN
    /\ s # NoWork
    /\ work' = Cut(w, s.m)
    /\ \/ /\ Stores(s.m, s.v)
          /\ srcWhy' = [srcWhy EXCEPT ![s.m] = IF s.cut THEN "crossed" ELSE "none"]
       \/ /\ srcWhy' = [srcWhy EXCEPT ![s.m] = "refused"]
          /\ UNCHANGED <<src, unsent>>
    /\ UNCHANGED <<devices, missions, isReg, later, soon, initList, kvUp, store, changes, connection, snapshots, cleaning, left>>
RemoveSnapshotInfo ==
    LET m == Head(soon).m IN
    /\ work["MissionSnapshotChanged"] = NoWork /\ soon # <<>> /\ Head(soon).kind = "destroyed"
    /\ soon' = Tail(soon)
    /\ work' = Cut("MissionSnapshotChanged", m)
    /\ \/ Stores(m, NoSnapshot) /\ srcWhy' = [srcWhy EXCEPT ![m] = "none"]
       \/ srcWhy' = [srcWhy EXCEPT ![m] = "refused"] /\ UNCHANGED <<src, unsent>>
    /\ UNCHANGED <<devices, missions, isReg, later, initList, kvUp, store, changes, connection, snapshots, cleaning, left>>

-----------------------------------------------------------------------------
(* The key-value service brings entries to the other device, and tells the listener; what   *)
(* changes while none is subscribed is never told.                                             *)
Synchronises ==
    \E K \in SUBSET unsent \ {{}} :
       /\ here # None /\ kvUp
       /\ unsent' = unsent \ K
       /\ store' = [m \in Missions |-> IF m \in K THEN src[m] ELSE store[m]]
       /\ LET batch == [inserts |-> {m \in K : store[m] = NoSnapshot /\ src[m] # NoSnapshot},
                        deletes |-> {m \in K : store[m] # NoSnapshot /\ src[m] = NoSnapshot},
                        updates |-> {m \in K : store[m] # NoSnapshot /\ src[m] # NoSnapshot}]
          IN IF subscribed
             THEN changes' = Append(changes, batch) /\ UNCHANGED snapshots
             ELSE changes' = changes /\ cache' = Marked(K, "deaf") /\ reading' = MarkedReading(K, "deaf")
       /\ UNCHANGED <<devices, source, kvUp, connection, cleaning, left>>

(* A mutant: a change is passed on, and the snapshot in the cache is kept. *)
OnChange_KeepsUpdates ==
    LET b == Head(changes)
        drops == IF GetNetworkIdByUuid = None /\ b.inserts # {} THEN {} ELSE b.deletes IN
    /\ changes # <<>>
    /\ changes' = Tail(changes)
    /\ cache' = Dequeued(drops)
    /\ reading' = MarkedReading(drops, "overlapped")
    /\ UNCHANGED <<devices, source, unsent, kvUp, store, connection, cleaning, left>>

(* DistributedDataChangeListener::OnChange: an insert or an update of a device whose network *)
(* id is not known ends the handling of the whole notification.                                  *)
OnChange ==
    LET b == Head(changes)
        nowhere == GetNetworkIdByUuid = None
        drops == IF nowhere /\ b.inserts # {} THEN {}
                 ELSE IF nowhere THEN b.deletes ELSE b.deletes \union b.updates
        ignores == (b.deletes \union b.updates) \ drops IN
    /\ changes # <<>>
    /\ changes' = Tail(changes)
    /\ cache' = [m \in Missions |-> IF m \in drops THEN Absent ELSE Marked(ignores, "ignored")[m]]
    /\ reading' = [r \in Readers |-> IF reading[r].m \in drops THEN MarkedReading(drops, "overlapped")[r]
                                     ELSE MarkedReading(ignores, "ignored")[r]]
    /\ UNCHANGED <<devices, source, unsent, kvUp, store, connection, cleaning, left>>

(* The service of the other device dies, and the notifications it had yet to make may die  *)
(* with it; its death is reported if it was watched, and it is started again.                 *)
KvDies ==
    /\ Happens("service") /\ kvUp
    /\ kvUp' = FALSE /\ subscribed' = FALSE /\ watched' = FALSE
    /\ kvDied' = (kvDied \/ watched)
    /\ kvStorePtr' = IF kvStorePtr = "live" THEN "dead" ELSE kvStorePtr
    /\ waitTask' = IF waitTask = "watch" THEN "watch dead" ELSE waitTask
    /\ \/ UNCHANGED <<changes, snapshots>>
       \/ LET K == UNION {b.inserts \union b.deletes \union b.updates : b \in Range(changes)} IN
          changes' = <<>> /\ cache' = Marked(K, "deaf") /\ reading' = MarkedReading(K, "deaf")
    /\ UNCHANGED <<devices, source, unsent, store, waitTasks, kvFault, cleaning>>
KvStarts ==
    /\ ~kvUp /\ kvUp' = TRUE
    /\ UNCHANGED <<devices, source, unsent, store, changes, connection, snapshots, cleaning, left>>
OnRemoteDied ==
    /\ kvDied /\ kvDied' = FALSE
    /\ waitTasks' = waitTasks + 1
    /\ UNCHANGED <<devices, source, kv, kvStorePtr, watched, subscribed, waitTask, kvFault, snapshots, cleaning, left>>

(* The task of InitKvDataService: it waits for the service, watches it, gets the store and  *)
(* subscribes; each may fail for good, and the store it has stays when no other is had.         *)
WaitKvDataService ==
    /\ \/ waitTask = "none" /\ waitTasks > 0 /\ waitTasks' = waitTasks - 1 /\ waitTask' = "wait" /\ kvFault' = kvFault
       \/ waitTask = "wait" /\ kvUp /\ waitTask' = "watch" /\ UNCHANGED <<waitTasks, kvFault>>
       \/ waitTask = "wait" /\ ~kvUp /\ waitTask' = "none" /\ kvFault' = "gave up" /\ waitTasks' = waitTasks
    /\ UNCHANGED <<devices, source, kv, kvStorePtr, watched, kvDied, subscribed, snapshots, cleaning, left>>
AddDeathRecipient ==
    /\ waitTask \in {"watch", "watch dead"} /\ waitTask' = "get"
    /\ IF waitTask = "watch" THEN watched' = TRUE /\ kvFault' = kvFault
       ELSE watched' = watched /\ kvFault' = "slipped"
    /\ UNCHANGED <<devices, source, kv, kvStorePtr, kvDied, subscribed, waitTasks, snapshots, cleaning, left>>
TryGetKvStore ==
    /\ waitTask = "get" /\ waitTask' = "subscribe"
    /\ \/ kvUp /\ kvStorePtr' = "live" /\ kvFault' = kvFault
       \/ kvStorePtr' = kvStorePtr /\ kvFault' = IF kvUp THEN "refused" ELSE kvFault
    /\ UNCHANGED <<devices, source, kv, watched, kvDied, subscribed, waitTasks, snapshots, cleaning, left>>
SubscribeKvStore ==
    /\ waitTask = "subscribe" /\ waitTask' = "none"
    /\ \/ kvStorePtr = "live" /\ subscribed' = TRUE /\ kvFault' = kvFault
       \/ subscribed' = subscribed /\ kvFault' = IF kvStorePtr = "live" THEN "refused" ELSE kvFault
    /\ UNCHANGED <<devices, source, kv, kvStorePtr, watched, kvDied, waitTasks, snapshots, cleaning, left>>

-----------------------------------------------------------------------------
(* Reading a snapshot: out of the cache, or of the store; the handler of the call puts it   *)
(* (back) into the cache when it has answered, with times that are zero, so that it replaces     *)
(* any that came in between, and the first in the order of keys makes room.                         *)
GetRemoteMissionSnapshotInfo(r) ==
    \E n \in NetIds, m \in Missions :
       LET uuid == GetUuidByNetworkId(n) IN
       /\ Happens("application") /\ reading[r] = NotReading
       /\ IF uuid = NoUuid THEN UNCHANGED snapshots
          ELSE IF cache[m] # Absent
          THEN /\ reading' = [reading EXCEPT ![r] = [m |-> m, n |-> n, snapshot |-> cache[m]]]
               /\ cache' = Dequeued({m})
          ELSE /\ reading' = IF kvStorePtr = "live" /\ store[m] # NoSnapshot
                             THEN [reading EXCEPT ![r] = [m |-> m, n |-> n, snapshot |-> Snapshot(store[m], "none")]]
                             ELSE reading
               /\ cache' = cache
       /\ UNCHANGED <<devices, source, kv, connection, cleaning>>
EnqueueCachedSnapshotInfo(r) ==
    LET c == reading[r]
        full == Cardinality(InCache) = MAX_CACHED_ITEM
        room == IF full THEN Dequeued({m \in InCache : \A k \in InCache : m <= k}) ELSE cache IN
    /\ c # NotReading
    /\ cache' = IF SoftbusUuid(c.n) = NoUuid THEN cache ELSE [room EXCEPT ![c.m] = c.snapshot]
    /\ reading' = [reading EXCEPT ![r] = NotReading]
    /\ UNCHANGED <<devices, source, kv, connection, cleaning, left>>

-----------------------------------------------------------------------------
(* Applications listen to the device and stop; a stop, or the leave of a device that was   *)
(* listened to, clears the cache and has the data of the device deleted some time later, unless  *)
(* it comes back or is listened to again: the task is found by the uuid.                            *)
DeleteTask(n, by) == [name |-> GetUuidByNetworkId(n), id |-> n, by |-> by]
(* A mutant: the task is found by the network id, which is another when the device returns. *)
RemoveTask_ByNetworkId(n) == deleteTasks' = {t \in deleteTasks : t.id # n}
RemoveTask(n) == deleteTasks' = {t \in deleteTasks : t.name # GetUuidByNetworkId(n)}
RegisterListener ==
    \E n \in NetIds :
       /\ Happens("application") /\ listened' = listened \union {n} /\ RemoveTask(n)
       /\ UNCHANGED <<devices, source, kv, connection, snapshots, lost>>
UnRegisterListener ==
    \E n \in listened :
       /\ Happens("application") /\ listened' = listened \ {n}
       /\ UNCHANGED <<devices, source, kv, connection, snapshots, deleteTasks, lost>>
StopsSync(n, by) ==
    /\ IF GetUuidByNetworkId(n) = NoUuid THEN cache' = cache
       ELSE cache' = Dequeued(Missions)
    /\ reading' = reading
    /\ deleteTasks' = deleteTasks \union {DeleteTask(n, by)}
StopSyncRemoteMissions ==
    \E n \in NetIds :
       /\ Happens("application") /\ StopsSync(n, "stop")
       /\ UNCHANGED <<devices, source, kv, connection, listened, lost>>

(* DeviceOnlineNotify and DeviceOfflineNotify, in the handling of a report of softbus. *)
DeviceOnlineNotify ==
    /\ node = "notify"
    /\ RemoveTask(Reporting)
    /\ NodeNotified
    /\ UNCHANGED <<softbus, linking, storage, source, kv, connection, snapshots, listened, lost, left>>
CleanMissionResources ==
    /\ Handles("offline")
    /\ listened' = listened \ {Reporting}
    /\ node' = IF Reporting \in listened THEN "stop" ELSE "left"
    /\ UNCHANGED <<softbus, linking, tasks, storage, source, kv, connection, snapshots, deleteTasks, lost, left>>
DeviceOfflineNotify ==
    /\ node = "stop" /\ node' = "left"
    /\ StopsSync(Reporting, "offline")
    /\ UNCHANGED <<softbus, linking, tasks, storage, source, kv, connection, listened, lost, left>>

Reason(t) == IF t.by = "stop" THEN "stop" ELSE IF NoUuid \in {t.name, GetUuidByNetworkId(here)} THEN "unresolved"
             ELSE IF tasks # <<>> THEN "unhandled" ELSE t.by
(* The deletion (FuzzyDelete), if the store is there and knows the device; the service then *)
(* takes no entry of the device to have been brought over.  A snapshot that was read since the    *)
(* stop stays in the cache.                                                                          *)
FuzzyDelete ==
    \E t \in deleteTasks :
       /\ deleteTasks' = deleteTasks \ {t}
       /\ IF kvStorePtr = "live" /\ t.id \in known
          THEN /\ store' = [m \in Missions |-> NoSnapshot]
               /\ unsent' = unsent \union {m \in Missions : src[m] # NoSnapshot}
               /\ cache' = Marked(Missions, "kept") /\ reading' = MarkedReading(Missions, "kept")
               /\ lost' = IF here \in listened THEN lost \union {Reason(t)} ELSE lost
          ELSE UNCHANGED <<store, unsent, snapshots, lost>>
       /\ UNCHANGED <<devices, source, kvUp, changes, connection, listened, left>>

-----------------------------------------------------------------------------
OnDevices(A) == A /\ UNCHANGED <<source, kv, connection, snapshots, cleaning>>
SoftbusSteps == Joins \/ Leaves \/ Forgets
DeviceSteps == SoftbusStarts \/ ConnectSoftbus \/ AddDeviceChangeListener \/ NodeOnline \/ NodeOfflineEnds

SourceSteps ==
    \/ NotifyMissionSnapshotCreated \/ NotifyMissionSnapshotChanged \/ NotifyMissionSnapshotDestroyed
    \/ RegisterMissionListener \/ InitGets \/ ChangeGets \/ RemoveSnapshotInfo
    \/ \E w \in Workers : StoreSnapshotInfo(w)
KvSteps ==
    \/ Synchronises \/ OnChange \/ KvDies \/ KvStarts \/ OnRemoteDied
    \/ WaitKvDataService \/ AddDeathRecipient \/ TryGetKvStore \/ SubscribeKvStore
ClientSteps ==
    \/ \E r \in Readers : GetRemoteMissionSnapshotInfo(r) \/ EnqueueCachedSnapshotInfo(r)
    \/ RegisterListener \/ UnRegisterListener \/ StopSyncRemoteMissions
    \/ DeviceOnlineNotify \/ CleanMissionResources \/ DeviceOfflineNotify \/ FuzzyDelete

Next ==
    \/ OnDevices(SoftbusSteps) /\ Happens("device")
    \/ OnDevices(DeviceSteps) /\ UNCHANGED left
    \/ SourceSteps \/ KvSteps \/ ClientSteps
Spec == Init /\ [][Next]_vars

-----------------------------------------------------------------------------
TypeOK ==
    /\ DevicesTypeOK
    /\ mission \in [Missions -> Versions \union {NoSnapshot}] /\ newest \in Versions
    /\ later \union initList \subseteq Missions /\ isReg \in BOOLEAN
    /\ src \in [Missions -> Versions \union {NoSnapshot}] /\ store \in [Missions -> Versions \union {NoSnapshot}]
    /\ unsent \subseteq Missions
    /\ kvStorePtr \in {"none", "live", "dead"}
    /\ {kvUp, watched, kvDied, subscribed} \subseteq BOOLEAN /\ waitTasks \in Nat
    /\ Cardinality(InCache) <= MAX_CACHED_ITEM
    /\ listened \subseteq NetIds

(* All that was under way is done. *)
StorageSettled == kvUp /\ ~kvDied /\ waitTasks = 0 /\ waitTask = "none"
DevicesSettled == tasks = <<>> /\ link \in {"registered", "gave up"}
SourceSettled ==
    isReg /\ initList = {} /\ later = {} /\ soon = <<>> /\ \A w \in Workers : work[w] = NoWork
SnapshotsSettled ==
    /\ SourceSettled /\ StorageSettled /\ unsent = {} /\ changes = <<>>
    /\ \A r \in Readers : reading[r] = NotReading

(* Once all is done, what an application would get for a mission is its last snapshot, and  *)
(* nothing for a mission that has ended.  The exceptions, each of one mission: it began before   *)
(* the source listened (missed), its snapshot was stored by two handlers at once (crossed), or     *)
(* could not be stored (refused); and the one in the cache was put back by a reader after a          *)
(* notification of its change (overlapped), changed with no listener subscribed (deaf), or in a        *)
(* notification that was not handled as the device was unknown (ignored), or was read between a           *)
(* stop and the deletion, after which the next change is an insert (kept).                                  *)
SnapshotFresh ==
    SnapshotsSettled =>
        \A m \in Missions :
            \/ mission[m] = IF cache[m] # Absent THEN cache[m].v ELSE store[m]
            \/ srcWhy[m] # "none"
            \/ cache[m].why # "none"

(* Once all is done, the network id of the device is the one it has, it is known exactly    *)
(* while it is here, and the storage is connected to the service that runs; the data of a         *)
(* device that is here and listened to was not deleted.  The exceptions: the service gave up or      *)
(* refused, or died before it was watched (slipped); softbus had forgotten the uuid of an entry that   *)
(* was to be set or erased, so that it or the task of the deletion stays (unresolved); the device had    *)
(* a stop that left listeners (stop), or a return not handled as the deletion ran (unhandled).              *)
DeviceTracked ==
    /\ TypeOK
    /\ DevicesSettled /\ link = "registered" =>
          /\ remoteDevices = {here} \ {None}
          /\ unresolved \/ uuidNetworkIdMap[Uuid] = here
    /\ StorageSettled => (kvStorePtr = "live" /\ watched /\ subscribed) \/ kvFault # "none"
    /\ lost \subseteq {"stop", "unresolved", "unhandled"}
=============================================================================
