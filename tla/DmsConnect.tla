------------------------------ MODULE DmsConnect ------------------------------
(***************************************************************************)
(* Remote connection ("bind") of abilities.                                *)
(*                                                                         *)
(* One device, the caller side, whose applications bind abilities that run *)
(* on the remote Devices.  An application names a connection by a callback *)
(* object, its "connect".  The caller's service keeps, per connect, the    *)
(* remote devices it has a session with, and a connect counter per uid; it *)
(* calls the remote service synchronously.  The remote service wraps the   *)
(* callback, binds the wrapper with its local ability manager (AMS) and    *)
(* records it.  IPC threads of the caller (Threads) run these calls        *)
(* concurrently; process deaths and device losses are handled, one at a    *)
(* time, by the thread of dmsAdapterHandler (Handler).                     *)
(*                                                                         *)
(* What is one step here is one critical section, one remote message or    *)
(* one call of the AMS in the code.                                        *)
(***************************************************************************)
EXTENDS Integers, Sequences, FiniteSets

CONSTANTS
    Devices,       \* remote devices
    Connects,      \* callback objects of the applications
    Processes,     \* application processes (a uid and a pid)
    Uids,
    Owner,         \* the process a connect belongs to
    UidOf,         \* the uid of a process
    Threads,       \* IPC threads of the caller's service
    Handler,       \* the thread of dmsAdapterHandler
    None,          \* no connect, no device
    MaxConnect,    \* MAX_DISTRIBUTED_CONNECT_NUM
    RetryTimes,    \* BIND_CONNECT_RETRY_TIMES
    MaxWrappers,   \* bound: wrappers of one connect alive at a time on a device
    MaxDowns,      \* bound: how often a device goes offline
    MaxDeaths,     \* bound: how many processes die
    Serial,        \* an application uses a connect in one call at a time
    RpcTimeouts    \* a remote call may time out although the device is online

ASSUME ConnectAssumption ==
    /\ IsFiniteSet(Connects)
    /\ IsFiniteSet(Threads)
    /\ Owner \in [Connects -> Processes]
    /\ UidOf \in [Processes -> Uids]
    /\ Handler \notin Threads
    /\ None \notin Connects \cup Devices
    /\ MaxConnect \in Nat \ {0}
    /\ RetryTimes \in Nat \ {0}
    /\ MaxWrappers \in Nat
    /\ MaxDowns \in Nat
    /\ MaxDeaths \in Nat
    /\ Serial \in BOOLEAN
    /\ RpcTimeouts \in BOOLEAN

VARIABLES
    online,                        \* device -> the device is reachable
    alive,                         \* process -> the process runs
    distributedConnectAbilityMap,  \* connect -> devices it has a session with
    trackingUidMap,                \* uid -> number of connects
    deathRecipients,               \* connects that connectDeathRecipient_ watches
    dmsAdapterHandler,             \* tasks posted to the handler, in order
    act,                           \* what a thread of the caller is doing
    job,                           \* the remote handler that serves the thread's call
    connectAbilityMap,             \* device -> connect -> recorded wrapper, 0 if none
    amsConnections,                \* device -> <<connect, wrapper>> bound with the AMS
    remoteOfflineTask,             \* device -> it has still to handle losing the caller
    callerReports,                 \* uid -> components added minus removed, as reported
    calleeReports,                 \* device -> the same, for the callee side
    downs,                         \* how often a device went offline so far
    raced                          \* <<connect, device>> being connected when the device was lost

callerVars == <<distributedConnectAbilityMap, trackingUidMap, deathRecipients, callerReports>>
calleeVars == <<connectAbilityMap, amsConnections, calleeReports>>
worldVars  == <<online, alive, remoteOfflineTask, downs, raced>>
vars == <<callerVars, calleeVars, worldVars, dmsAdapterHandler, act, job>>

-----------------------------------------------------------------------------
(* Types and small helpers. *)

Actors == Threads \cup {Handler}
Wrappers == 1..MaxWrappers
Uid(c) == UidOf[Owner[c]]

Activity == [op    : {"idle", "connect", "disconnect", "notify"},
             c     : Connects \cup {None},
             todo  : SUBSET Devices,
             tries : 0..RetryTimes]
Idle == [op |-> "idle", c |-> None, todo |-> {}, tries |-> 0]

Job == [st      : {"none", "arrived", "found", "bound", "erased", "replied"},
        kind    : {"none", "connect", "disconnect", "died"},
        c       : Connects \cup {None},
        d       : Devices \cup {None},
        w       : 0..MaxWrappers,
        seen    : BOOLEAN,
        ok      : BOOLEAN,
        awaited : BOOLEAN]
NoJob == [st |-> "none", kind |-> "none", c |-> None, d |-> None, w |-> 0,
          seen |-> FALSE, ok |-> FALSE, awaited |-> FALSE]
Call(kind, c, d) == [st |-> "arrived", kind |-> kind, c |-> c, d |-> d, w |-> 0,
                     seen |-> FALSE, ok |-> FALSE, awaited |-> TRUE]

OfflineTask(d) == [kind |-> "offline", of |-> d]
DiedTask(c)    == [kind |-> "died", of |-> c]
Tasks == [kind : {"offline"}, of : Devices] \cup [kind : {"died"}, of : Connects]

Registered == {c \in Connects : distributedConnectAbilityMap[c] # {}}
OfUid(C, u) == {c \in C : Uid(c) = u}
ConnectsOf(p) == {c \in Connects : Owner[c] = p}

(* DecreaseConnectLocked, called n times for a uid that has count connects. *)
DecreaseConnectLocked(count, n) == IF n <= count THEN count - n ELSE 0

(* EventHandler::RemoveTask: drop the pending task, if there is one. *)
RemoveTask(queue, task) ==
    IF \E i \in 1..Len(queue) : queue[i] = task
    THEN LET i == CHOOSE i \in 1..Len(queue) : queue[i] = task
         IN  SubSeq(queue, 1, i - 1) \o SubSeq(queue, i + 1, Len(queue))
    ELSE queue

(* A wrapper no one holds: neither recorded, nor bound, nor in a handler's hands. *)
FreshWrappers(c, d) ==
    {w \in Wrappers : /\ connectAbilityMap[d][c] # w
                      /\ <<c, w>> \notin amsConnections[d]
                      /\ \A a \in Actors : ~ (job[a].c = c /\ job[a].d = d /\ job[a].w = w)}

Recorded(d) == {c \in Connects : connectAbilityMap[d][c] # 0}

(* The caller's processes and links are as they were. *)
WorldUnchanged == UNCHANGED worldVars

Init ==
    /\ online = [d \in Devices |-> TRUE]
    /\ alive = [p \in Processes |-> TRUE]
    /\ distributedConnectAbilityMap = [c \in Connects |-> {}]
    /\ trackingUidMap = [u \in Uids |-> 0]
    /\ deathRecipients = {}
    /\ dmsAdapterHandler = << >>
    /\ act = [a \in Actors |-> Idle]
    /\ job = [a \in Actors |-> NoJob]
    /\ connectAbilityMap = [d \in Devices |-> [c \in Connects |-> 0]]
    /\ amsConnections = [d \in Devices |-> {}]
    /\ remoteOfflineTask = [d \in Devices |-> FALSE]
    /\ callerReports = [u \in Uids |-> 0]
    /\ calleeReports = [d \in Devices |-> 0]
    /\ downs = 0
    /\ raced = {}

-----------------------------------------------------------------------------
(* The caller's side: connecting. *)

InUse(c) == \E t \in Threads : act[t].op # "idle" /\ act[t].c = c
MayCall(t, c) ==
    /\ act[t].op = "idle"
    /\ alive[Owner[c]]
    /\ Serial => ~InUse(c)

(* CheckDistributedConnectLocked; off by one, it would let one connect too many in. *)
CheckDistributedConnectLocked_OffByOne(u) == trackingUidMap[u] <= MaxConnect
CheckDistributedConnectLocked(u) == trackingUidMap[u] < MaxConnect

(* ConnectRemoteAbility up to the first remote call: the limit is checked under *)
(* distributedLock_, which is then released for the rest of the call.           *)
ConnectRemoteAbility(t, c, d) ==
    /\ MayCall(t, c)
    /\ CheckDistributedConnectLocked(Uid(c))
    /\ online[d]
    /\ act' = [act EXCEPT ![t] = [op |-> "connect", c |-> c, todo |-> {d}, tries |-> RetryTimes]]
    /\ UNCHANGED <<callerVars, calleeVars, dmsAdapterHandler, job>> /\ WorldUnchanged

(* The loop of TryConnectRemoteAbility. *)
TriesLeft(t) == act[t].tries > 0

(* TryConnectRemoteAbility sends a request. *)
SendConnect(t) ==
    /\ act[t].op = "connect" /\ TriesLeft(t) /\ job[t].st = "none"
    /\ \E d \in act[t].todo :
          /\ online[d]
          /\ job' = [job EXCEPT ![t] = Call("connect", act[t].c, d)]
    /\ act' = [act EXCEPT ![t].tries = @ - 1]
    /\ UNCHANGED <<callerVars, calleeVars, dmsAdapterHandler>> /\ WorldUnchanged

(* The request does not get through: SendRequest fails at once. *)
SendConnectFails(t) ==
    /\ act[t].op = "connect" /\ TriesLeft(t) /\ job[t].st = "none"
    /\ \E d \in act[t].todo : ~online[d]
    /\ act' = [act EXCEPT ![t].tries = @ - 1]
    /\ UNCHANGED <<callerVars, calleeVars, dmsAdapterHandler, job>> /\ WorldUnchanged

(* RemoteConnectAbilityMappingLocked, counting each session instead of each *)
(* connect, and watching only the first connect of a uid.                   *)
MappingLocked_CountsSessions(c, d) ==
    /\ trackingUidMap' = [trackingUidMap EXCEPT ![Uid(c)] = @ + 1]
    /\ deathRecipients' = deathRecipients \cup {c}
    /\ callerReports' = [callerReports EXCEPT ![Uid(c)] = @ + 1]
    /\ distributedConnectAbilityMap' = [distributedConnectAbilityMap EXCEPT ![c] = @ \cup {d}]
MappingLocked_WatchesFirst(c, d) ==
    /\ trackingUidMap' = [trackingUidMap EXCEPT ![Uid(c)] = @ + IF c \in Registered THEN 0 ELSE 1]
    /\ deathRecipients' = deathRecipients \cup (IF trackingUidMap[Uid(c)] = 0 THEN {c} ELSE {})
    /\ callerReports' = [callerReports EXCEPT ![Uid(c)] = @ + IF c \in Registered THEN 0 ELSE 1]
    /\ distributedConnectAbilityMap' = [distributedConnectAbilityMap EXCEPT ![c] = @ \cup {d}]

(* RemoteConnectAbilityMappingLocked. *)
RemoteConnectAbilityMappingLocked(c, d) ==
    /\ IF distributedConnectAbilityMap[c] = {}
       THEN /\ trackingUidMap' = [trackingUidMap EXCEPT ![Uid(c)] = @ + 1]
            /\ deathRecipients' = deathRecipients \cup {c}
            /\ callerReports' = [callerReports EXCEPT ![Uid(c)] = @ + 1]
       ELSE UNCHANGED <<trackingUidMap, deathRecipients, callerReports>>
    /\ distributedConnectAbilityMap' = [distributedConnectAbilityMap EXCEPT ![c] = @ \cup {d}]

(* The reply is ERR_OK: the connect is recorded and the call returns. *)
ConnectSucceeds(t) ==
    /\ act[t].op = "connect" /\ job[t].st = "replied" /\ job[t].awaited /\ job[t].ok
    /\ RemoteConnectAbilityMappingLocked(job[t].c, job[t].d)
    /\ act' = [act EXCEPT ![t] = Idle]
    /\ job' = [job EXCEPT ![t] = NoJob]
    /\ UNCHANGED <<calleeVars, dmsAdapterHandler>> /\ WorldUnchanged

(* The reply is an error: the loop goes on. *)
ConnectRefused(t) ==
    /\ act[t].op = "connect" /\ job[t].st = "replied" /\ job[t].awaited /\ ~job[t].ok
    /\ job' = [job EXCEPT ![t] = NoJob]
    /\ UNCHANGED <<callerVars, calleeVars, dmsAdapterHandler, act>> /\ WorldUnchanged

(* The loop ends without success: no try is left, or the last try failed *)
(* after more than BIND_CONNECT_TIMEOUT.                                  *)
ConnectGivesUp(t) ==
    /\ act[t].op = "connect" /\ ~job[t].awaited /\ act[t].tries < RetryTimes
    /\ act' = [act EXCEPT ![t] = Idle]
    /\ UNCHANGED <<callerVars, calleeVars, dmsAdapterHandler, job>> /\ WorldUnchanged

-----------------------------------------------------------------------------
(* The caller's side: disconnecting, and the calls of the handler thread. *)

(* Forget the connects in C, reporting one removal for all of them. *)
EraseConnects_OneReport(C) ==
    /\ trackingUidMap' = [u \in Uids |->
          DecreaseConnectLocked(trackingUidMap[u], Cardinality(OfUid(C, u)))]
    /\ deathRecipients' = deathRecipients \ C
    /\ callerReports' = [u \in Uids |->
          callerReports[u] - IF OfUid(C, u) # {} THEN 1 ELSE 0]

(* Forget the connects in C: each counts, is watched and is reported by itself. *)
EraseConnects(C) ==
    /\ trackingUidMap' = [u \in Uids |->
          DecreaseConnectLocked(trackingUidMap[u], Cardinality(OfUid(C, u)))]
    /\ deathRecipients' = deathRecipients \ C
    /\ callerReports' = [u \in Uids |->
          callerReports[u] - Cardinality(OfUid(C, u))]

(* DisconnectRemoteAbility up to the release of distributedLock_. *)
DisconnectRemoteAbility(t, c) ==
    /\ MayCall(t, c)
    /\ c \in Registered
    /\ EraseConnects({c})
    /\ distributedConnectAbilityMap' = [distributedConnectAbilityMap EXCEPT ![c] = {}]
    /\ act' = [act EXCEPT ![t] = [op |-> "disconnect", c |-> c, tries |-> 0,
                                  todo |-> distributedConnectAbilityMap[c]]]
    /\ UNCHANGED <<calleeVars, dmsAdapterHandler, job>> /\ WorldUnchanged

(* DisconnectEachRemoteAbilityLocked, NotifyProcessDied: call the next device. *)
CallNextDevice(a) ==
    /\ act[a].op \in {"disconnect", "notify"} /\ job[a].st = "none"
    /\ \E d \in act[a].todo :
          /\ online[d]
          /\ job' = [job EXCEPT ![a] =
                Call(IF act[a].op = "notify" THEN "died" ELSE "disconnect", act[a].c, d)]
    /\ UNCHANGED <<callerVars, calleeVars, dmsAdapterHandler, act>> /\ WorldUnchanged

(* GetRemoteDms finds no service on a device that is offline: it is passed over. *)
SkipOfflineDevice(a) ==
    /\ act[a].op \in {"disconnect", "notify"} /\ ~job[a].awaited
    /\ \E d \in act[a].todo :
          /\ ~online[d]
          /\ act' = [act EXCEPT ![a].todo = @ \ {d}]
    /\ UNCHANGED <<callerVars, calleeVars, dmsAdapterHandler, job>> /\ WorldUnchanged

(* The device answered, whatever it answered. *)
CallReturns(a) ==
    /\ act[a].op \in {"disconnect", "notify"} /\ job[a].st = "replied" /\ job[a].awaited
    /\ act' = [act EXCEPT ![a].todo = @ \ {job[a].d}]
    /\ job' = [job EXCEPT ![a] = NoJob]
    /\ UNCHANGED <<callerVars, calleeVars, dmsAdapterHandler>> /\ WorldUnchanged

CallsDone(a) ==
    /\ act[a].op \in {"disconnect", "notify"} /\ act[a].todo = {}
    /\ act' = [act EXCEPT ![a] = Idle]
    /\ UNCHANGED <<callerVars, calleeVars, dmsAdapterHandler, job>> /\ WorldUnchanged

(* What is left of the handler of a's call, and of the call, when the call fails: *)
(* the handler runs on and its reply is for no one; a device that was to be told  *)
(* is passed over, and a timed out connect, which took more than                  *)
(* BIND_CONNECT_TIMEOUT, is not retried.                                          *)
Unawaited(j) ==
    [st |-> j.st, kind |-> j.kind, c |-> j.c, d |-> j.d, w |-> j.w,
     seen |-> j.seen, ok |-> j.ok, awaited |-> FALSE]
Abandoned(a) == IF job[a].st = "replied" THEN NoJob ELSE Unawaited(job[a])
AfterFailure(a) ==
    CASE act[a].op # "connect" -> [act[a] EXCEPT !.todo = @ \ {job[a].d}]
      [] ~online[job[a].d]     -> act[a]
      [] OTHER                 -> Idle

(* A remote call fails under way: the device is lost or, with RpcTimeouts, the *)
(* call takes too long.                                                        *)
RemoteCallFails(a) ==
    /\ job[a].awaited
    /\ ~online[job[a].d] \/ RpcTimeouts
    /\ job' = [job EXCEPT ![a] = Abandoned(a)]
    /\ act' = [act EXCEPT ![a] = AfterFailure(a)]
    /\ UNCHANGED <<callerVars, calleeVars, dmsAdapterHandler>> /\ WorldUnchanged

-----------------------------------------------------------------------------
(* The callee's side: one job is one run of a remote handler. *)

Advance(a, upd) == job' = [job EXCEPT ![a] = upd]

(* The handler of a's call at a later point, with what it has in hand. *)
At(a, st, w, seen, ok) ==
    [st |-> st, kind |-> job[a].kind, c |-> job[a].c, d |-> job[a].d, w |-> w,
     seen |-> seen, ok |-> ok, awaited |-> job[a].awaited]

(* A handler that is done: its reply goes to the caller, if that still waits. *)
Done(a, ok) == IF job[a].awaited THEN At(a, "replied", 0, FALSE, ok) ELSE NoJob

(* ConnectAbilityFromRemote denies the request: CheckDPermission. *)
CheckDPermissionDenies(a) ==
    /\ job[a].st = "arrived" /\ job[a].kind = "connect"
    /\ Advance(a, Done(a, FALSE))
    /\ UNCHANGED <<callerVars, calleeVars, dmsAdapterHandler, act>> /\ WorldUnchanged

(* Its first critical section, wrapping anew whatever is recorded ... *)
ConnectAbilityFromRemoteFinds_Rewraps(a) ==
    /\ job[a].st = "arrived" /\ job[a].kind = "connect"
    /\ \E w \in FreshWrappers(job[a].c, job[a].d) :
          Advance(a, At(a, "found", w, job[a].c \in Recorded(job[a].d), FALSE))
    /\ UNCHANGED <<callerVars, calleeVars, dmsAdapterHandler, act>> /\ WorldUnchanged

(* ... and as it is: the recorded wrapper, or a new one. *)
ConnectAbilityFromRemoteFinds(a) ==
    LET c == job[a].c
        d == job[a].d
    IN  /\ job[a].st = "arrived" /\ job[a].kind = "connect"
        /\ IF c \in Recorded(d)
           THEN Advance(a, At(a, "found", connectAbilityMap[d][c], TRUE, FALSE))
           ELSE /\ FreshWrappers(c, d) # {}
                /\ Advance(a, At(a, "found", CHOOSE w \in FreshWrappers(c, d) : TRUE, FALSE, FALSE))
        /\ UNCHANGED <<callerVars, calleeVars, dmsAdapterHandler, act>> /\ WorldUnchanged

(* The AMS binds the wrapper (DistributedSchedAdapter::ConnectAbility) ... *)
AmsConnectAbility(a) ==
    /\ job[a].st = "found"
    /\ amsConnections' = [amsConnections EXCEPT ![job[a].d] = @ \cup {<<job[a].c, job[a].w>>}]
    /\ Advance(a, At(a, "bound", job[a].w, job[a].seen, FALSE))
    /\ UNCHANGED <<callerVars, connectAbilityMap, calleeReports, dmsAdapterHandler, act>>
    /\ WorldUnchanged

(* ... or refuses to. *)
AmsRefuses(a) ==
    /\ job[a].st = "found"
    /\ Advance(a, Done(a, FALSE))
    /\ UNCHANGED <<callerVars, calleeVars, dmsAdapterHandler, act>> /\ WorldUnchanged

(* Its second critical section, if it looked the connect up once more ... *)
ConnectAbilityFromRemoteRecords_LooksUp(a) ==
    LET c == job[a].c
        d == job[a].d
    IN  /\ job[a].st = "bound"
        /\ IF c \in Recorded(d)
           THEN UNCHANGED <<connectAbilityMap, calleeReports>>
           ELSE /\ calleeReports' = [calleeReports EXCEPT ![d] = @ + 1]
                /\ connectAbilityMap' = [connectAbilityMap EXCEPT ![d][c] = job[a].w]
        /\ Advance(a, Done(a, TRUE))
        /\ UNCHANGED <<callerVars, amsConnections, dmsAdapterHandler, act>> /\ WorldUnchanged

(* ... if it reported every connect ... *)
ConnectAbilityFromRemoteRecords_Reports(a) ==
    LET c == job[a].c
        d == job[a].d
    IN  /\ job[a].st = "bound"
        /\ calleeReports' = [calleeReports EXCEPT ![d] = @ + 1]
        /\ connectAbilityMap' = [connectAbilityMap EXCEPT ![d][c] = IF @ = 0 THEN job[a].w ELSE @]
        /\ Advance(a, Done(a, TRUE))
        /\ UNCHANGED <<callerVars, amsConnections, dmsAdapterHandler, act>> /\ WorldUnchanged

(* ... and as it is.  What decides is itConnect, found in the first section: if *)
(* the connect was recorded then, nothing is recorded now; if it was not, the   *)
(* addition is reported and emplace keeps an entry that is there.               *)
ConnectAbilityFromRemoteRecords(a) ==
    LET c == job[a].c
        d == job[a].d
    IN  /\ job[a].st = "bound"
        /\ IF job[a].seen
           THEN UNCHANGED <<connectAbilityMap, calleeReports>>
           ELSE /\ calleeReports' = [calleeReports EXCEPT ![d] = @ + 1]
                /\ connectAbilityMap' = [connectAbilityMap EXCEPT ![d][c] =
                      IF @ = 0 THEN job[a].w ELSE @]
        /\ Advance(a, Done(a, TRUE))
        /\ UNCHANGED <<callerVars, amsConnections, dmsAdapterHandler, act>> /\ WorldUnchanged

(* DisconnectAbilityFromRemote under connectLock_: forget the wrapper. *)
DisconnectAbilityFromRemote(a) ==
    LET c == job[a].c
        d == job[a].d
    IN  /\ job[a].st = "arrived" /\ job[a].kind = "disconnect"
        /\ IF c \in Recorded(d)
           THEN /\ Advance(a, At(a, "erased", connectAbilityMap[d][c], FALSE, FALSE))
                /\ connectAbilityMap' = [connectAbilityMap EXCEPT ![d][c] = 0]
                /\ calleeReports' = [calleeReports EXCEPT ![d] = @ - 1]
           ELSE /\ Advance(a, Done(a, FALSE))
                /\ UNCHANGED <<connectAbilityMap, calleeReports>>
        /\ UNCHANGED <<callerVars, amsConnections, dmsAdapterHandler, act>> /\ WorldUnchanged

(* The AMS unbinds it (DistributedSchedAdapter::DisconnectAbility), unlocked. *)
AmsDisconnectAbility(a) ==
    /\ job[a].st = "erased"
    /\ amsConnections' = [amsConnections EXCEPT ![job[a].d] = @ \ {<<job[a].c, job[a].w>>}]
    /\ Advance(a, Done(a, TRUE))
    /\ UNCHANGED <<callerVars, connectAbilityMap, calleeReports, dmsAdapterHandler, act>>
    /\ WorldUnchanged

(* Device d forgets and unbinds the connects in C, all under connectLock_. *)
EraseOnDevice(d, C) ==
    /\ connectAbilityMap' = [connectAbilityMap EXCEPT ![d] =
          [c \in Connects |-> IF c \in C THEN 0 ELSE @[c]]]
    /\ amsConnections' = [amsConnections EXCEPT ![d] =
          @ \ {<<c, connectAbilityMap[d][c]>> : c \in C}]
    /\ calleeReports' = [calleeReports EXCEPT ![d] = @ - Cardinality(C \cap Recorded(d))]

(* The connects of c's caller, told by uid, pid, device and type (IsSameCaller). *)
SameCaller(c) == ConnectsOf(Owner[c])

(* NotifyProcessDiedFromRemote: all connects of the caller that died. *)
NotifyProcessDiedFromRemote(a) ==
    /\ job[a].st = "arrived" /\ job[a].kind = "died"
    /\ EraseOnDevice(job[a].d, SameCaller(job[a].c))
    /\ Advance(a, Done(a, TRUE))
    /\ UNCHANGED <<callerVars, dmsAdapterHandler, act>> /\ WorldUnchanged

(* The device's own ProcessDeviceOffline, for the loss of the caller. *)
RemoteProcessDeviceOffline(d) ==
    /\ remoteOfflineTask[d]
    /\ remoteOfflineTask' = [remoteOfflineTask EXCEPT ![d] = FALSE]
    /\ EraseOnDevice(d, Connects)
    /\ UNCHANGED <<callerVars, dmsAdapterHandler, act, job, online, alive, downs, raced>>

-----------------------------------------------------------------------------
(* The caller's dmsAdapterHandler. *)

NextTask(task) == act[Handler].op = "idle" /\ dmsAdapterHandler # << >> /\ Head(dmsAdapterHandler) = task

(* The connects that have a session with d: all of them, or all but one if the *)
(* iteration steps over the connect after one it erased.                       *)
ConnectedTo_StepsOver(d) ==
    {c \in Connects : /\ d \in distributedConnectAbilityMap[c]
                      /\ c = CHOOSE x \in Connects : d \in distributedConnectAbilityMap[x]}
ConnectedTo(d) == {c \in Connects : d \in distributedConnectAbilityMap[c]}

(* ProcessDeviceOffline: every session with d is dropped, and with its last *)
(* session a connect.                                                       *)
ProcessDeviceOffline(d) ==
    /\ NextTask(OfflineTask(d))
    /\ dmsAdapterHandler' = Tail(dmsAdapterHandler)
    /\ EraseConnects({c \in ConnectedTo(d) : distributedConnectAbilityMap[c] = {d}})
    /\ distributedConnectAbilityMap' = [c \in Connects |->
          IF c \in ConnectedTo(d) THEN distributedConnectAbilityMap[c] \ {d}
                                  ELSE distributedConnectAbilityMap[c]]
    /\ UNCHANGED <<calleeVars, act, job>> /\ WorldUnchanged

(* The devices to tell of the death of c's caller, given its connects; with *)
(* _OfFirst, those of c itself only.                                        *)
DevicesToTell_OfFirst(c, dead) == distributedConnectAbilityMap[c]
DevicesToTell(c, dead) == UNION {distributedConnectAbilityMap[x] : x \in dead}

(* ProcessConnectDied: unless the connect is gone already, all connects of its *)
(* process are dropped and every device they had a session with is told, once. *)
ProcessConnectDied(c) ==
    LET dead == SameCaller(c) \cap Registered
    IN  /\ NextTask(DiedTask(c))
        /\ dmsAdapterHandler' = Tail(dmsAdapterHandler)
        /\ IF c \in Registered
           THEN /\ EraseConnects(dead)
                /\ distributedConnectAbilityMap' = [x \in Connects |->
                      IF x \in dead THEN {} ELSE distributedConnectAbilityMap[x]]
                /\ act' = [act EXCEPT ![Handler] = [op |-> "notify", c |-> c, tries |-> 0,
                      todo |-> DevicesToTell(c, dead)]]
           ELSE UNCHANGED <<callerVars, act>>
        /\ UNCHANGED <<calleeVars, job>> /\ WorldUnchanged

-----------------------------------------------------------------------------
(* The world: processes die, devices come and go. *)

ProcessDies(p) ==
    /\ alive[p]
    /\ Cardinality({q \in Processes : ~alive[q]}) < MaxDeaths
    /\ alive' = [alive EXCEPT ![p] = FALSE]
    /\ UNCHANGED <<callerVars, calleeVars, dmsAdapterHandler, act, job,
                   online, remoteOfflineTask, downs, raced>>

(* ConnectDeathRecipient::OnRemoteDied.  A recipient fires once; one added to *)
(* an object that is dead already fires too.                                   *)
OnRemoteDied(c) ==
    /\ c \in deathRecipients /\ ~alive[Owner[c]]
    /\ deathRecipients' = deathRecipients \ {c}
    /\ dmsAdapterHandler' = Append(dmsAdapterHandler, DiedTask(c))
    /\ UNCHANGED <<distributedConnectAbilityMap, trackingUidMap, callerReports,
                   calleeVars, act, job>>
    /\ WorldUnchanged

(* DeviceOffline on both devices: each posts its cleaning up. *)
BeingConnected(d) ==
    {c \in Connects : \E a \in Actors :
        \/ act[a].op = "connect" /\ act[a].c = c /\ d \in act[a].todo
        \/ job[a].kind = "connect" /\ job[a].c = c /\ job[a].d = d}

DeviceOffline(d) ==
    /\ online[d] /\ downs < MaxDowns
    /\ online' = [online EXCEPT ![d] = FALSE]
    /\ downs' = downs + 1
    /\ dmsAdapterHandler' = Append(dmsAdapterHandler, OfflineTask(d))
    /\ remoteOfflineTask' = [remoteOfflineTask EXCEPT ![d] = TRUE]
    /\ raced' = {r \in raced : r[2] # d} \cup {<<c, d>> : c \in BeingConnected(d)}
    /\ UNCHANGED <<callerVars, calleeVars, act, job, alive>>

(* DeviceOnline on both devices: cleaning up that has not begun is cancelled. *)
DeviceOnline(d) ==
    /\ ~online[d]
    /\ online' = [online EXCEPT ![d] = TRUE]
    /\ dmsAdapterHandler' = RemoveTask(dmsAdapterHandler, OfflineTask(d))
    /\ remoteOfflineTask' = [remoteOfflineTask EXCEPT ![d] = FALSE]
    /\ UNCHANGED <<callerVars, calleeVars, act, job, alive, downs, raced>>

-----------------------------------------------------------------------------

ConnectStep(t) ==
    \/ SendConnect(t) \/ SendConnectFails(t)
    \/ ConnectSucceeds(t) \/ ConnectRefused(t) \/ ConnectGivesUp(t)

CallsStep(a) == CallNextDevice(a) \/ SkipOfflineDevice(a) \/ CallReturns(a) \/ CallsDone(a)

CalleeStep(a) ==
    \/ CheckDPermissionDenies(a) \/ ConnectAbilityFromRemoteFinds(a)
    \/ AmsConnectAbility(a) \/ AmsRefuses(a) \/ ConnectAbilityFromRemoteRecords(a)
    \/ DisconnectAbilityFromRemote(a) \/ AmsDisconnectAbility(a)
    \/ NotifyProcessDiedFromRemote(a)

HandlerStep ==
    \/ \E d \in Devices : ProcessDeviceOffline(d)
    \/ \E c \in Connects : ProcessConnectDied(c)

Next ==
    \/ \E t \in Threads, c \in Connects :
          \/ DisconnectRemoteAbility(t, c)
          \/ \E d \in Devices : ConnectRemoteAbility(t, c, d)
    \/ \E t \in Threads : ConnectStep(t)
    \/ \E a \in Actors : CallsStep(a) \/ CalleeStep(a) \/ RemoteCallFails(a)
    \/ HandlerStep
    \/ \E p \in Processes : ProcessDies(p)
    \/ \E c \in Connects : OnRemoteDied(c)
    \/ \E d \in Devices : RemoteProcessDeviceOffline(d) \/ DeviceOffline(d) \/ DeviceOnline(d)

Spec == Init /\ [][Next]_vars

(* Every call that has begun goes on, on both devices; posted tasks are run and *)
(* obituaries delivered.  Applications, deaths and the network are not fair.    *)
Fairness ==
    /\ \A t \in Threads : WF_vars(ConnectStep(t))
    /\ \A a \in Actors : WF_vars(CallsStep(a)) /\ WF_vars(CalleeStep(a))
    /\ WF_vars(HandlerStep)
    /\ \A c \in Connects : WF_vars(OnRemoteDied(c))
    /\ \A d \in Devices : WF_vars(RemoteProcessDeviceOffline(d))

FairSpec == Spec /\ Fairness

-----------------------------------------------------------------------------
(* Properties. *)

CallerTypes ==
    /\ distributedConnectAbilityMap \in [Connects -> SUBSET Devices]
    /\ trackingUidMap \in [Uids -> Nat]
    /\ deathRecipients \in SUBSET Connects
    /\ callerReports \in [Uids -> Int]
CalleeTypes ==
    /\ connectAbilityMap \in [Devices -> [Connects -> 0..MaxWrappers]]
    /\ amsConnections \in [Devices -> SUBSET (Connects \X Wrappers)]
    /\ calleeReports \in [Devices -> Int]
WorldTypes ==
    /\ online \in [Devices -> BOOLEAN]
    /\ alive \in [Processes -> BOOLEAN]
    /\ remoteOfflineTask \in [Devices -> BOOLEAN]
    /\ downs \in Nat
    /\ raced \in SUBSET (Connects \X Devices)
CallTypes ==
    /\ act \in [Actors -> Activity]
    /\ job \in [Actors -> Job]

(* Every variable holds what its C++ counterpart can hold: the maps of          *)
(* DistributedSchedService, the tasks of dmsAdapterHandler and the calls under  *)
(* way.                                                                         *)
TypeOK ==
    /\ CallerTypes
    /\ CalleeTypes
    /\ WorldTypes
    /\ CallTypes
    /\ dmsAdapterHandler \in Seq(Tasks)

(* trackingUidMap_ counts exactly the connects in distributedConnectAbilityMap_, *)
(* however connecting, disconnecting, a device going offline and the death of a  *)
(* process interleave: the counter is never lost, leaked or decremented twice.   *)
CounterAgrees == \A u \in Uids : trackingUidMap[u] = Cardinality(OfUid(Registered, u))

(* The resource scheduler, told of each component added and removed, has for a   *)
(* caller uid the balance that trackingUidMap_ has.                              *)
CallerReportsAgree == \A u \in Uids : callerReports[u] = trackingUidMap[u]

(* CheckDistributedConnectLocked releases the lock before the connect is counted, *)
(* so MAX_DISTRIBUTED_CONNECT_NUM can be passed - but by no more than the number  *)
(* of other calls that the IPC threads can have under way.                        *)
LimitOvershoot == \A u \in Uids : trackingUidMap[u] <= MaxConnect + Cardinality(Threads) - 1

(* A wrapper that a device has on record in connectAbilityMap_ is bound with its *)
(* AMS: an entry never outlives the binding it stands for, although the lock is  *)
(* released between the AMS call and the table.                                  *)
RecordedIsBound ==
    \A d \in Devices : \A c \in Recorded(d) : <<c, connectAbilityMap[d][c]>> \in amsConnections[d]

(* While a connect is registered its death is still being watched, or the death  *)
(* is queued for ProcessConnectDied: no order of registration, removal and death *)
(* leaves an entry that no death could clean up.                                 *)
EveryConnectWatched ==
    \A c \in Registered :
        \/ c \in deathRecipients
        \/ \E i \in 1..Len(dmsAdapterHandler) : dmsAdapterHandler[i] = DiedTask(c)

(* Nothing is under way on any device and nothing is left to deliver. *)
Quiet ==
    /\ \A a \in Actors : act[a].op = "idle" /\ job[a].st = "none"
    /\ dmsAdapterHandler = << >>
    /\ \A d \in Devices : ~remoteOfflineTask[d]
    /\ \A c \in deathRecipients : alive[Owner[c]]

(* If applications use a connect in one call at a time, calls do not time out and *)
(* devices stay online, the two ends agree once all is quiet: the caller has a    *)
(* session exactly where the device has a record.                                 *)
TablesAgree ==
    Quiet => \A c \in Connects, d \in Devices :
                d \in distributedConnectAbilityMap[c] <=> c \in Recorded(d)

(* Under the same conditions the callee's reports to the resource scheduler are   *)
(* balanced: additions minus removals is the number of entries.                   *)
CalleeReportsAgree == \A d \in Devices : calleeReports[d] = Cardinality(Recorded(d))

(* Under the same conditions, and until a process dies, no wrapper stays bound    *)
(* with the AMS that no table knows: the ability could not be released any more.  *)
NoOrphanBinding ==
    Quiet /\ (\A p \in Processes : alive[p]) =>
        \A d \in Devices : \A b \in amsConnections[d] : connectAbilityMap[d][b[1]] = b[2]

(* ProcessDeviceOffline, run by each of the two devices on its own, leaves no     *)
(* session and no record between them, whatever was disconnected, died or flapped *)
(* before; only a connect under way when the device was lost may be left over.    *)
OfflineLeavesNothing ==
    Quiet => \A d \in Devices : ~online[d] =>
        \A c \in Connects : <<c, d>> \notin raced =>
            d \notin distributedConnectAbilityMap[c] /\ c \notin Recorded(d)

(* A process that died is eventually, and for good, forgotten by both ends, even  *)
(* if it died while a call of its own was under way (ProcessConnectDied and       *)
(* NotifyProcessDiedFromRemote).                                                  *)
Forgotten(p) ==
    \A c \in ConnectsOf(p) : c \notin Registered /\ \A d \in Devices : c \notin Recorded(d)
DeadProcessForgotten == \A p \in Processes : <>[](~alive[p] => Forgotten(p))
=============================================================================
