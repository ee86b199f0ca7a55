----------------------------- MODULE DmsMissionSync -----------------------------
(***************************************************************************)
(* Synchronisation of the mission list of one device (the server) to the   *)
(* devices that listen to it (the clients), in DistributedSchedMission-     *)
(* Manager of both.                                                        *)
(*                                                                         *)
(* A client keeps its applications' listeners and a copy of the missions;  *)
(* the server keeps the clients to be told, listens to the ability manager *)
(* while there are any, and sends every client the list when it changes.   *)
(* A server fails and starts again, links go down and come back.           *)
(*                                                                         *)
(* One step is one section under a lock, one task of a handler, or one     *)
(* call that leaves the service.  A list of missions is its version; the   *)
(* snapshots that are stored beside it are left out.                       *)
(***************************************************************************)
EXTENDS Integers, Sequences

CONSTANTS
    Clients, Apps,
    ClientOf,       \* the client an application runs on
    None,           \* no missions
    MaxRetryTimes,  \* MAX_RETRY_TIMES
    Overlaps,       \* the kinds of what need not wait for what is under way, one of
                    \* which holds for a behaviour: subsets of {"calls", "failures"}
    AmsFails,       \* whether calls of the ability manager may fail
    MaxVersion, MaxQueue, MaxDeaths, MaxDowns

ASSUME MissionSyncAssumption ==
    /\ ClientOf \in [Apps -> Clients]
    /\ Apps \cap Clients = {}
    /\ MaxRetryTimes \in Nat \ {0}
    /\ MaxVersion \in Nat /\ MaxQueue \in Nat /\ MaxDeaths \in Nat /\ MaxDowns \in Nat
    /\ None \notin 0..MaxVersion
    /\ Overlaps \subseteq SUBSET {"calls", "failures"} /\ AmsFails \in BOOLEAN

VARIABLES
    (* the clients *)
    listenerSet,    \* listenDeviceMap_: the applications listening
    called,         \*   ... and whether the server was asked to synchronise
    cache,          \* deviceMissionInfos_
    remoteDms,      \* remoteDmsMap_: the proxy of the server
    died,           \* the applications whose death is queued in missionHandler_
    dmsDied,        \* the clients with the death of the server queued
    retries,        \* the retries queued in missionHandler_
    th,             \* what a thread of a client is doing
    (* the server *)
    up, serving,    \* whether it runs, and its thread for a thread of a client
    syncSet,        \* remoteSyncDeviceSet_
    isReg,          \* isRegMissionChange_, and registered at the ability manager
    queue,          \* the tasks of missionHandler_
    changes, reading, \* the tasks of missionChangeHandler_, the first one under way
    outbox,         \* the lists queued in the handler of a client
    away,           \* the clients it takes to be offline
    (* the environment *)
    missions, alive, link, clientEvents, serverEvents, deaths, downs, overlap,
    (* what the properties remember *)
    loose, missed, unheard

clientVars == <<listenerSet, called, cache, remoteDms>>
taskVars == <<died, dmsDied, retries>>
serverVars == <<up, syncSet, isReg, queue, away>>
notifyVars == <<changes, reading, outbox>>
linkVars == <<link, clientEvents, serverEvents, downs>>
envVars == <<missions, alive, linkVars, deaths, overlap>>
ghosts == <<loose, missed, unheard>>
vars == <<clientVars, taskVars, th, serverVars, serving, notifyVars, envVars, ghosts>>

-----------------------------------------------------------------------------

Versions == 0..MaxVersion
Threads == Apps \cup Clients   \* a client itself names its missionHandler_
Home(x) == IF x \in Apps THEN ClientOf[x] ELSE x

Places == {"idle", "toRegister", "getDms", "calling", "replied", "toCall", "toStop"}
Thread == [pc : Places, tries : 0..MaxRetryTimes, infos : Versions]
Idle == [pc |-> "idle", tries |-> 0, infos |-> 0]
At(place) == [Idle EXCEPT !.pc = place]

Init ==
    /\ listenerSet = [c \in Clients |-> {}] /\ called = [c \in Clients |-> FALSE]
    /\ cache = [c \in Clients |-> None]
    /\ remoteDms = [c \in Clients |-> "none"]
    /\ died = {} /\ dmsDied = {} /\ retries = [c \in Clients |-> {}]
    /\ th = [x \in Threads |-> Idle]
    /\ up = TRUE /\ serving = [x \in Threads |-> "idle"]
    /\ syncSet = {} /\ isReg = FALSE /\ queue = << >> /\ away = {}
    /\ changes = 0 /\ reading = None /\ outbox = [c \in Clients |-> << >>]
    /\ missions = 0 /\ alive = Apps /\ deaths = 0 /\ downs = 0 /\ overlap \in Overlaps
    /\ link = [c \in Clients |-> TRUE]
    /\ clientEvents = [c \in Clients |-> << >>] /\ serverEvents = [c \in Clients |-> << >>]
    /\ loose = {} /\ missed = {} /\ unheard = FALSE

Goes(x, record) == th' = [th EXCEPT ![x] = record]
Reaches(c) == up /\ link[c]

(* A call or a failure may begin. *)
Settled == /\ \A x \in Threads : th[x].pc = "idle" /\ serving[x] = "idle"
           /\ \A c \in Clients : clientEvents[c] = << >> /\ serverEvents[c] = << >>
           /\ queue = << >> /\ died = {} /\ dmsDied = {}
MayCall == "calls" \in overlap \/ Settled
MayFail == "failures" \in overlap \/ Settled
Free(x) == th[x].pc = "idle" /\ serving[x] = "idle"

-----------------------------------------------------------------------------
(* A client: listeners. *)

RegistersListener(a) ==
    /\ a \in alive /\ Free(a) /\ MayCall
    /\ Goes(a, At("toRegister"))
    /\ UNCHANGED <<clientVars, taskVars, serverVars, serving, notifyVars, envVars, ghosts>>

(* The recipient added to a listener that has died is called at once. *)
RegisterMissionListener(a) ==
    LET c == ClientOf[a]
    IN  /\ th[a].pc = "toRegister"
        /\ listenerSet' = [listenerSet EXCEPT ![c] = listenerSet[c] \cup {a}]
        /\ died' = IF a \in alive \cup listenerSet[c] THEN died ELSE died \cup {a}
        /\ Goes(a, Idle)
        /\ UNCHANGED <<called, cache, remoteDms, dmsDied, retries,
                       serverVars, serving, notifyVars, envVars, ghosts>>

(* The listeners without a; if only the last could be erased: _LastOnly. *)
Without_LastOnly(c, a) == IF listenerSet[c] = {a} THEN {} ELSE listenerSet[c]
Without(c, a) == listenerSet[c] \ {a}

(* The entry of a client goes with its last listener. *)
EraseListener(c, a) ==
    /\ listenerSet' = [listenerSet EXCEPT ![c] = Without(c, a)]
    /\ called' = [called EXCEPT ![c] = called[c] /\ Without(c, a) # {}]

UnRegisterMissionListener(a) ==
    LET c == ClientOf[a]
    IN  /\ a \in alive /\ Free(a) /\ MayCall
        /\ a \in listenerSet[c]
        /\ EraseListener(c, a)
        /\ loose' = IF called[c] /\ listenerSet[c] = {a} THEN loose \cup {c} ELSE loose
        /\ UNCHANGED <<cache, remoteDms, taskVars, th, missed,
                       serverVars, serving, notifyVars, envVars, unheard>>

AppDies(a) ==
    /\ a \in alive /\ MayFail
    /\ alive' = alive \ {a}
    /\ died' = IF a \in listenerSet[ClientOf[a]] THEN died \cup {a} ELSE died
    /\ UNCHANGED <<clientVars, dmsDied, retries, th, serverVars, serving, notifyVars,
                   missions, linkVars, deaths, overlap, ghosts>>

-----------------------------------------------------------------------------
(* Stopping: the copy is dropped, and then the server is told. *)

Cleaned(c) == cache' = [cache EXCEPT ![c] = None]

StopSyncRemoteMissions(a) ==
    LET c == ClientOf[a]
    IN  /\ a \in alive /\ Free(a) /\ MayCall
        /\ Cleaned(c)
        /\ Goes(a, At("toStop"))
        /\ UNCHANGED <<listenerSet, called, remoteDms, taskVars,
                       serverVars, serving, notifyVars, envVars, ghosts>>

(* The last listener is gone: the handler stops if the server had been asked; *)
(* if it looked after erasing the entry: _Erased.                             *)
StopsAfter_Erased(c, left) == called[c] /\ left # {}
StopsAfter(c, left) == called[c] /\ left = {}

OnMissionListenerDied(a) ==
    LET c == ClientOf[a]
    IN  /\ a \in died /\ Free(c)
        /\ died' = died \ {a}
        /\ IF a \in listenerSet[c]
           THEN /\ EraseListener(c, a)
                /\ IF StopsAfter(c, listenerSet[c] \ {a})
                   THEN Cleaned(c) /\ Goes(c, At("toStop"))
                   ELSE UNCHANGED <<cache, th>>
           ELSE UNCHANGED <<listenerSet, called, cache, th>>
        /\ UNCHANGED <<remoteDms, dmsDied, retries, serverVars, serving, notifyVars,
                       envVars, ghosts>>

(* GetRemoteDms: the proxy kept, or one of the server that is found now. *)
HasDms(c) == remoteDms[c] # "none" \/ Reaches(c)
Usable(c) == remoteDms[c] # "dead" /\ Reaches(c)
KeepsDms(c) ==
    remoteDms' = IF remoteDms[c] = "none" /\ Reaches(c)
                 THEN [remoteDms EXCEPT ![c] = "live"] ELSE remoteDms

(* StopSyncMissionsFromRemote: the task is posted with the lock held; if it were *)
(* posted for every client that stops: _Always.                                  *)
Unregisters_Always(left) == TRUE
Unregisters(left) == left = {}

Withdraws(c) ==
    LET left == syncSet \ {c}
    IN  /\ syncSet' = left
        /\ queue' = IF Unregisters(left) THEN Append(queue, "unregister") ELSE queue

StopsRemote(x) ==
    LET c == Home(x)
    IN  /\ th[x].pc = "toStop"
        /\ KeepsDms(c)
        /\ IF Usable(c) THEN Len(queue) < MaxQueue /\ Withdraws(c)
                        ELSE UNCHANGED <<syncSet, queue>>
        /\ loose' = IF called[c] THEN loose \cup {c} ELSE IF Usable(c) THEN loose \ {c} ELSE loose
        /\ Goes(x, Idle)
        /\ UNCHANGED <<listenerSet, called, cache, taskVars, missed,
                       up, isReg, away, serving, notifyVars, envVars, unheard>>

-----------------------------------------------------------------------------
(* Starting. *)

StartSyncRemoteMissions(a) ==
    LET c == ClientOf[a]
    IN  /\ a \in alive /\ Free(a) /\ MayCall
        /\ listenerSet[c] # {} /\ ~called[c]
        /\ Goes(a, At("getDms"))
        /\ UNCHANGED <<clientVars, taskVars, serverVars, serving, notifyVars, envVars, ghosts>>

(* Whether another try may be queued. *)
MayRetry(tries) == tries < MaxRetryTimes

(* The server is not found: one more try is queued, or none is left. *)
RetryStartSyncRemoteMissions(c, tries) ==
    IF MayRetry(tries)
    THEN retries' = [retries EXCEPT ![c] = @ \cup {tries}] /\ UNCHANGED loose
    ELSE loose' = loose \cup {c} /\ UNCHANGED retries

CallsStart(x) ==
    LET c == Home(x)
    IN  /\ th[x].pc = "getDms"
        /\ KeepsDms(c)
        /\ IF Usable(c)
           THEN Goes(x, At("calling")) /\ serving' = [serving EXCEPT ![x] = "called"]
           ELSE Goes(x, Idle) /\ UNCHANGED serving
        /\ IF HasDms(c)
           THEN UNCHANGED <<retries, loose>>
           ELSE RetryStartSyncRemoteMissions(c, IF x \in Apps THEN 0 ELSE th[x].tries + 1)
        /\ UNCHANGED <<listenerSet, called, cache, died, dmsDied, missed,
                       serverVars, notifyVars, envVars, unheard>>

(* HasSyncListener; if it found none, as when `called` is not set: _None. *)
HasSyncListener_None(c) == FALSE
HasSyncListener(c) == called[c]

RetryFunc(c) ==
    /\ Free(c)
    /\ \E tries \in retries[c] :
          /\ retries' = [retries EXCEPT ![c] = @ \ {tries}]
          /\ IF HasSyncListener(c) THEN Goes(c, [At("getDms") EXCEPT !.tries = tries])
                                   ELSE UNCHANGED th
    /\ UNCHANGED <<clientVars, died, dmsDied, serverVars, serving, notifyVars, envVars, ghosts>>

OnRemoteDmsDied(c) ==
    /\ c \in dmsDied /\ Free(c)
    /\ dmsDied' = dmsDied \ {c}
    /\ IF remoteDms[c] = "dead"
       THEN /\ remoteDms' = [remoteDms EXCEPT ![c] = "none"]
            /\ retries' = IF HasSyncListener(c) THEN [retries EXCEPT ![c] = @ \cup {0}]
                                               ELSE retries
       ELSE UNCHANGED <<remoteDms, retries>>
    /\ UNCHANGED <<listenerSet, called, cache, died, th, serverVars, serving,
                   notifyVars, envVars, ghosts>>

(* StartSyncMissionsFromRemote at the server. *)
AddsSyncDevice(x) ==
    /\ serving[x] = "called"
    /\ syncSet' = syncSet \cup {Home(x)}
    /\ serving' = [serving EXCEPT ![x] = "added"]
    /\ UNCHANGED <<clientVars, taskVars, th, up, isReg, queue, away, notifyVars, envVars, ghosts>>

(* The list is read and the task posted, also when it could not be read; a client *)
(* whose call failed is not there to take the answer.                             *)
AnswersStart(x) ==
    /\ serving[x] = "added" /\ Len(queue) < MaxQueue
    /\ queue' = Append(queue, "register")
    /\ serving' = [serving EXCEPT ![x] = "idle"]
    /\ \E ok \in {TRUE, ~AmsFails} :
          /\ Goes(x, IF ok /\ th[x].pc = "calling"
                     THEN [At("replied") EXCEPT !.infos = missions] ELSE Idle)
          /\ loose' = IF ok THEN loose ELSE loose \cup {Home(x)}
    /\ UNCHANGED <<clientVars, taskVars, up, syncSet, isReg, away, notifyVars, envVars, missed, unheard>>

StartFails(x) ==
    /\ th[x].pc = "calling" /\ ~link[Home(x)]
    /\ Goes(x, Idle)
    /\ UNCHANGED <<clientVars, taskVars, serverVars, serving, notifyVars, envVars, ghosts>>

(* A list takes the place of the one before, also of a newer one. *)
Receives(c, infos) ==
    /\ cache' = [cache EXCEPT ![c] = infos]
    /\ missed' = IF infos = missions THEN missed \ {c}
                 ELSE IF cache[c] \in Versions /\ infos < cache[c] THEN missed \cup {c}
                 ELSE missed

RebornMissionCache(x) ==
    LET c == Home(x)
    IN  /\ th[x].pc = "replied"
        /\ Receives(c, th[x].infos)
        /\ Goes(x, IF x \in Apps THEN At("toCall") ELSE Idle)
        /\ UNCHANGED <<listenerSet, called, remoteDms, taskVars,
                       serverVars, serving, notifyVars, envVars, loose, unheard>>

SetsCalled(a) ==
    LET c == ClientOf[a]
    IN  /\ th[a].pc = "toCall"
        /\ called' = [called EXCEPT ![c] = listenerSet[c] # {}]
        /\ loose' = IF listenerSet[c] # {} THEN loose \ {c} ELSE loose \cup {c}
        /\ Goes(a, Idle)
        /\ UNCHANGED <<listenerSet, cache, remoteDms, taskVars,
                       serverVars, serving, notifyVars, envVars, missed, unheard>>

-----------------------------------------------------------------------------
(* The server: its handlers. *)

(* What a task of missionHandler_ leaves isRegMissionChange_ as. *)
IsRegAfter(task) == task = "register"

RunsTask ==
    /\ queue # << >>
    /\ queue' = Tail(queue)
    /\ isReg' \in {IsRegAfter(Head(queue))} \cup (IF AmsFails THEN {isReg} ELSE {})
    /\ UNCHANGED <<clientVars, taskVars, th, up, syncSet, away, serving, notifyVars, envVars, ghosts>>

(* The tasks queued after a change; if one waiting were enough: _Once. *)
Posted_Once(tasks) == IF tasks > 0 THEN tasks ELSE 1
Posted(tasks) == tasks + 1

(* OnMissionCreated, OnMissionDestroyed or OnMissionMovedToFront, if registered. *)
MissionsChange ==
    /\ missions < MaxVersion
    /\ missions' = missions + 1
    /\ changes' = IF up /\ isReg THEN Posted(changes) ELSE changes
    /\ unheard' = ~isReg
    /\ UNCHANGED <<clientVars, taskVars, th, serverVars, serving, reading, outbox,
                   alive, linkVars, deaths, overlap, loose, missed>>

NotifyLocalMissionsChanged ==
    /\ changes > 0 /\ reading = None
    /\ \/ reading' = missions /\ UNCHANGED <<changes, missed>>
       \/ AmsFails /\ changes' = changes - 1 /\ missed' = missed \cup syncSet /\ UNCHANGED reading
    /\ UNCHANGED <<clientVars, taskVars, th, serverVars, serving, outbox, envVars, loose, unheard>>

NotifyMissionsChangedToRemote ==
    /\ reading # None
    /\ outbox' = [c \in Clients |-> IF c \in syncSet \ away THEN Append(outbox[c], reading)
                                                           ELSE outbox[c]]
    /\ reading' = None /\ changes' = changes - 1
    /\ missed' = missed \cup (syncSet \cap away)
    /\ UNCHANGED <<clientVars, taskVars, th, serverVars, serving, envVars, loose, unheard>>

(* The call, and NotifyMissionsChangedFromRemote at the client, with or without *)
(* listeners there.                                                             *)
NotifyMissionsChangedFromRemote(c) ==
    /\ outbox[c] # << >>
    /\ outbox' = [outbox EXCEPT ![c] = Tail(outbox[c])]
    /\ IF link[c]
       THEN Receives(c, Head(outbox[c]))
       ELSE missed' = missed \cup {c} /\ UNCHANGED cache
    /\ UNCHANGED <<listenerSet, called, remoteDms, taskVars, th, serverVars, serving,
                   changes, reading, envVars, loose, unheard>>

-----------------------------------------------------------------------------
(* Links, and what the device listeners of both ends make of them. *)

LinkChange(c, event) ==
    /\ clientEvents' = [clientEvents EXCEPT ![c] = Append(@, event)]
    /\ serverEvents' = [serverEvents EXCEPT ![c] = Append(@, event)]

LinkDown(c) ==
    /\ link[c] /\ downs < MaxDowns /\ MayFail
    /\ link' = [link EXCEPT ![c] = FALSE] /\ downs' = downs + 1
    /\ LinkChange(c, "offline")
    /\ UNCHANGED <<clientVars, taskVars, th, serverVars, serving, notifyVars,
                   missions, alive, deaths, overlap, ghosts>>

LinkUp(c) ==
    /\ ~link[c] /\ MayFail
    /\ link' = [link EXCEPT ![c] = TRUE]
    /\ LinkChange(c, "online")
    /\ UNCHANGED <<clientVars, taskVars, th, serverVars, serving, notifyVars,
                   missions, alive, deaths, downs, overlap, ghosts>>

(* DeviceOnlineNotify and DeviceOfflineNotify with CleanMissionResources: nothing *)
(* is cleaned if there is no listener.                                             *)
ClientNotified(c) ==
    /\ clientEvents[c] # << >>
    /\ clientEvents' = [clientEvents EXCEPT ![c] = Tail(@)]
    /\ IF Head(clientEvents[c]) = "online"
       THEN UNCHANGED clientVars
       ELSE /\ remoteDms' = [remoteDms EXCEPT ![c] = "none"]
            /\ listenerSet' = [listenerSet EXCEPT ![c] = {}]
            /\ called' = [called EXCEPT ![c] = FALSE]
            /\ IF listenerSet[c] # {} THEN Cleaned(c) ELSE UNCHANGED cache
    /\ UNCHANGED <<taskVars, th, serverVars, serving, notifyVars, missions, alive, link,
                   serverEvents, downs, deaths, overlap, ghosts>>

(* DeviceOfflineNotify of the server withdraws the client. *)
ServerNotified(c) ==
    /\ up /\ serverEvents[c] # << >> /\ Len(queue) < MaxQueue
    /\ serverEvents' = [serverEvents EXCEPT ![c] = Tail(@)]
    /\ IF Head(serverEvents[c]) = "online"
       THEN away' = away \ {c} /\ UNCHANGED <<syncSet, queue, loose>>
       ELSE away' = away \cup {c} /\ Withdraws(c) /\ loose' = loose \ {c}
    /\ UNCHANGED <<clientVars, taskVars, th, up, isReg, serving, notifyVars, missions, alive,
                   link, clientEvents, downs, deaths, overlap, missed, unheard>>

-----------------------------------------------------------------------------
(* The server fails: what it knew is lost, calls to it fail, and the clients are told *)
(* of the death of their proxies.  It starts again knowing which devices are online.  *)

ServerDies ==
    /\ up /\ deaths < MaxDeaths /\ MayFail
    /\ up' = FALSE /\ deaths' = deaths + 1
    /\ syncSet' = {} /\ isReg' = FALSE /\ queue' = << >>
    /\ changes' = 0 /\ reading' = None /\ outbox' = [c \in Clients |-> << >>]
    /\ serving' = [x \in Threads |-> "idle"]
    /\ th' = [x \in Threads |-> IF th[x].pc = "calling" THEN Idle ELSE th[x]]
    /\ remoteDms' = [c \in Clients |-> IF remoteDms[c] = "live" THEN "dead" ELSE remoteDms[c]]
    /\ dmsDied' = dmsDied \cup {c \in Clients : remoteDms[c] = "live"}
    /\ UNCHANGED <<listenerSet, called, cache, died, retries, away, missions, alive,
                   linkVars, overlap, ghosts>>

ServerStarts ==
    /\ ~up
    /\ up' = TRUE
    /\ away' = {c \in Clients : ~link[c]}
    /\ serverEvents' = [c \in Clients |-> << >>]
    /\ UNCHANGED <<clientVars, taskVars, th, syncSet, isReg, queue, serving, notifyVars,
                   missions, alive, link, clientEvents, downs, deaths, overlap, ghosts>>

-----------------------------------------------------------------------------

ThreadStep(x) ==
    \/ CallsStart(x) \/ AddsSyncDevice(x) \/ AnswersStart(x) \/ StartFails(x)
    \/ RebornMissionCache(x) \/ StopsRemote(x)
AppStep(a) == RegisterMissionListener(a) \/ SetsCalled(a) \/ OnMissionListenerDied(a)
HandlerStep(c) == RetryFunc(c) \/ OnRemoteDmsDied(c)
ServerStep ==
    \/ RunsTask \/ NotifyLocalMissionsChanged \/ NotifyMissionsChangedToRemote \/ ServerStarts
DeviceStep(c) == NotifyMissionsChangedFromRemote(c) \/ ClientNotified(c) \/ ServerNotified(c)
Call(a) ==
    \/ RegistersListener(a) \/ UnRegisterMissionListener(a)
    \/ StartSyncRemoteMissions(a) \/ StopSyncRemoteMissions(a)

Next ==
    \/ \E x \in Threads : ThreadStep(x)
    \/ \E a \in Apps : AppStep(a) \/ Call(a) \/ AppDies(a)
    \/ \E c \in Clients : HandlerStep(c) \/ DeviceStep(c) \/ LinkDown(c) \/ LinkUp(c)
    \/ ServerStep \/ MissionsChange \/ ServerDies

Spec == Init /\ [][Next]_vars

(* Threads and handlers run on; the server is started again. *)
Fairness ==
    /\ \A x \in Threads : WF_vars(ThreadStep(x))
    /\ \A a \in Apps : WF_vars(AppStep(a))
    /\ \A c \in Clients : WF_vars(RetryFunc(c)) /\ WF_vars(OnRemoteDmsDied(c))
    /\ \A c \in Clients : WF_vars(DeviceStep(c))
    /\ WF_vars(ServerStep)
FairSpec == Spec /\ Fairness

-----------------------------------------------------------------------------
(* Properties. *)

TypeOK ==
    /\ listenerSet \in [Clients -> SUBSET Apps]
    /\ called \in [Clients -> BOOLEAN]
    /\ cache \in [Clients -> Versions \cup {None}]
    /\ remoteDms \in [Clients -> {"none", "live", "dead"}]
    /\ died \in SUBSET Apps /\ dmsDied \in SUBSET Clients
    /\ retries \in [Clients -> SUBSET (0..MaxRetryTimes - 1)]
    /\ th \in [Threads -> Thread]
    /\ up \in BOOLEAN /\ serving \in [Threads -> {"idle", "called", "added"}]
    /\ syncSet \in SUBSET Clients /\ isReg \in BOOLEAN /\ away \in SUBSET Clients
    /\ queue \in Seq({"register", "unregister"})
    /\ changes \in Nat /\ reading \in Versions \cup {None}
    /\ outbox \in [Clients -> Seq(Versions)]
    /\ missions \in Versions /\ alive \in SUBSET Apps /\ link \in [Clients -> BOOLEAN]
    /\ clientEvents \in [Clients -> Seq({"offline", "online"})]
    /\ serverEvents \in [Clients -> Seq({"offline", "online"})]
    /\ deaths \in 0..MaxDeaths /\ downs \in 0..MaxDowns /\ overlap \in Overlaps
    /\ loose \in SUBSET Clients /\ missed \in SUBSET Clients /\ unheard \in BOOLEAN

(* While any client is to be told, the server listens to the ability manager, or a  *)
(* task or a thread that will see to it is on its way: starts and stops of several  *)
(* clients overlap, and the tasks that follow the set run later and elsewhere.      *)
(* (The ability manager refuses nothing.)                                           *)
Registering ==
    \/ \E x \in Threads : serving[x] = "added"
    \/ queue # << >> /\ queue[Len(queue)] = "register"
RegisteredWhileSyncing ==
    syncSet # {} => Registering \/ (isReg /\ queue = << >>)

(* A listener that has died is forgotten once its death has been handled, also when *)
(* it died while it was being registered.                                           *)
DeadListenerForgotten ==
    \A a \in Apps :
        a \in listenerSet[ClientOf[a]] => a \in alive \/ a \in died

(* When nothing is under way, a client that synchronises has the missions of the    *)
(* server: of any number of changes the last arrives last.  Unheard is a change      *)
(* before the listener was registered (also one between the reading of the list for  *)
(* a client that starts and the registration); missed, by one client, is a change    *)
(* while it was taken to be offline, or a newer list that an older one replaced: the *)
(* answer to a start and the notifications of changes come in threads of their own.  *)
QuietServer ==
    /\ up /\ queue = << >> /\ changes = 0 /\ reading = None
    /\ \A x \in Threads : serving[x] = "idle"
QuietClient(c) ==
    /\ clientEvents[c] = << >> /\ serverEvents[c] = << >> /\ outbox[c] = << >>
    /\ c \notin dmsDied /\ retries[c] = {}
    /\ \A x \in Threads : Home(x) = c => th[x].pc = "idle" /\ x \notin died
CacheFresh ==
    \A c \in Clients :
        QuietServer /\ QuietClient(c) /\ c \in syncSet /\ called[c] =>
            cache[c] = missions \/ c \in missed \/ unheard

(* When nothing is under way, the two ends of a link agree whether the client       *)
(* synchronises, although either may have failed, left or lost its listeners.  The  *)
(* exceptions are loose: a client whose application stopped while listeners stay,   *)
(* or unregistered the last listener without stopping, whose start failed half-way, *)
(* or that gave up retrying.  All that is kept on either keeps its type.            *)
EndsAgree ==
    /\ TypeOK
    /\ QuietServer =>
          \A c \in Clients :
              QuietClient(c) /\ link[c] => (called[c] <=> c \in syncSet) \/ c \in loose

(* A client that synchronised is taken up again after the server failed, or ends its *)
(* interest, gives up or leaves.                                                     *)
Rejoins ==
    \A c \in Clients :
        (called[c] /\ ~up) ~> (c \in syncSet \/ ~called[c] \/ c \in loose)
=============================================================================
