------------------------------ MODULE DmsDevices ------------------------------
(* What the service knows of one remote device: softbus reports it as it comes and goes,  *)
(* under a network id that may be another each time (its uuid stays); DnetworkAdapter       *)
(* passes the reports on to a queue, and DtbschedmgrDeviceInfoStorage keeps the device and    *)
(* the network id of its uuid.  A report is handled later than it is made, and to find the     *)
(* uuid of a network id the handler asks softbus, which may no longer know it.                  *)
EXTENDS Naturals, Sequences, FiniteSets

CONSTANTS
    NetIds,                        \* the network ids the device may have
    None,
    CONNECT_SOFTBUS_RETRY_TIMES,   \* 60 in the code
    RETRY_REGISTER_CALLBACK_TIMES  \* 5 in the code
ASSUME NoneAssumption == None \notin NetIds
ASSUME RetryAssumption ==
    CONNECT_SOFTBUS_RETRY_TIMES \in Nat /\ RETRY_REGISTER_CALLBACK_TIMES \in Nat \ {0}

Uuid == "uuid"
NoUuid == ""
UuidKeys == {NoUuid, Uuid}

VARIABLES
    softbusUp,         \* softbus: its service runs
    here,              \* softbus: the network id of the device, None while it is away
    known,             \* softbus: the network ids it can tell the uuid of
    link,              \* how far the service has got in registering for reports
    tries,             \* its tries so far
    tasks,             \* networkIdMgrHandler_: the reports it has yet to handle
    node,              \* the step of the report at its head
    uuidNetworkIdMap,  \* uuidNetworkIdMap_
    remoteDevices,     \* remoteDevices_
    unresolved         \* ghost: an entry was set or kept as softbus did not know the uuid

softbus == <<softbusUp, here, known>>
linking == <<link, tries>>
storage == <<uuidNetworkIdMap, remoteDevices, unresolved>>
devices == <<softbus, linking, tasks, node, storage>>

Report(kind, n) == [kind |-> kind, id |-> n]
Reports == [kind : {"online", "offline"}, id : NetIds]
Reported(report) == IF link = "registered" THEN Append(tasks, report) ELSE tasks

DevicesInit ==
    /\ softbusUp = FALSE /\ here = None /\ known = {}
    /\ link = "connecting" /\ tries = 0
    /\ tasks = <<>> /\ node = "idle"
    /\ uuidNetworkIdMap = [u \in UuidKeys |-> None] /\ remoteDevices = {} /\ unresolved = FALSE

-----------------------------------------------------------------------------
(* Softbus: it is started, the device comes and goes (OnNodeOnline, OnNodeOffline post the *)
(* report), and what is known of a device that went is forgotten at some time.                *)
SoftbusStarts ==
    /\ ~softbusUp /\ softbusUp' = TRUE
    /\ UNCHANGED <<here, known, linking, tasks, node, storage>>
Joins ==
    \E n \in NetIds :
       /\ softbusUp /\ here = None
       /\ here' = n /\ known' = known \union {n}
       /\ tasks' = Reported(Report("online", n))
       /\ UNCHANGED <<softbusUp, linking, node, storage>>
Leaves ==
    /\ here # None
    /\ here' = None
    /\ tasks' = Reported(Report("offline", here))
    /\ UNCHANGED <<softbusUp, known, linking, node, storage>>
Forgets ==
    \E n \in known \ {here} :
       /\ known' = known \ {n}
       /\ UNCHANGED <<softbusUp, here, linking, tasks, node, storage>>

(* Init: the service waits for softbus, then clears its devices and registers; softbus then *)
(* reports a device that is there.  The loop ends after its last try whether or not it         *)
(* succeeded, and nothing starts it again.                                                        *)
ConnectSoftbus ==
    /\ link = "connecting"
    /\ remoteDevices' = {}
    /\ IF softbusUp THEN link' = "registering" /\ tries' = 0
       ELSE /\ tries' = tries + 1
            /\ link' = IF tries = CONNECT_SOFTBUS_RETRY_TIMES THEN "gave up" ELSE link
    /\ UNCHANGED <<softbus, tasks, node, uuidNetworkIdMap, unresolved>>
AddDeviceChangeListener ==
    /\ link = "registering"
    /\ \/ /\ link' = "registered" /\ tries' = tries
          /\ tasks' = IF here = None THEN tasks ELSE Append(tasks, Report("online", here))
       \/ /\ tries' = tries + 1 /\ tasks' = tasks
          /\ link' = IF tries' = RETRY_REGISTER_CALLBACK_TIMES THEN "gave up" ELSE link
    /\ UNCHANGED <<softbus, node, storage>>

-----------------------------------------------------------------------------
(* The uuid of a network id, as softbus has it, and as GetUuidByNetworkId gives it: of the *)
(* first entry with the network id (the empty key is first), else as softbus has it.         *)
SoftbusUuid(n) == IF n \in known THEN Uuid ELSE NoUuid
GetUuidByNetworkId(n) ==
    IF uuidNetworkIdMap[NoUuid] = n THEN NoUuid
    ELSE IF uuidNetworkIdMap[Uuid] = n THEN Uuid
    ELSE SoftbusUuid(n)
GetNetworkIdByUuid == uuidNetworkIdMap[Uuid]

(* The handling of a report, up to the notification of the service and after it. *)
Handles(kind) == node = "idle" /\ tasks # <<>> /\ Head(tasks).kind = kind
Reporting == Head(tasks).id
NodeOnline ==
    /\ Handles("online")
    /\ uuidNetworkIdMap' = [uuidNetworkIdMap EXCEPT ![SoftbusUuid(Reporting)] = Reporting]
    /\ remoteDevices' = remoteDevices \union {Reporting}
    /\ unresolved' = (Reporting \notin known)
    /\ node' = "notify"
    /\ UNCHANGED <<softbus, linking, tasks>>
NodeNotified == node' = "idle" /\ tasks' = Tail(tasks)
NodeOfflineEnds ==
    /\ node = "left"
    /\ uuidNetworkIdMap' = [uuidNetworkIdMap EXCEPT ![SoftbusUuid(Reporting)] = None]
    /\ remoteDevices' = remoteDevices \ {Reporting}
    /\ unresolved' = (unresolved \/ Reporting \notin known)
    /\ NodeNotified
    /\ UNCHANGED <<softbus, linking>>

DevicesTypeOK ==
    /\ softbusUp \in BOOLEAN /\ here \in NetIds \union {None} /\ known \subseteq NetIds
    /\ link \in {"connecting", "registering", "registered", "gave up"}
    /\ tries \in 0 .. CONNECT_SOFTBUS_RETRY_TIMES + RETRY_REGISTER_CALLBACK_TIMES
    /\ tasks \in Seq(Reports) /\ node \in {"idle", "notify", "stop", "left"}
    /\ uuidNetworkIdMap \in [UuidKeys -> NetIds \union {None}]
    /\ remoteDevices \subseteq NetIds /\ unresolved \in BOOLEAN
=============================================================================
