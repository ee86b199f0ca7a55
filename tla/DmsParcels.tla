----------------------------- MODULE DmsParcels -----------------------------
(* What the requests of the distributed scheduler carry.  For each request:        *)
(*   - the proxy (distributed_sched_proxy.cpp and its like): what it refuses before *)
(*     it writes, the fields it writes, the fields of the answer it reads;           *)
(*   - the handler of the stub (distributed_sched_stub.cpp and its like): who may     *)
(*     call, the fields it reads and what a missing one means, what it asks of the    *)
(*     service and how the answer goes back.                                          *)
(* A field is a type and the name of the argument it holds; the value of an argument  *)
(* is that name, so that two fields written or read in the wrong order show.  A        *)
(* string that holds a JSON object, and an object behind a flag that says whether it   *)
(* is there, count as one field.                                                       *)
EXTENDS Sequences

(* PARCEL_WRITE_HELPER and PARCEL_READ_HELPER: a field that cannot be read makes the *)
(* handler return an error.                                                          *)
Field(t, a) == [type |-> t, arg |-> a, missing |-> "error"]
Int32(a) == Field("Int32", a)
Int64(a) == Field("Int64", a)
Uint32(a) == Field("Uint32", a)
Bool(a) == Field("Bool", a)
Str(a) == Field("String", a)
Str16(a) == Field("String16", a)
StrVec(a) == Field("StringVector", a)
Json(a) == Field("String", a)
Object(a) == Field("RemoteObject", a)
Parcelable(a) == Field("Parcelable", a)

(* A read whose result is not looked at leaves the default, a write whose result is not *)
(* looked at leaves the field out; an empty string, a null object or a negative number  *)
(* is refused; the last one is dereferenced without a look.                             *)
Loosely(f) == [f EXCEPT !.missing = "default"]
NotOdd(f) == [f EXCEPT !.missing = "refused"]
Unseen(f) == [f EXCEPT !.missing = "crash"]
Looselys(s) == [i \in DOMAIN s |-> Loosely(s[i])]

(* The parts of the requests: accounts, callers, missions, results of a selection. *)
AccountWrites == <<Int32("accountType"), StrVec("groupIdList"), Str("callerAppId")>>
AccountReads == <<Loosely(Int32("accountType")), StrVec("groupIdList"), Loosely(Str("callerAppId"))>>

CallerInfoMarshalling ==
    <<Int32("uid"), Int32("pid"), Int32("callerType"), Str("sourceDeviceId"), Int32("duid"),
      Str("callerAppId"), Int32("dmsVersion")>>
CallerInfoUnmarshalling ==
    <<Int32("uid"), Int32("pid"), Int32("callerType"), Str("sourceDeviceId"), Int32("duid"),
      Str("callerAppId"), Int32("dmsVersion")>>

DstbMissionInfoMarshalling ==
    <<Int32("id"), Int32("runingState"), Int32("userId"), Int32("missionStackId"),
      Field("Int32Vector", "combinedMissionIds"), Int32("windowMode"), Int32("boundsLeft"),
      Int32("boundsTop"), Int32("boundsRight"), Int32("boundsBottom"), Parcelable("baseWant"),
      Parcelable("topAbility"), Parcelable("baseAbility"), Parcelable("reservedAbility"),
      Int64("lastMissionActiveTime"), Int32("displayId"), Str16("label"), Int32("size"),
      Str16("iconPath"), Int32("continuable"), Int32("windowType"), Bool("lockedState"),
      Int32("missionType"), Int32("windowTypeMode")>>
DstbMissionInfoReadFromParcel ==
    Looselys(<<Int32("id"), Int32("runingState"), Int32("userId"), Int32("missionStackId")>>)
    \o <<Field("Int32Vector", "combinedMissionIds")>>
    \o Looselys(<<Int32("windowMode"), Int32("boundsLeft"), Int32("boundsTop"), Int32("boundsRight"),
          Int32("boundsBottom"), Parcelable("baseWant"), Parcelable("topAbility"),
          Parcelable("baseAbility"), Parcelable("reservedAbility"), Int64("lastMissionActiveTime"),
          Int32("displayId"), Str16("label"), Int32("size"), Str16("iconPath"), Int32("continuable"),
          Int32("windowType"), Bool("lockedState"), Int32("missionType"), Int32("windowTypeMode")>>)

(* The vectors: whether there is one, how long it is, and its elements (here one). *)
WriteDstbMissionInfosToParcel ==
    <<Int32("hasInfos"), Int32("infoCount")>> \o DstbMissionInfoMarshalling
ReadDstbMissionInfosFromParcel ==
    <<Loosely(Int32("hasInfos")), Loosely(Int32("infoCount"))>> \o DstbMissionInfoReadFromParcel
WriteMissionInfosToParcel == <<Int32("hasInfos"), Int32("infoCount"), Parcelable("missionInfo")>>
ReadMissionInfosFromParcel ==
    <<Loosely(Int32("hasInfos")), Loosely(Int32("infoCount")), Parcelable("missionInfo")>>

ContinuationResultMarshalling ==
    Looselys(<<Str16("deviceId"), Str16("deviceType"), Str16("deviceName")>>)
ContinuationResultReadFromParcel ==
    Looselys(<<Str16("deviceId"), Str16("deviceType"), Str16("deviceName")>>)
WriteContinuationResultsToParcel ==
    <<Int32("hasResults"), Int32("resultCount")>> \o ContinuationResultMarshalling
ReadContinuationResultsFromParcel ==
    <<Loosely(Int32("hasResults")), Loosely(Int32("resultCount"))>> \o ContinuationResultReadFromParcel

ContinuationExtraParamsMarshalling ==
    Looselys(<<Field("String16Vector", "deviceTypes"), Str16("targetBundle"), Str16("description"),
               Str16("filter"), Int32("continuationMode"), Str16("authInfo")>>)
ContinuationExtraParamsReadFromParcel ==
    <<Field("String16Vector", "deviceTypes")>>
    \o Looselys(<<Str16("targetBundle"), Str16("description"), Str16("filter"),
                  Int32("continuationMode"), Str16("authInfo")>>)

WriteSnapshotInfo ==
    <<Int32("version"), Int32("orientation"), Parcelable("rect"), Bool("reducedResolution"),
      Field("Float", "scale"), Bool("isRealSnapshot"), Int32("windowingMode"),
      Int32("systemUiVisibility"), Bool("isTranslucent"), Parcelable("windowBounds"),
      Str16("appLabel"), Str16("abilityLabel"), Field("UInt8Vector", "icon"), Str16("secAppLabel"),
      Str16("secAbilityLabel"), Field("UInt8Vector", "secIcon"), Str16("sourceDeviceTips")>>
FillSnapShot ==
    <<Int32("version"), Int32("orientation"), Loosely(Parcelable("rect")), Bool("reducedResolution"),
      Field("Float", "scale"), Bool("isRealSnapshot"), Int32("windowingMode"),
      Int32("systemUiVisibility"), Bool("isTranslucent"), Loosely(Parcelable("windowBounds")),
      Loosely(Str16("appLabel")), Loosely(Str16("abilityLabel")), Field("UInt8Vector", "icon"),
      Loosely(Str16("secAppLabel")), Loosely(Str16("secAbilityLabel")),
      Field("UInt8Vector", "secIcon"), Loosely(Str16("sourceDeviceTips"))>>

-----------------------------------------------------------------------------
(* A proxy: the request code, the service function it stands for, the arguments it   *)
(* refuses when they are null, empty or negative, the fields it writes, and those it  *)
(* reads of the answer.  Result is PARCEL_TRANSACT_SYNC_RET_INT.                       *)
Proxy(code, asks, refuses, writes, hears) ==
    [code |-> code, asks |-> asks, refuses |-> refuses, writes |-> writes, hears |-> hears]
Result == <<Loosely(Int32("result"))>>

PxStartRemoteAbility ==
    Proxy("START_REMOTE_ABILITY", "StartRemoteAbility", {},
          <<Parcelable("want"), Int32("callerUid"), Int32("requestCode"), Uint32("accessToken")>>, Result)
PxStartAbilityFromRemote ==
    Proxy("START_ABILITY_FROM_REMOTE", "StartAbilityFromRemote", {},
          <<Parcelable("want"), Parcelable("abilityInfo"), Int32("requestCode"), Int32("uid"),
            Str("sourceDeviceId")>> \o AccountWrites \o <<Json("accessToken")>>, Result)
PxSendResultFromRemote ==
    Proxy("SEND_RESULT_FROM_REMOTE", "SendResultFromRemote", {},
          <<Parcelable("want"), Int32("requestCode"), Int32("uid"), Str("sourceDeviceId")>>
          \o AccountWrites \o <<Int32("resultCode"), Json("extraInfo")>>, Result)
PxContinueMission ==
    Proxy("CONTINUE_MISSION", "ContinueMission", {"callback"},
          <<Str("srcDeviceId"), Str("dstDeviceId"), Int32("missionId"), Object("callback"),
            Parcelable("wantParams")>>, Result)
PxStartContinuation ==
    Proxy("START_CONTINUATION", "StartContinuation", {},
          <<Parcelable("want"), Int32("missionId"), Int32("callerUid"), Int32("status"),
            Uint32("accessToken")>>, Result)
PxNotifyCompleteContinuation ==
    Proxy("NOTIFY_COMPLETE_CONTINUATION", "NotifyCompleteContinuation", {},
          <<Str16("devId"), Int32("sessionId"), Bool("isSuccess")>>, <<>>)
PxNotifyContinuationResultFromRemote ==
    Proxy("NOTIFY_CONTINUATION_RESULT_FROM_REMOTE", "NotifyContinuationResultFromRemote", {},
          <<Int32("sessionId"), Bool("isSuccess")>>, Result)
PxConnectRemoteAbility ==
    Proxy("CONNECT_REMOTE_ABILITY", "ConnectRemoteAbility", {"connect"},
          <<Parcelable("want"), Object("connect"), Int32("callerUid"), Int32("callerPid"),
            Uint32("accessToken")>>, Result)
PxDisconnectRemoteAbility ==
    Proxy("DISCONNECT_REMOTE_ABILITY", "DisconnectRemoteAbility", {"connect"},
          <<Object("connect"), Int32("callerUid"), Uint32("accessToken")>>, Result)
PxConnectAbilityFromRemote ==
    Proxy("CONNECT_ABILITY_FROM_REMOTE", "ConnectAbilityFromRemote", {"connect"},
          <<Parcelable("want"), Parcelable("abilityInfo"), Object("connect"), Int32("uid"),
            Int32("pid"), Str("sourceDeviceId")>> \o AccountWrites \o <<Json("accessToken")>>, Result)
PxDisconnectAbilityFromRemote ==
    Proxy("DISCONNECT_ABILITY_FROM_REMOTE", "DisconnectAbilityFromRemote", {"connect"},
          <<Object("connect"), Int32("uid"), Str("sourceDeviceId")>>, Result)
PxNotifyProcessDiedFromRemote ==
    Proxy("NOTIFY_PROCESS_DIED_FROM_REMOTE", "NotifyProcessDiedFromRemote", {},
          <<Int32("uid"), Int32("pid"), Str("sourceDeviceId")>>, Result)
PxStartSyncRemoteMissions ==
    Proxy("START_SYNC_MISSIONS", "StartSyncRemoteMissions", {},
          <<Str16("devId"), Bool("fixConflict"), Int64("tag")>>, Result)
PxStartSyncMissionsFromRemote ==
    Proxy("START_SYNC_MISSIONS_FROM_REMOTE", "StartSyncMissionsFromRemote", {},
          CallerInfoMarshalling, <<Loosely(Int32("VERSION"))>> \o ReadDstbMissionInfosFromParcel)
PxStopSyncRemoteMissions ==
    Proxy("STOP_SYNC_MISSIONS", "StopSyncRemoteMissions", {}, <<Str16("devId")>>, Result)
PxStopSyncMissionsFromRemote ==
    Proxy("STOP_SYNC_MISSIONS_FROM_REMOTE", "StopSyncMissionsFromRemote", {},
          CallerInfoMarshalling, Result)
PxRegisterMissionListener ==
    Proxy("REGISTER_MISSION_LISTENER", "RegisterMissionListener", {},
          <<Str16("devId"), Object("obj")>>, Result)
PxUnRegisterMissionListener ==
    Proxy("UNREGISTER_MISSION_LISTENER", "UnRegisterMissionListener", {},
          <<Str16("devId"), Object("obj")>>, Result)
PxGetMissionInfos ==
    Proxy("GET_MISSION_INFOS", "GetMissionInfos", {},
          <<Str16("deviceId"), Int32("numMissions")>>, ReadMissionInfosFromParcel)
PxNotifyMissionsChangedFromRemote ==
    Proxy("NOTIFY_MISSIONS_CHANGED_FROM_REMOTE", "NotifyMissionsChangedFromRemote", {},
          <<Int32("version")>> \o WriteDstbMissionInfosToParcel
          \o <<Str("sourceDeviceId"), Int32("uid"), Int32("pid"), Int32("dmsVersion")>>, Result)
PxGetRemoteMissionSnapshotInfo ==
    Proxy("GET_REMOTE_MISSION_SNAPSHOT_INFO", "GetRemoteMissionSnapshotInfo",
          {"networkId", "missionId"}, <<Str("networkId"), Int32("missionId")>>,
          <<Loosely(Parcelable("missionSnapshot"))>>)
PxStartRemoteAbilityByCall ==
    Proxy("START_REMOTE_ABILITY_BY_CALL", "StartRemoteAbilityByCall", {"connect"},
          <<Parcelable("want"), Object("connect"), Int32("callerUid"), Int32("callerPid"),
            Uint32("accessToken")>>, Result)
PxReleaseRemoteAbility ==
    Proxy("RELEASE_REMOTE_ABILITY", "ReleaseRemoteAbility", {"connect"},
          <<Object("connect"), Parcelable("element")>>, Result)
PxStartAbilityByCallFromRemote ==
    Proxy("START_ABILITY_BY_CALL_FROM_REMOTE", "StartAbilityByCallFromRemote", {"connect"},
          <<Object("connect"), Int32("uid"), Int32("pid"), Str("sourceDeviceId")>>
          \o AccountWrites \o <<Json("accessToken"), Parcelable("want")>>, Result)
PxReleaseAbilityFromRemote ==
    Proxy("RELEASE_ABILITY_FROM_REMOTE", "ReleaseAbilityFromRemote", {"connect"},
          <<Object("connect"), Parcelable("element"), Str("sourceDeviceId"), Json("extraInfo")>>, Result)
PxStartRemoteFreeInstall ==
    Proxy("START_REMOTE_FREE_INSTALL", "StartRemoteFreeInstall", {"callback"},
          <<Parcelable("want"), Int32("callerUid"), Int32("requestCode"), Uint32("accessToken"),
            Object("callback")>>, Result)
PxStartFreeInstallFromRemote ==
    Proxy("START_FREE_INSTALL_FROM_REMOTE", "StartFreeInstallFromRemote", {},
          <<Parcelable("want"), Int32("uid"), Str("sourceDeviceId")>> \o AccountWrites
          \o <<Int64("taskId"), Parcelable("bundleNames"), Json("accessToken, requestCode")>>, Result)
PxNotifyCompleteFreeInstallFromRemote ==
    Proxy("NOTIFY_COMPLETE_FREE_INSTALL_FROM_REMOTE", "NotifyCompleteFreeInstallFromRemote", {},
          <<Int64("taskId"), Int32("resultCode")>>, Result)
PxRegisterDistributedComponentListener ==
    Proxy("REGISTER_DISTRIBUTED_COMPONENT_LISTENER", "RegisterDistributedComponentListener",
          {"callback"}, <<Object("callback")>>, Result)
PxGetDistributedComponentList ==
    Proxy("GET_DISTRIBUTED_COMPONENT_LIST", "GetDistributedComponentList", {}, <<>>,
          Result \o <<StrVec("distributedComponents")>>)

(* The proxies of the continuation manager, of the notifier of a selected device, and  *)
(* of the callback of an installation.                                                 *)
ExtraParams == <<Int32("hasParams")>> \o ContinuationExtraParamsMarshalling
PxRegister == Proxy("REGISTER", "Register", {}, ExtraParams, Result \o <<Int32("token")>>)
PxUnregister == Proxy("UNREGISTER", "Unregister", {}, <<Int32("token")>>, Result)
PxRegisterDeviceSelectionCallback ==
    Proxy("REGISTER_DEVICE_SELECTION_CALLBACK", "RegisterDeviceSelectionCallback",
          {"cbType", "notifier"}, <<Int32("token"), Str("cbType"), Object("notifier")>>, Result)
PxUnregisterDeviceSelectionCallback ==
    Proxy("UNREGISTER_DEVICE_SELECTION_CALLBACK", "UnregisterDeviceSelectionCallback", {"cbType"},
          <<Int32("token"), Str("cbType")>>, Result)
PxUpdateConnectStatus ==
    Proxy("UPDATE_CONNECT_STATUS", "UpdateConnectStatus", {},
          <<Int32("token"), Str("deviceId"), Int32("deviceConnectStatus")>>, Result)
PxStartDeviceManager ==
    Proxy("START_DEVICE_MANAGER", "StartDeviceManager", {}, <<Int32("token")>> \o ExtraParams, Result)
PxOnDeviceConnect ==
    Proxy("EVENT_DEVICE_CONNECT", "OnDeviceConnect", {}, WriteContinuationResultsToParcel, <<>>)
PxOnDeviceDisconnect ==
    Proxy("EVENT_DEVICE_DISCONNECT", "OnDeviceDisconnect", {}, <<StrVec("deviceIds")>>, <<>>)
PxOnInstallFinished ==
    Proxy("ON_FREE_INSTALL_DONE", "OnInstallFinished", {},
          <<Int32("resultCode"), Parcelable("want"), Int32("requestCode")>>, <<>>)

(* The parcel a snapshot travels in: through the data storage, not as a request. *)
PxSnapshot == Proxy("SNAPSHOT", "Create", {}, WriteSnapshotInfo, <<>>)

Proxies ==
    {PxStartRemoteAbility, PxStartAbilityFromRemote, PxSendResultFromRemote, PxContinueMission,
     PxStartContinuation, PxNotifyCompleteContinuation, PxNotifyContinuationResultFromRemote,
     PxConnectRemoteAbility, PxDisconnectRemoteAbility, PxConnectAbilityFromRemote,
     PxDisconnectAbilityFromRemote, PxNotifyProcessDiedFromRemote, PxStartSyncRemoteMissions,
     PxStartSyncMissionsFromRemote, PxStopSyncRemoteMissions, PxStopSyncMissionsFromRemote,
     PxRegisterMissionListener, PxUnRegisterMissionListener, PxGetMissionInfos,
     PxNotifyMissionsChangedFromRemote, PxGetRemoteMissionSnapshotInfo, PxStartRemoteAbilityByCall,
     PxReleaseRemoteAbility, PxStartAbilityByCallFromRemote, PxReleaseAbilityFromRemote,
     PxStartRemoteFreeInstall, PxStartFreeInstallFromRemote, PxNotifyCompleteFreeInstallFromRemote,
     PxRegisterDistributedComponentListener, PxGetDistributedComponentList, PxRegister, PxUnregister,
     PxRegisterDeviceSelectionCallback, PxUnregisterDeviceSelectionCallback, PxUpdateConnectStatus,
     PxStartDeviceManager, PxOnDeviceConnect, PxOnDeviceDisconnect, PxOnInstallFinished, PxSnapshot}

-----------------------------------------------------------------------------
(* A handler: who may call it, the fields it reads, whether it then asks for the       *)
(* permission to synchronise data of the application it is called for, the service     *)
(* function it calls, and how the answer goes back: written in the reply whether or    *)
(* not that succeeds (PARCEL_WRITE_REPLY_NOERROR), written with the result looked at,   *)
(* returned as the result of the transaction (the fields only if the service did it),  *)
(* or not at all.                                                                       *)
Handler(gate, reads, dataSync, calls, answer) ==
    [gate |-> gate, reads |-> reads, dataSync |-> dataSync, calls |-> calls, answer |-> answer]
InReply == [how |-> "loose", fields |-> <<Int32("result")>>]
Checked(fields) == [how |-> "checked", fields |-> fields]
Returned(fields) == [how |-> "returned", fields |-> fields]
NoAnswer == [how |-> "none", fields |-> <<>>]

StartRemoteAbilityInner ==
    Handler("foundation", <<Parcelable("want"), Int32("callerUid"), Int32("requestCode"),
            Uint32("accessToken")>>, TRUE, "StartRemoteAbility", InReply)
StartAbilityFromRemoteInner ==
    Handler("system", <<Parcelable("want"), Parcelable("abilityInfo"), Int32("requestCode"),
            Int32("uid"), Str("sourceDeviceId")>> \o AccountReads \o <<Loosely(Json("accessToken"))>>,
            FALSE, "StartAbilityFromRemote",
            Checked(<<Int32("result"), Int64("time"), Str("package"), Str("deviceId")>>))
SendResultFromRemoteInner ==
    Handler("system", <<Parcelable("want"), Int32("requestCode"), Int32("uid"), Str("sourceDeviceId")>>
            \o AccountReads \o <<Int32("resultCode"), Loosely(Json("extraInfo"))>>,
            FALSE, "SendResultFromRemote", Checked(<<Int32("result"), Int64("time")>>))
ContinueMissionInner ==
    Handler("side", <<Str("srcDeviceId"), Str("dstDeviceId"), Int32("missionId"),
            NotOdd(Object("callback")), Parcelable("wantParams")>>,
            FALSE, "ContinueMission", InReply)
StartContinuationInner ==
    Handler("foundation", <<Parcelable("want"), Loosely(Int32("missionId")),
            Loosely(Int32("callerUid")), Loosely(Int32("status")), Uint32("accessToken")>>,
            TRUE, "StartContinuation", InReply)
NotifyCompleteContinuationInner ==
    Handler("foundation", <<NotOdd(Str16("devId")), Int32("sessionId"), Bool("isSuccess")>>,
            FALSE, "NotifyCompleteContinuation", NoAnswer)
NotifyContinuationResultFromRemoteInner ==
    Handler("system", <<Int32("sessionId"), Bool("isSuccess")>>,
            FALSE, "NotifyContinuationResultFromRemote", Returned(<<>>))
ConnectRemoteAbilityInner ==
    Handler("foundation", <<Parcelable("want"), Loosely(Object("connect")), Int32("callerUid"),
            Int32("callerPid"), Uint32("accessToken")>>, TRUE, "ConnectRemoteAbility", InReply)
DisconnectRemoteAbilityInner ==
    Handler("foundation", <<Loosely(Object("connect")), Int32("callerUid"), Uint32("accessToken")>>,
            TRUE, "DisconnectRemoteAbility", InReply)
ConnectAbilityFromRemoteInner ==
    Handler("system", <<Parcelable("want"), Parcelable("abilityInfo"), Loosely(Object("connect")),
            Int32("uid"), Int32("pid"), Str("sourceDeviceId")>> \o AccountReads
            \o <<Loosely(Json("accessToken"))>>, FALSE, "ConnectAbilityFromRemote",
            Checked(<<Int32("result"), Int64("time"), Str("package"), Str("deviceId")>>))
DisconnectAbilityFromRemoteInner ==
    Handler("system", <<Loosely(Object("connect")), Int32("uid"), Str("sourceDeviceId")>>,
            FALSE, "DisconnectAbilityFromRemote", InReply)
\* Mutant of NotifyProcessDiedFromRemoteInner: uid and pid are read in the other order.
NotifyProcessDiedFromRemoteInner_Swapped ==
    Handler("system", <<Int32("pid"), Int32("uid"), Str("sourceDeviceId")>>,
            FALSE, "NotifyProcessDiedFromRemote", InReply)
NotifyProcessDiedFromRemoteInner ==
    Handler("system", <<Int32("uid"), Int32("pid"), Str("sourceDeviceId")>>,
            FALSE, "NotifyProcessDiedFromRemote", InReply)
GetMissionInfosInner ==
    Handler("foundation", <<Loosely(Str16("deviceId")), Int32("numMissions")>>,
            FALSE, "GetMissionInfos", Returned(WriteMissionInfosToParcel))
GetRemoteMissionSnapshotInfoInner ==
    Handler("foundation", <<NotOdd(Str("networkId")), NotOdd(Int32("missionId"))>>,
            FALSE, "GetRemoteMissionSnapshotInfo", Returned(<<Parcelable("missionSnapshot")>>))
RegisterMissionListenerInner ==
    Handler("foundation", <<NotOdd(Str16("devId")), NotOdd(Object("obj"))>>,
            FALSE, "RegisterMissionListener", InReply)
UnRegisterMissionListenerInner ==
    Handler("foundation", <<NotOdd(Str16("devId")), NotOdd(Object("obj"))>>,
            FALSE, "UnRegisterMissionListener", InReply)
StartSyncMissionsFromRemoteInner ==
    Handler("system", CallerInfoUnmarshalling, FALSE, "StartSyncMissionsFromRemote",
            Returned(<<Int32("VERSION")>> \o WriteDstbMissionInfosToParcel))
StopSyncRemoteMissionsInner ==
    Handler("foundation", <<NotOdd(Str16("devId"))>>, FALSE, "StopSyncRemoteMissions", InReply)
StopSyncMissionsFromRemoteInner ==
    Handler("system", CallerInfoUnmarshalling, FALSE, "StopSyncMissionsFromRemote", InReply)
NotifyMissionsChangedFromRemoteInner ==
    Handler("system", <<Loosely(Int32("version"))>> \o ReadDstbMissionInfosFromParcel
            \o Looselys(<<Str("sourceDeviceId"), Int32("uid"), Int32("pid"), Int32("dmsVersion")>>),
            FALSE, "NotifyMissionsChangedFromRemote", InReply)
StartSyncRemoteMissionsInner ==
    Handler("foundation", <<NotOdd(Str16("devId")), Loosely(Bool("fixConflict")),
            Loosely(Int64("tag"))>>, FALSE, "StartSyncRemoteMissions", InReply)
StartRemoteAbilityByCallInner ==
    Handler("foundation", <<Parcelable("want"), Loosely(Object("connect")), Int32("callerUid"),
            Int32("callerPid"), Uint32("accessToken")>>, TRUE, "StartRemoteAbilityByCall", InReply)
ReleaseRemoteAbilityInner ==
    Handler("foundation", <<Loosely(Object("connect")), Parcelable("element")>>,
            FALSE, "ReleaseRemoteAbility", InReply)
StartAbilityByCallFromRemoteInner ==
    Handler("system", <<Loosely(Object("connect")), Int32("uid"), Int32("pid"), Str("sourceDeviceId")>>
            \o AccountReads \o <<NotOdd(Json("accessToken")), Parcelable("want")>>,
            FALSE, "StartAbilityByCallFromRemote", Checked(<<Int32("result")>>))
ReleaseAbilityFromRemoteInner ==
    Handler("system", <<Loosely(Object("connect")), Parcelable("element"), Str("sourceDeviceId"),
            Json("extraInfo")>>, FALSE, "ReleaseAbilityFromRemote", InReply)
RegisterDistributedComponentListenerInner ==
    Handler("system", <<Loosely(Object("callback"))>>,
            FALSE, "RegisterDistributedComponentListener", InReply)
GetDistributedComponentListInner ==
    Handler("system", <<>>, FALSE, "GetDistributedComponentList",
            Checked(<<Int32("result"), StrVec("distributedComponents")>>))
StartRemoteFreeInstallInner ==
    Handler("foundation", <<Parcelable("want"), Int32("callerUid"), Int32("requestCode"),
            Uint32("accessToken"), NotOdd(Object("callback"))>>,
            TRUE, "StartRemoteFreeInstall", InReply)
StartFreeInstallFromRemoteInner ==
    Handler("system", <<Parcelable("want"), Int32("uid"), Str("sourceDeviceId")>> \o AccountReads
            \o <<Int64("taskId"), Unseen(Parcelable("bundleNames")),
                 Loosely(Json("accessToken, requestCode"))>>,
            FALSE, "StartFreeInstallFromRemote", Checked(<<Int32("result"), Int64("time")>>))
NotifyCompleteFreeInstallFromRemoteInner ==
    Handler("system", <<Int64("taskId"), Int32("resultCode")>>,
            FALSE, "NotifyCompleteFreeInstallFromRemote", InReply)

ReadExtraParams == <<Int32("hasParams")>> \o ContinuationExtraParamsReadFromParcel
\* Mutant of RegisterInner: the token is written before the result.
RegisterInner_TokenFirst == Handler("anyone", ReadExtraParams, FALSE, "Register",
                                    Checked(<<Int32("token"), Int32("result")>>))
RegisterInner == Handler("anyone", ReadExtraParams, FALSE, "Register",
                         Checked(<<Int32("result"), Int32("token")>>))
UnregisterInner ==
    Handler("anyone", <<Int32("token")>>, FALSE, "Unregister", Checked(<<Int32("result")>>))
RegisterDeviceSelectionCallbackInner ==
    Handler("anyone", <<Int32("token"), NotOdd(Str("cbType")), NotOdd(Object("notifier"))>>,
            FALSE, "RegisterDeviceSelectionCallback", Checked(<<Int32("result")>>))
UnregisterDeviceSelectionCallbackInner ==
    Handler("anyone", <<Int32("token"), NotOdd(Str("cbType"))>>,
            FALSE, "UnregisterDeviceSelectionCallback", Checked(<<Int32("result")>>))
UpdateConnectStatusInner ==
    Handler("anyone", <<Int32("token"), Str("deviceId"), Loosely(Int32("deviceConnectStatus"))>>,
            FALSE, "UpdateConnectStatus", Checked(<<Int32("result")>>))
StartDeviceManagerInner ==
    Handler("anyone", <<Int32("token")>> \o ReadExtraParams, FALSE, "StartDeviceManager",
            Checked(<<Int32("result")>>))
OnDeviceConnectInner ==
    Handler("anyone", ReadContinuationResultsFromParcel, FALSE, "OnDeviceConnect", NoAnswer)
OnDeviceDisconnectInner ==
    Handler("anyone", <<StrVec("deviceIds")>>, FALSE, "OnDeviceDisconnect", NoAnswer)
OnInstallFinishedInner ==
    Handler("anyone", <<Loosely(Int32("resultCode")), Parcelable("want"), Loosely(Int32("requestCode"))>>,
            FALSE, "OnInstallFinished", NoAnswer)
SnapshotCreate == Handler("anyone", FillSnapShot, FALSE, "Create", NoAnswer)

(* The tables of the stubs, from the request code to the handler. *)
localFuncsMap ==
    [START_REMOTE_ABILITY |-> StartRemoteAbilityInner,
     CONTINUE_MISSION |-> ContinueMissionInner,
     START_CONTINUATION |-> StartContinuationInner,
     NOTIFY_COMPLETE_CONTINUATION |-> NotifyCompleteContinuationInner,
     CONNECT_REMOTE_ABILITY |-> ConnectRemoteAbilityInner,
     DISCONNECT_REMOTE_ABILITY |-> DisconnectRemoteAbilityInner,
     GET_REMOTE_MISSION_SNAPSHOT_INFO |-> GetRemoteMissionSnapshotInfoInner,
     REGISTER_MISSION_LISTENER |-> RegisterMissionListenerInner,
     UNREGISTER_MISSION_LISTENER |-> UnRegisterMissionListenerInner,
     GET_MISSION_INFOS |-> GetMissionInfosInner,
     START_SYNC_MISSIONS |-> StartSyncRemoteMissionsInner,
     STOP_SYNC_MISSIONS |-> StopSyncRemoteMissionsInner,
     START_REMOTE_ABILITY_BY_CALL |-> StartRemoteAbilityByCallInner,
     RELEASE_REMOTE_ABILITY |-> ReleaseRemoteAbilityInner,
     REGISTER_DISTRIBUTED_COMPONENT_LISTENER |-> RegisterDistributedComponentListenerInner,
     GET_DISTRIBUTED_COMPONENT_LIST |-> GetDistributedComponentListInner,
     START_REMOTE_FREE_INSTALL |-> StartRemoteFreeInstallInner]
remoteFuncsMap ==
    [START_ABILITY_FROM_REMOTE |-> StartAbilityFromRemoteInner,
     SEND_RESULT_FROM_REMOTE |-> SendResultFromRemoteInner,
     NOTIFY_CONTINUATION_RESULT_FROM_REMOTE |-> NotifyContinuationResultFromRemoteInner,
     CONNECT_ABILITY_FROM_REMOTE |-> ConnectAbilityFromRemoteInner,
     DISCONNECT_ABILITY_FROM_REMOTE |-> DisconnectAbilityFromRemoteInner,
     NOTIFY_PROCESS_DIED_FROM_REMOTE |-> NotifyProcessDiedFromRemoteInner,
     START_SYNC_MISSIONS_FROM_REMOTE |-> StartSyncMissionsFromRemoteInner,
     STOP_SYNC_MISSIONS_FROM_REMOTE |-> StopSyncMissionsFromRemoteInner,
     NOTIFY_MISSIONS_CHANGED_FROM_REMOTE |-> NotifyMissionsChangedFromRemoteInner,
     CONTINUE_MISSION |-> ContinueMissionInner,
     START_ABILITY_BY_CALL_FROM_REMOTE |-> StartAbilityByCallFromRemoteInner,
     RELEASE_ABILITY_FROM_REMOTE |-> ReleaseAbilityFromRemoteInner,
     START_FREE_INSTALL_FROM_REMOTE |-> StartFreeInstallFromRemoteInner,
     NOTIFY_COMPLETE_FREE_INSTALL_FROM_REMOTE |-> NotifyCompleteFreeInstallFromRemoteInner]
funcsMap ==
    [REGISTER |-> RegisterInner, UNREGISTER |-> UnregisterInner,
     REGISTER_DEVICE_SELECTION_CALLBACK |-> RegisterDeviceSelectionCallbackInner,
     UNREGISTER_DEVICE_SELECTION_CALLBACK |-> UnregisterDeviceSelectionCallbackInner,
     UPDATE_CONNECT_STATUS |-> UpdateConnectStatusInner,
     START_DEVICE_MANAGER |-> StartDeviceManagerInner]
otherFuncs ==
    [EVENT_DEVICE_CONNECT |-> OnDeviceConnectInner, EVENT_DEVICE_DISCONNECT |-> OnDeviceDisconnectInner,
     ON_FREE_INSTALL_DONE |-> OnInstallFinishedInner, SNAPSHOT |-> SnapshotCreate]
=============================================================================
