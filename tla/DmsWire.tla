------------------------------- MODULE DmsWire -------------------------------
(* One request of the distributed scheduler on its way: the proxy writes it, the IPC   *)
(* carries it, the stub finds the handler, which reads it field by field and calls the  *)
(* service, and the answer goes the same way back.  Any request may be sent by any       *)
(* caller to the stub's local or remote side.  What can go wrong on the way: an argument  *)
(* that is null, empty or negative, a write that fails, a transaction that is lost before  *)
(* or after it was served, an object that cannot be read.  What the requests carry is in   *)
(* DmsParcels, who may reach an ability in DmsPermission.                                   *)
EXTENDS DmsParcels, DmsPermission, Naturals

CONSTANT OtherCases    \* the cases, besides the good one, of a caller that wants an ability
GoodCase == [addressed |-> "here", found |-> "page", forResult |-> FALSE, groups |-> {"peer"},
             access |-> TRUE, visible |-> TRUE, continuation |-> FALSE, sameApp |-> TRUE,
             needsPermission |-> TRUE, allocated |-> TRUE, granted |-> TRUE]
ASSUME CasesAssumption == OtherCases \subseteq Cases

VARIABLES
    phase,      \* how far the request is
    req,        \* the request: proxy, side of the stub, caller, token, argument that is odd, case
    parcel,     \* what travels: a sequence of fields with their values
    todo,       \* the fields the reader has not read
    got,        \* the arguments it has read
    status,     \* how the transaction ends
    served,     \* the service function that was called, with what, and its result
    faults      \* what went wrong on the way

vars == <<phase, req, parcel, todo, got, status, served, faults>>

Args(fields) == {fields[i].arg : i \in DOMAIN fields}
Without(s, i) == SubSeq(s, 1, i - 1) \o SubSeq(s, i + 1, Len(s))
NotServed == [by |-> "nobody", with |-> <<>>, result |-> "none", reached |-> FALSE]

(* The four requests that reach an ability of this device at once.  (That of a free       *)
(* install asks for the permission when the installation is over.)                         *)
AbilityRequests == {"StartAbilityFromRemote", "SendResultFromRemote", "ConnectAbilityFromRemote",
                    "StartAbilityByCallFromRemote"}

(* The arguments that can be null, empty or negative and be told by it.                    *)
CanBeOdd(px) ==
    {f.arg : f \in {px.writes[i] : i \in {j \in DOMAIN px.writes :
        px.writes[j].type \in {"RemoteObject", "String", "String16"} \/ px.writes[j].arg = "missionId"}}}

-----------------------------------------------------------------------------
Init ==
    /\ phase = "idle"
    /\ req = [px |-> PxSnapshot, side |-> "local", who |-> "system", token |-> "native",
              odd |-> "none", case |-> GoodCase]
    /\ parcel = <<>> /\ todo = <<>> /\ got = <<>>
    /\ status = "none" /\ served = NotServed /\ faults = {}

(* Before a device asks another for an ability: it is another device (CheckDeviceId), and   *)
(* the two share a group.                                                                     *)
StartRemoteAbility(c) == c.addressed # "itself" /\ GetAccountInfo(c.groups)

(* Some caller asks for something; one thing out of the ordinary at a time. *)
Begin ==
    /\ phase = "idle"
    /\ \E px \in Proxies, side \in {"local", "remote"}, who \in Callers, token \in Tokens,
          case \in {GoodCase} \union OtherCases :
       \E odd \in {"none"} \union CanBeOdd(px) :
          /\ token # "native" => "accessToken" \in Args(px.writes)
          /\ case # GoodCase => /\ px.asks \in AbilityRequests
                                /\ StartRemoteAbility(case)
                                /\ side = "remote" /\ who = "system" /\ token = "native" /\ odd = "none"
          /\ req' = [px |-> px, side |-> side, who |-> who, token |-> token, odd |-> odd, case |-> case]
    /\ phase' = "asked"
    /\ UNCHANGED <<parcel, todo, got, status, served, faults>>

Ends(how) == phase' = "back" /\ status' = how /\ parcel' = <<>> /\ todo' = <<>> /\ got' = <<>>

(* PARCEL_WRITE_HELPER: the proxy gives up when a field cannot be written (a null object  *)
(* never can), or when it refuses an argument, or has no remote object.                    *)
ProxyGivesUp ==
    /\ phase = "asked"
    /\ Ends("error")
    /\ UNCHANGED <<req, served, faults>>

Value(a) == IF a = req.odd THEN "odd" ELSE a
InParcel(fields) == [i \in DOMAIN fields |-> [type |-> fields[i].type, value |-> Value(fields[i].arg)]]
CanBeWritten(fields) ==
    \A i \in DOMAIN fields : fields[i].arg = req.odd => fields[i].type # "RemoteObject"

(* The proxy has written the request; a field whose write nobody looks at may be missing.  *)
ProxyWrites ==
    /\ phase = "asked"
    /\ req.odd \notin req.px.refuses
    /\ CanBeWritten(req.px.writes)
    /\ LET all == InParcel(req.px.writes) IN
       \/ parcel' = all /\ faults' = faults
       \/ \E i \in DOMAIN all : /\ req.px.writes[i].missing = "default"
                                /\ parcel' = Without(all, i)
                                /\ faults' = faults \union {"dropped"}
    /\ phase' = "sent"
    /\ UNCHANGED <<req, todo, got, status, served>>

(* SendRequest fails, and the request is not delivered. *)
RequestLost ==
    /\ phase = "sent"
    /\ Ends("error")
    /\ UNCHANGED <<req, served, faults>>

-----------------------------------------------------------------------------
(* OnRemoteRequest: the table depends on where the call comes from.                       *)
FuncsMap == IF req.side = "local" THEN localFuncsMap ELSE remoteFuncsMap
Known ==
    \/ req.px.code \in DOMAIN FuncsMap
    \/ req.px.code \in DOMAIN funcsMap
    \/ req.px.code \in DOMAIN otherFuncs
Func == IF req.px.code \in DOMAIN FuncsMap THEN FuncsMap[req.px.code]
        ELSE IF req.px.code \in DOMAIN funcsMap THEN funcsMap[req.px.code]
        ELSE otherFuncs[req.px.code]

GateOpens(gate) ==
    CASE gate = "foundation" -> IsFoundationCall(req.who)
      [] gate = "system" -> CheckCallingUid(req.who)
      [] gate = "side" -> IF req.side = "local" THEN IsFoundationCall(req.who)
                          ELSE CheckCallingUid(req.who)
      [] gate = "anyone" -> TRUE

OnRemoteRequest ==
    /\ phase = "sent"
    /\ IF Known /\ GateOpens(Func.gate)
       THEN phase' = "reading" /\ todo' = Func.reads /\ UNCHANGED <<parcel, got, status>>
       ELSE Ends("error")
    /\ UNCHANGED <<req, served, faults>>

(* One field is read from the front of the parcel, by the handler or, of the answer, by   *)
(* the proxy.  The bytes do not say what they are: where another type stands, or nothing,   *)
(* the read fails or yields what is there.                                                   *)
Fits(f) == parcel # <<>> /\ Head(parcel).type = f.type
Takes(f, v) ==
    /\ got' = [a \in DOMAIN got \union {f.arg} |-> IF a = f.arg THEN v ELSE got[a]]
    /\ todo' = Tail(todo)
    /\ parcel' = IF parcel = <<>> THEN <<>> ELSE Tail(parcel)
    /\ UNCHANGED <<phase, status>>
IsMissing(f, default) ==
    IF f.missing = "default" THEN Takes(f, default) /\ faults' = faults
    ELSE /\ Ends("error")
         /\ faults' = faults \union (IF f.missing = "crash" THEN {"crash"} ELSE {})
                              \union (IF phase = "hearing" /\ Fits(f) THEN {"unreadable"} ELSE {})

ReadField ==
    /\ phase \in {"reading", "hearing"} /\ todo # <<>>
    /\ LET f == Head(todo) IN
       \/ /\ Fits(f) /\ ~(f.missing = "refused" /\ Head(parcel).value = "odd")
          /\ Takes(f, Head(parcel).value) /\ faults' = faults
       \/ /\ Fits(f) /\ f.missing = "refused" /\ Head(parcel).value = "odd"
          /\ Ends("error") /\ faults' = faults
       \/ Fits(f) /\ f.type \in {"Parcelable", "RemoteObject"} /\ IsMissing(f, "null")
       \/ ~Fits(f) /\ IsMissing(f, "default")
       \/ ~Fits(f) /\ parcel # <<>> /\ Takes(f, "garbage") /\ faults' = faults
    /\ UNCHANGED <<req, served>>

(* What the service makes of it.  A null connection or callback is refused by every        *)
(* function that takes one; an ability is reached if the permission check lets it.           *)
NullObject(h) ==
    \E i \in DOMAIN h.reads : /\ h.reads[i].type = "RemoteObject"
                              /\ got[h.reads[i].arg] \in {"null", "default"}
Account ==
    [accountType |-> IF got["accountType"] = "accountType"
                     THEN GetRelatedGroups(req.case.groups).accountType ELSE "default",
     groupIdList |-> GetRelatedGroups(req.case.groups).groupIdList]
HasToken == "accessToken" \in DOMAIN got /\ got["accessToken"] = "accessToken"

MayReachAbility(function) ==
    CASE function = "ConnectAbilityFromRemote" -> CheckDPermission(req.case, Account, HasToken, TRUE)
      [] function = "StartAbilityByCallFromRemote" -> CheckGetCallerPermission(req.case, Account, HasToken)
      [] OTHER -> CheckDPermission(req.case, Account, HasToken, FALSE)

Results(h) ==
    IF NullObject(h) THEN {"error"}
    ELSE IF h.calls \notin AbilityRequests THEN {"ok", "error"}
    ELSE IF CheckDeviceIdFromRemote(req.case) /\ MayReachAbility(h.calls) THEN {"ok", "error"}
    ELSE {"error"}

(* CheckPermission(DISTRIBUTED_DATASYNC) of the handlers that ask for it, then the call. *)
HandlerServes ==
    /\ phase = "reading" /\ todo = <<>>
    /\ \/ /\ Func.dataSync /\ ~CheckPermission(req.token)
          /\ Ends("error") /\ UNCHANGED served
       \/ /\ Func.dataSync => CheckPermission(req.token)
          /\ \E r \in Results(Func) :
                served' = [by |-> Func.calls, with |-> got, result |-> r,
                           reached |-> r = "ok" /\ Func.calls \in AbilityRequests]
          /\ phase' = "served"
          /\ UNCHANGED <<parcel, todo, got, status>>
    /\ UNCHANGED <<req, faults>>

-----------------------------------------------------------------------------
(* The answer.  The value of the field result is that of the service.                      *)
Answer(fields) ==
    [i \in DOMAIN fields |-> [type |-> fields[i].type,
        value |-> IF fields[i].arg = "result" THEN served.result ELSE fields[i].arg]]
Replies(fields) == phase' = "replied" /\ parcel' = Answer(fields)

HandlerAnswers ==
    /\ phase = "served"
    /\ LET a == Func.answer IN
       \/ /\ a.how = "loose" /\ Replies(a.fields) /\ faults' = faults /\ UNCHANGED <<todo, got, status>>
       \/ /\ a.how = "loose" /\ Replies(<<>>) /\ faults' = faults \union {"unwritten"}
          /\ UNCHANGED <<todo, got, status>>
       \/ /\ a.how = "none" /\ Replies(<<>>) /\ faults' = faults /\ UNCHANGED <<todo, got, status>>
       \/ /\ a.how = "checked" \/ (a.how = "returned" /\ served.result = "ok")
          /\ Replies(a.fields) /\ faults' = faults /\ UNCHANGED <<todo, got, status>>
       \/ /\ a.how = "returned" /\ served.result = "error"
          /\ Ends("error") /\ faults' = faults
       \/ /\ a.how \in {"checked", "returned"} /\ a.fields # <<>>     \* a write of the answer fails
          /\ Ends("error") /\ faults' = faults \union {"afterwards"}
       \/ /\ Func.calls = "GetRemoteMissionSnapshotInfo"                 \* no uuid to keep it under
          /\ Ends("error") /\ faults' = faults \union {"afterwards"}
    /\ UNCHANGED <<req, served>>

(* The transaction fails on its way back, or the proxy reads the answer. *)
AnswerLost ==
    /\ phase = "replied"
    /\ Ends("error")
    /\ faults' = faults \union {"lost"}
    /\ UNCHANGED <<req, served>>

ProxyHears ==
    /\ phase = "replied"
    /\ phase' = "hearing" /\ todo' = req.px.hears /\ got' = <<>>
    /\ UNCHANGED <<req, parcel, status, served, faults>>

ProxyReturns ==
    /\ phase = "hearing" /\ todo = <<>>
    /\ phase' = "back"
    /\ status' = IF "result" \in DOMAIN got /\ got["result"] = "error" THEN "error" ELSE "ok"
    /\ UNCHANGED <<req, parcel, todo, got, served, faults>>

(* The caller has its answer, and the next one may ask. *)
Done ==
    /\ phase = "back"
    /\ phase' = "idle" /\ req' = [req EXCEPT !.px = PxSnapshot, !.side = "local", !.who = "system",
                                             !.token = "native", !.odd = "none", !.case = GoodCase]
    /\ parcel' = <<>> /\ todo' = <<>> /\ got' = <<>>
    /\ status' = "none" /\ served' = NotServed /\ faults' = {}

Next ==
    \/ Begin \/ ProxyGivesUp \/ ProxyWrites \/ RequestLost
    \/ OnRemoteRequest \/ ReadField \/ HandlerServes \/ HandlerAnswers
    \/ AnswerLost \/ ProxyHears \/ ProxyReturns \/ Done

Spec == Init /\ [][Next]_vars
-----------------------------------------------------------------------------
TypeOK ==
    /\ phase \in {"idle", "asked", "sent", "reading", "served", "replied", "hearing", "back"}
    /\ req.px \in Proxies /\ req.who \in Callers /\ req.token \in Tokens
    /\ req.side \in {"local", "remote"} /\ req.case \in {GoodCase} \union OtherCases
    /\ status \in {"none", "ok", "error"}
    /\ served.result \in {"none", "ok", "error"}
    /\ faults \subseteq {"dropped", "crash", "unwritten", "unreadable", "lost", "afterwards"}

(* What a handler reads with ReadParcelable and stores or passes without looking at it:     *)
(* the wants of a mission (baseWant is dereferenced when the missions are asked for, see      *)
(* mission_info_converter.cpp), the frames of a snapshot, and a snapshot that is heard.         *)
MayBeNull == {"baseWant", "topAbility", "baseAbility", "reservedAbility", "rect", "windowBounds",
              "missionSnapshot"}
Arrived(args, a, v) == args[a] = v \/ (a \in MayBeNull /\ args[a] = "null")

(* A service function that accepts a request is the one the proxy stands for, it has every   *)
(* argument the caller gave, each under its own name, and the whole parcel is used up: the     *)
(* order and types of the writes of the proxy and of the reads of the handler agree, and an      *)
(* argument that is null, empty or negative is told or passed as it is.  The exceptions are        *)
(* the objects nobody looks at, and a field of ContinuationExtraParams or ContinuationResult          *)
(* whose write failed: it is left out without a word, and what follows may be read in its place.       *)
ArgumentsArrive ==
    /\ TypeOK
    /\ served.result = "ok" /\ "dropped" \notin faults =>
          /\ served.by = req.px.asks
          /\ DOMAIN served.with = Args(req.px.writes)
          /\ \A a \in DOMAIN served.with : Arrived(served.with, a, Value(a))
          /\ phase = "served" => parcel = <<>>

(* What the caller hears is what happened: "ok" only if the service did it, and every        *)
(* value of the answer is the one the service gave; an error only if it was not done, or the     *)
(* answer could not be brought back, or the snapshot was taken and then could not be kept.        *)
(* The exception is an answer that PARCEL_WRITE_REPLY_NOERROR failed to write: the caller           *)
(* reads 0 from the empty parcel, which is ERR_OK.                                                   *)
HeardIsTrue ==
    phase = "back" /\ req.px.hears # <<>> =>
       /\ status = "ok" =>
             /\ served.result = "ok" \/ "unwritten" \in faults
             /\ \A a \in Args(req.px.hears) \ {"result"} : Arrived(got, a, a)
       /\ status = "error" =>
             served.result # "ok" \/ faults \intersect {"lost", "afterwards", "unreadable"} # {}

(* Who may have what done.  The requests of a device to another come in on the remote side    *)
(* from a system service, those of this device from its foundation (the list of components, and    *)
(* the registration for it, from any system service); ContinueMission has both doors.  A request      *)
(* of this device that brings the token of an application has it checked for DISTRIBUTED_DATASYNC.     *)
(* An ability is reached for another device only if the request is addressed to this device,             *)
(* the ability is there and visible, the devices share an account or a group the target may use,          *)
(* the two applications are one when it is called or continued, and the permissions the target             *)
(* asks for are granted to the caller, whose token the request must have brought.                            *)
FromRemote ==
    AbilityRequests \union
    {"NotifyContinuationResultFromRemote", "DisconnectAbilityFromRemote", "NotifyProcessDiedFromRemote",
     "StartSyncMissionsFromRemote", "StopSyncMissionsFromRemote", "NotifyMissionsChangedFromRemote",
     "ReleaseAbilityFromRemote", "StartFreeInstallFromRemote", "NotifyCompleteFreeInstallFromRemote"}
ForAnyService == {"RegisterDistributedComponentListener", "GetDistributedComponentList"}
ElsewhereServed == {f.calls : f \in {funcsMap[c] : c \in DOMAIN funcsMap}
                                   \union {otherFuncs[c] : c \in DOMAIN otherFuncs}}
AbilityMayBeReached(c) ==
    /\ c.addressed = "here" /\ c.visible
    /\ c.found # "no"
    /\ c.found = "extension" => served.by = "ConnectAbilityFromRemote"
    /\ c.found = "service" => ~c.forResult
    /\ "identical" \in c.groups \/ ("peer" \in c.groups /\ c.access)
    /\ c.continuation \/ served.by = "StartAbilityByCallFromRemote" => c.sameApp
    /\ c.needsPermission => "accessToken" \in Args(req.px.writes) /\ c.allocated /\ c.granted
ServedThroughItsDoor ==
    served.by \notin {"nobody"} \union ElsewhereServed =>
       /\ served.by \in FromRemote => req.side = "remote"
       /\ served.by \notin FromRemote \union {"ContinueMission"} => req.side = "local"
       /\ req.who # "application"
       /\ req.side = "local" /\ served.by \notin ForAnyService => req.who = "foundation"
       /\ req.side = "local" /\ "accessToken" \in Args(req.px.writes) => req.token # "denied"
       /\ served.reached => AbilityMayBeReached(req.case)
=============================================================================
