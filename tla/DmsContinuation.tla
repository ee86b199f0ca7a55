---------------------------- MODULE DmsContinuation ----------------------------
(***************************************************************************)
(* Continuation (migration) of missions, on the source device.             *)
(*                                                                         *)
(* A request to continue a mission runs in an IPC thread: it leaves its    *)
(* callback in callbackMap, sets a timeout and asks the ability manager    *)
(* (AMS), which later calls StartContinuation; the target device answers   *)
(* at last.  If the target lacks the application the bundle manager is     *)
(* first asked whether it can be installed there.  A refusal, an answer    *)
(* and a timeout all end in NotifyContinuationCallbackResult.  The maps    *)
(* are under continuationLock_; what is one step here is one critical      *)
(* section, one access to the timers or one call that leaves the service.  *)
(***************************************************************************)
EXTENDS Integers, Sequences, FiniteSets

CONSTANTS
    Missions, Requests, Devices,
    MissionOf,   \* the mission a request is for
    DeviceOf,    \* the device it is to be continued on
    Handler,     \* the thread of continuationHandler_
    None,        \* no request, no device
    Serial,      \* a mission is requested anew only when its last request is settled
    Overlap      \* an answer may come while the timeout is handled, or after it

ASSUME ContinuationAssumption ==
    /\ MissionOf \in [Requests -> Missions]
    /\ DeviceOf \in [Requests -> Devices]
    /\ Handler \notin Requests
    /\ None \notin Requests \cup Devices
    /\ Serial \in BOOLEAN
    /\ Overlap \in BOOLEAN

VARIABLES
    callbackMap,          \* mission -> the request whose callback is kept
    continuationDevices,  \* mission -> the device it is continued on
    freeInstall,          \* mission -> it is continued by free install
    timers,               \* mission -> timeouts that are set
    pc,                   \* request -> where it is
    lacking,              \* request -> its target device lacks the application
    target,               \* request -> the device the AMS was asked to continue on
    way,                  \* request -> how StartContinuation went to the target
    answer,               \* request -> what the target answered
    note,                 \* a run of NotifyContinuationCallbackResult
    told,                 \* request -> results its callback was told, in order
    dropped,              \* requests whose callback was taken back, told nothing
    cleaned               \* missions removed from this device

tables == <<callbackMap, continuationDevices, freeInstall>>
history == <<answer, told, dropped, cleaned>>
vars == <<tables, timers, pc, lacking, target, way, note, history>>

-----------------------------------------------------------------------------

Results == {"ok", "failed"}
Actors == Requests \cup {Handler}

(* Where a request can be: in ContinueLocalMission ... *)
InCall == {"checked", "toPush", "pushed", "timed", "undo", "undoPop"}
(* ... or in another of its threads, ... *)
InThread == InCall \cup {"queried", "located", "requeried", "unarmed", "started"}
(* ... or with the bundle manager, the AMS or the target. *)
Outside == {"querying", "continuing", "remote", "late"}
States == {"new", "refused", "failed", "over"} \cup InThread \cup Outside

Note == [st  : {"idle", "entered", "found", "notFound", "toPop", "popped", "toTell"},
         m   : Missions \cup {None},
         res : Results,
         cb  : Requests \cup {None}]
NoNote == [st |-> "idle", m |-> None, res |-> "failed", cb |-> None]
Notification(m, res) == [st |-> "entered", m |-> m, res |-> res, cb |-> None]
(* A note a step further on, and with the callback it has popped. *)
At(n, st) == [st |-> st, m |-> n.m, res |-> n.res, cb |-> n.cb]
Holding(n, cb) == [st |-> "popped", m |-> n.m, res |-> n.res, cb |-> cb]

Notifying(m) == {x \in Actors : note[x].st # "idle" /\ note[x].m = m}

(* A request that can no longer change its mission's tables or timers. *)
Settled(r) ==
    /\ pc[r] \notin InThread
    /\ callbackMap[MissionOf[r]] # r
    /\ \A x \in Actors : note[x].st # "idle" => x # r /\ note[x].cb # r

(* What comes from outside for a request comes in time, unless Overlap. *)
InTime(r) ==
    LET m == MissionOf[r]
    IN  Overlap \/ (callbackMap[m] = r /\ Notifying(m) = {})

Init ==
    /\ callbackMap = [m \in Missions |-> None]
    /\ continuationDevices = [m \in Missions |-> None]
    /\ freeInstall = [m \in Missions |-> FALSE]
    /\ timers = [m \in Missions |-> 0]
    /\ pc = [r \in Requests |-> "new"]
    /\ lacking = [r \in Requests |-> FALSE]
    /\ target = [r \in Requests |-> None]
    /\ way = [r \in Requests |-> "none"]
    /\ answer = [r \in Requests |-> "none"]
    /\ note = [x \in Actors |-> NoNote]
    /\ told = [r \in Requests |-> << >>]
    /\ dropped = {}
    /\ cleaned = {}

-----------------------------------------------------------------------------
(* DSchedContinuation. *)

SetTimeOut(m) == timers' = [timers EXCEPT ![m] = @ + 1]
RemoveTimeOut(m) == timers' = [timers EXCEPT ![m] = 0]

IsInContinuationProgress(m) == callbackMap[m] # None

(* PushCallback, if it did not look whether the mission is being continued, ... *)
PushCallback_Overwrites(m, r, free) ==
    /\ callbackMap' = [callbackMap EXCEPT ![m] = r]
    /\ continuationDevices' = [continuationDevices EXCEPT ![m] = DeviceOf[r]]
    /\ freeInstall' = [freeInstall EXCEPT ![m] = free]

(* ... and as it is: a mission that is being continued keeps its callback. *)
PushCallback(m, r, free) ==
    IF callbackMap[m] = None
    THEN /\ callbackMap' = [callbackMap EXCEPT ![m] = r]
         /\ continuationDevices' = [continuationDevices EXCEPT ![m] = IF @ = None THEN DeviceOf[r] ELSE @]
         /\ freeInstall' = [freeInstall EXCEPT ![m] = @ \/ free]
    ELSE UNCHANGED tables

(* PopCallback, if it left the callback, ... *)
PopCallback_KeepsCallback(m) == UNCHANGED tables

(* ... if it forgot freeInstall_, ... *)
PopCallback_KeepsFlag(m) ==
    /\ callbackMap' = [callbackMap EXCEPT ![m] = None]
    /\ continuationDevices' = [continuationDevices EXCEPT ![m] = None]
    /\ UNCHANGED freeInstall

(* ... and as it is: the callback goes with its device and its flag. *)
PopCallback(m) ==
    IF callbackMap[m] # None
    THEN /\ callbackMap' = [callbackMap EXCEPT ![m] = None]
         /\ continuationDevices' = [continuationDevices EXCEPT ![m] = None]
         /\ freeInstall' = [freeInstall EXCEPT ![m] = FALSE]
    ELSE UNCHANGED tables

-----------------------------------------------------------------------------
(* ContinueLocalMission. *)

Goto(r, state) == pc' = [pc EXCEPT ![r] = state]

(* Is the mission being continued already? *)
ContinueLocalMission(r) ==
    /\ pc[r] = "new"
    /\ Serial => \A q \in Requests \ {r} : MissionOf[q] = MissionOf[r] => Settled(q)
    /\ Goto(r, IF IsInContinuationProgress(MissionOf[r]) THEN "refused" ELSE "checked")
    /\ UNCHANGED <<tables, timers, lacking, target, way, note, history>>

(* GetMissionInfo and CheckRemoteBundleInfoForContinuation: the mission may be  *)
(* gone, the application may be missing on the target, and then free install    *)
(* may be unsupported or not asked for.                                         *)
CheckRemoteBundleInfo(r) ==
    /\ pc[r] = "checked"
    /\ \/ Goto(r, "refused") /\ UNCHANGED lacking
       \/ /\ MissionOf[r] \notin cleaned
          /\ Goto(r, "toPush")
          /\ \E missing \in BOOLEAN : lacking' = [lacking EXCEPT ![r] = missing]
    /\ UNCHANGED <<tables, timers, target, way, note, history>>

(* The result of PushCallback is not looked at. *)
PushesCallback(r) ==
    /\ pc[r] = "toPush"
    /\ PushCallback(MissionOf[r], r, lacking[r])
    /\ Goto(r, "pushed")
    /\ UNCHANGED <<timers, lacking, target, way, note, history>>

SetContinuationTimeout(r) ==
    /\ pc[r] = "pushed"
    /\ SetTimeOut(MissionOf[r])
    /\ Goto(r, "timed")
    /\ UNCHANGED <<tables, lacking, target, way, note, history>>

(* The AMS takes the mission on, or the call returns its error. *)
ContinueAbility(r) ==
    /\ pc[r] = "timed" /\ ~lacking[r]
    /\ target' = [target EXCEPT ![r] = DeviceOf[r]]
    /\ Goto(r, "continuing") \/ Goto(r, "failed")
    /\ UNCHANGED <<tables, timers, lacking, way, note, history>>

(* The bundle manager looks into it, or the request is taken back. *)
CheckIfRemoteCanInstall(r) ==
    /\ pc[r] = "timed" /\ lacking[r]
    /\ Goto(r, "querying") \/ Goto(r, "undo")
    /\ UNCHANGED <<tables, timers, lacking, target, way, note, history>>

RemoveContinuationTimeout(r) ==
    /\ pc[r] = "undo"
    /\ RemoveTimeOut(MissionOf[r])
    /\ Goto(r, "undoPop")
    /\ UNCHANGED <<tables, lacking, target, way, note, history>>

PopsCallback(r) ==
    /\ pc[r] = "undoPop"
    /\ PopCallback(MissionOf[r])
    /\ dropped' = dropped \cup ({callbackMap[MissionOf[r]]} \ {None})
    /\ Goto(r, "failed")
    /\ UNCHANGED <<timers, lacking, target, way, note, answer, told, cleaned>>

-----------------------------------------------------------------------------
(* DmsBundleManagerCallbackStub::OnQueryInstallationFinished. *)

Becomes(x, n) == note' = [note EXCEPT ![x] = n]
Enters(x, m, res) == Becomes(x, Notification(m, res))

OnQueryInstallationFinished(r) ==
    /\ pc[r] = "querying" /\ InTime(r)
    /\ \/ /\ Goto(r, "over") /\ Enters(r, MissionOf[r], "failed")
          /\ UNCHANGED timers
       \/ /\ Goto(r, "queried") /\ RemoveTimeOut(MissionOf[r])
          /\ UNCHANGED note
    /\ UNCHANGED <<tables, lacking, target, way, history>>

GetContinuationDevice(r) ==
    /\ pc[r] = "queried"
    /\ target' = [target EXCEPT ![r] = continuationDevices[MissionOf[r]]]
    /\ Goto(r, "located")
    /\ UNCHANGED <<tables, timers, lacking, way, note, history>>

(* The timeout of the installation; left out, there would be none. *)
InstallationTimeout_Left(m) == UNCHANGED timers
InstallationTimeout(m) == SetTimeOut(m)

SetsInstallationTimeout(r) ==
    /\ pc[r] = "located"
    /\ InstallationTimeout(MissionOf[r])
    /\ Goto(r, "requeried")
    /\ UNCHANGED <<tables, lacking, target, way, note, history>>

ContinueAbilityWithFreeInstall(r) ==
    /\ pc[r] = "requeried"
    /\ Goto(r, "continuing") \/ Goto(r, "over")
    /\ UNCHANGED <<tables, timers, lacking, target, way, note, history>>

-----------------------------------------------------------------------------
(* StartContinuation, called by the AMS, and the answer of the target. *)

StartContinuation(r) ==
    /\ pc[r] = "continuing" /\ InTime(r)
    /\ \/ Goto(r, "over") /\ Enters(r, MissionOf[r], "failed")
       \/ Goto(r, "over") /\ UNCHANGED note
       \/ /\ Goto(r, IF IsInContinuationProgress(MissionOf[r]) THEN "started" ELSE "unarmed")
          /\ UNCHANGED note
    /\ UNCHANGED <<tables, timers, lacking, target, way, history>>

(* A continuation DMS has no callback for still gets its timeout. *)
StartContinuationSetsTimeOut(r) ==
    /\ pc[r] = "unarmed"
    /\ SetTimeOut(MissionOf[r])
    /\ Goto(r, "started")
    /\ UNCHANGED <<tables, lacking, target, way, note, history>>

(* StartRemoteFreeInstall or StartRemoteAbility, as IsFreeInstall says. *)
StartsRemote(r) ==
    /\ pc[r] = "started"
    /\ way' = [way EXCEPT ![r] = IF freeInstall[MissionOf[r]] THEN "freeInstall" ELSE "ability"]
    /\ Goto(r, "remote") \/ Goto(r, "over")
    /\ UNCHANGED <<tables, timers, lacking, target, note, history>>

(* What a result from the target is passed on as; the wrong way round: _Swapped. *)
ResultCode_Swapped(isSuccess) == IF isSuccess THEN "failed" ELSE "ok"
ResultCode(isSuccess) == IF isSuccess THEN "ok" ELSE "failed"

(* The free install fails or takes too long (DmsCallbackTask); the target may *)
(* still report on the continuation later.                                    *)
NotifyCompleteFreeInstallFromRemote(r) ==
    /\ pc[r] = "remote" /\ way[r] = "freeInstall" /\ InTime(r)
    /\ Goto(r, "late") /\ Enters(r, MissionOf[r], "failed")
    /\ UNCHANGED <<tables, timers, lacking, target, way, history>>

NotifyContinuationResultFromRemote(r) ==
    /\ pc[r] \in {"remote", "late"} /\ note[r].st = "idle" /\ InTime(r)
    /\ \E isSuccess \in BOOLEAN :
          /\ answer' = [answer EXCEPT ![r] = IF isSuccess THEN "ok" ELSE "failed"]
          /\ Enters(r, MissionOf[r], ResultCode(isSuccess))
    /\ Goto(r, "over")
    /\ UNCHANGED <<tables, timers, lacking, target, way, told, dropped, cleaned>>

-----------------------------------------------------------------------------
(* A timeout: ContinuationHandler::ProcessEvent. *)
Pending(m) == timers[m] > 0

ContinuationTimeout(m) ==
    /\ Pending(m) /\ note[Handler].st = "idle"
    /\ Overlap \/ (Notifying(m) = {} /\ \A r \in Requests : MissionOf[r] = m => pc[r] \notin InThread)
    /\ timers' = [timers EXCEPT ![m] = @ - 1]
    /\ Enters(Handler, m, "failed")
    /\ UNCHANGED <<tables, pc, lacking, target, way, history>>

-----------------------------------------------------------------------------
(* NotifyContinuationCallbackResult, run by x. *)

Advance(x, st) == Becomes(x, At(note[x], st))

IsInProgress(x) ==
    /\ note[x].st = "entered"
    /\ Advance(x, IF IsInContinuationProgress(note[x].m) THEN "found" ELSE "notFound")
    /\ UNCHANGED <<tables, timers, pc, lacking, target, way, history>>

(* The mission is cleaned when the result is 0; read as a truth value, the *)
(* parameter isSuccess would say the opposite.                             *)
Cleans_OnFailure(res) == res # "ok"
Cleans(res) == res = "ok"

CleanMission(x) ==
    /\ note[x].st = "found"
    /\ cleaned' = IF Cleans(note[x].res) THEN cleaned \cup {note[x].m} ELSE cleaned
    /\ Advance(x, "toPop")
    /\ UNCHANGED <<tables, timers, pc, lacking, target, way, answer, told, dropped>>

(* NotifyMissionCenterResult: the callback, the timeout, and the call. *)
PopsCallbackToTell(x) ==
    /\ note[x].st = "toPop"
    /\ Becomes(x, Holding(note[x], callbackMap[note[x].m]))
    /\ PopCallback(note[x].m)
    /\ UNCHANGED <<timers, pc, lacking, target, way, history>>

(* ... if the timeout were left to run ... *)
RemovesTimeOut_Not(x) ==
    /\ note[x].st = "popped"
    /\ Advance(x, "toTell")
    /\ UNCHANGED <<tables, timers, pc, lacking, target, way, history>>
RemovesTimeOut(x) ==
    /\ note[x].st = "popped"
    /\ RemoveTimeOut(note[x].m)
    /\ Advance(x, "toTell")
    /\ UNCHANGED <<tables, pc, lacking, target, way, history>>

TellsCallback(x) ==
    /\ note[x].st = "toTell"
    /\ told' = [r \in Requests |->
          IF r = note[x].cb THEN Append(told[r], note[x].res) ELSE told[r]]
    /\ Becomes(x, NoNote)
    /\ UNCHANGED <<tables, timers, pc, lacking, target, way, answer, dropped, cleaned>>

(* No callback: the AMS is told instead, and the timeout removed. *)
NotifyAms(x) ==
    /\ note[x].st = "notFound"
    /\ RemoveTimeOut(note[x].m)
    /\ Becomes(x, NoNote)
    /\ UNCHANGED <<tables, pc, lacking, target, way, history>>

-----------------------------------------------------------------------------

RequestStep(r) ==
    \/ CheckRemoteBundleInfo(r) \/ PushesCallback(r) \/ SetContinuationTimeout(r)
    \/ ContinueAbility(r) \/ CheckIfRemoteCanInstall(r)
    \/ RemoveContinuationTimeout(r) \/ PopsCallback(r)
    \/ GetContinuationDevice(r) \/ SetsInstallationTimeout(r) \/ ContinueAbilityWithFreeInstall(r)
    \/ StartContinuationSetsTimeOut(r) \/ StartsRemote(r)

NotifyStep(x) ==
    \/ IsInProgress(x) \/ CleanMission(x) \/ PopsCallbackToTell(x)
    \/ RemovesTimeOut(x) \/ TellsCallback(x) \/ NotifyAms(x)

Next ==
    \/ \E r \in Requests :
          \/ ContinueLocalMission(r) \/ RequestStep(r)
          \/ OnQueryInstallationFinished(r) \/ StartContinuation(r)
          \/ NotifyCompleteFreeInstallFromRemote(r)
          \/ NotifyContinuationResultFromRemote(r)
    \/ \E m \in Missions : ContinuationTimeout(m)
    \/ \E x \in Actors : NotifyStep(x)

Spec == Init /\ [][Next]_vars

(* Threads of the service run on and timeouts expire; neither users nor the AMS, *)
(* the bundle manager and the target owe an answer.                              *)
Fairness ==
    /\ \A r \in Requests : WF_vars(RequestStep(r))
    /\ \A x \in Actors : WF_vars(NotifyStep(x))
    /\ \A m \in Missions : WF_vars(ContinuationTimeout(m))

FairSpec == Spec /\ Fairness

-----------------------------------------------------------------------------
(* Properties. *)

(* The maps of DSchedContinuation, its timeouts and the requests under way. *)
TypeOK ==
    /\ callbackMap \in [Missions -> Requests \cup {None}]
    /\ continuationDevices \in [Missions -> Devices \cup {None}]
    /\ freeInstall \in [Missions -> BOOLEAN]
    /\ timers \in [Missions -> Nat]
    /\ pc \in [Requests -> States]
    /\ lacking \in [Requests -> BOOLEAN]
    /\ target \in [Requests -> Devices \cup {None}]
    /\ way \in [Requests -> {"none", "ability", "freeInstall"}]
    /\ answer \in [Requests -> {"none"} \cup Results]
    /\ note \in [Actors -> Note]
    /\ told \in [Requests -> Seq(Results)]
    /\ dropped \in SUBSET Requests
    /\ cleaned \in SUBSET Missions

(* The three maps under continuationLock_ always speak of one request: whatever   *)
(* requests, answers and timeouts race, no device and no free install flag of an  *)
(* earlier request is left for the next one; and all keep their types.            *)
TablesOfOneRequest ==
    /\ TypeOK
    /\ \A m \in Missions :
          LET r == callbackMap[m]
          IN  IF r = None THEN continuationDevices[m] = None /\ ~freeInstall[m]
              ELSE continuationDevices[m] = DeviceOf[r] /\ (freeInstall[m] <=> lacking[r])

(* A mission is removed from this device only after a target reported that it     *)
(* runs there: a timeout, a refusal or a failure never loses the user's mission.  *)
CleanedOnlyAfterSuccess ==
    \A m \in cleaned : \E r \in Requests : MissionOf[r] = m /\ answer[r] = "ok"

(* No callback is told twice, by an answer and by a timeout for example, however  *)
(* the threads that carry them interleave, nor told and taken back.               *)
BeingTold(r) == {x \in Actors : note[x].cb = r}
ToldOnce ==
    \A r \in Requests :
        /\ Len(told[r]) + Cardinality(BeingTold(r)) <= 1
        /\ callbackMap[MissionOf[r]] = r \/ r \in dropped =>
              told[r] = << >> /\ BeingTold(r) = {}

(* What became of a request whose callback has left the map. *)
OutcomeOf(r) ==
    IF told[r] # << >> THEN told[r][1]
    ELSE IF BeingTold(r) # {} THEN note[CHOOSE x \in Actors : note[x].cb = r].res
    ELSE IF r \in dropped THEN "dropped" ELSE "none"

Migration == INSTANCE DmsMigration
    WITH current <- callbackMap, outcome <- [r \in Requests |-> OutcomeOf(r)]

(* DSchedContinuation continues a mission for one request at a time, and a request *)
(* that got its callback in ends once, with one outcome: no request ousts another. *)
OneAtATime == Migration!MigrationSpec

(* If a mission is requested anew only once its last request is settled, and      *)
(* answers do not race with the timeout, a callback is told what became of its    *)
(* own request: success only if its target said so, and then the mission is gone. *)
ToldTheTruth ==
    \A r \in Requests : \A i \in 1..Len(told[r]) :
        /\ told[r][i] = "ok" => MissionOf[r] \in cleaned
        /\ told[r][i] = "ok" <=> answer[r] = "ok"

(* Under the same conditions a request is continued on its own device, and by    *)
(* free install exactly if the application is missing there, although device and  *)
(* flag are looked up anew by the mission, in later calls of other processes.     *)
GoesItsOwnWay ==
    \A r \in Requests :
        /\ target[r] \in {None, DeviceOf[r]}
        /\ way[r] # "none" => (way[r] = "freeInstall" <=> lacking[r])

(* Under the same conditions no timeout outlives the callback it was set for:     *)
(* once everything has run, one that is still set has its callback.               *)
NoStrayTimer ==
    (\A r \in Requests : pc[r] \notin InThread) =>
        \A m \in Missions :
            Notifying(m) = {} /\ timers[m] > 0 => callbackMap[m] # None

(* Under the same conditions, a caller whose request was taken on (the call       *)
(* returned ERR_OK) is told in the end, although nobody owes an answer: a timeout *)
(* is always set while the callback waits.                                        *)
Accepted(r) == pc[r] \in Outside \cup {"queried", "located", "requeried", "unarmed", "started"}
AcceptedIsTold == \A r \in Requests : Accepted(r) ~> told[r] # << >>
=============================================================================
