----------------------------- MODULE DmsFreeInstall -----------------------------
(***************************************************************************)
(* Free install: start an ability on a device that must install it first.  *)
(*                                                                         *)
(* The source device keeps a task in DmsCallbackTask until the target      *)
(* reports how it went, refuses at once, goes offline or takes too long.   *)
(* The task of an ordinary start (FREEINSTALL_START) has a callback to be  *)
(* told; that of a continuation (FREEINSTALL_CONTINUE) has a mission, whose *)
(* continuation is failed.  A task is named for its id, an id is not used  *)
(* twice, and what is one step is one section under callbackMapMutex_ or   *)
(* one call that leaves the service.                                       *)
(***************************************************************************)
EXTENDS Integers, Sequences

CONSTANTS
    Tasks, Devices,
    Continuing,   \* the tasks of continuations
    DeviceOf,     \* the device a task installs on
    Handler,      \* the thread of dmsCallbackHandler_
    None          \* no task

ASSUME FreeInstallAssumption ==
    /\ Continuing \subseteq Tasks
    /\ DeviceOf \in [Tasks -> Devices]
    /\ Handler \notin Tasks
    /\ None \notin Tasks

VARIABLES
    callbackMap,             \* the tasks kept
    continuationMissionMap,  \* the tasks whose mission is kept
    events,                  \* the tasks whose timeout is queued
    pc,                      \* task -> where StartRemoteFreeInstall is
    remote,                  \* task -> where the target is with it
    started,                 \* the tasks whose ability the target started
    notify,                  \* a run of NotifyCompleteFreeInstallFromRemote
    told,                    \* task -> results its callback was told, in order
    failed,                  \* the tasks whose mission was told of a failure
    dropped                  \* the continuations' tasks removed with nobody told

maps == <<callbackMap, continuationMissionMap, events>>
history == <<told, failed, dropped>>
vars == <<maps, pc, remote, started, notify, history>>

-----------------------------------------------------------------------------

Results == {"ok", "failed", "offline"}
Actors == Tasks \cup {Handler}

States == {"new", "pushed", "ready", "calling", "undo", "toTell", "accepted", "error"}
RemoteStates == {"none", "refused", "installing", "done"}

Stages == {"idle", "entered", "typed", "toTell", "toFind", "toNotify", "toMiss", "toForget"}
Notify == [st : Stages, t : Tasks \cup {None}, res : Results, type : {"start", "continue"}]
NoNotify == [st |-> "idle", t |-> None, res |-> "failed", type |-> "start"]
Entered(t, res) == [st |-> "entered", t |-> t, res |-> res, type |-> "start"]
Typed(n, type) == [st |-> "typed", t |-> n.t, res |-> n.res, type |-> type]
At(n, st) == [st |-> st, t |-> n.t, res |-> n.res, type |-> n.type]
Becomes(x, n) == notify' = [notify EXCEPT ![x] = n]

Init ==
    /\ callbackMap = {} /\ continuationMissionMap = {} /\ events = {}
    /\ pc = [t \in Tasks |-> "new"]
    /\ remote = [t \in Tasks |-> "none"]
    /\ started = {}
    /\ notify = [x \in Actors |-> NoNotify]
    /\ told = [t \in Tasks |-> << >>]
    /\ failed = {} /\ dropped = {}

Goto(t, state) == pc' = [pc EXCEPT ![t] = state]
Tell(t, res) == told' = [told EXCEPT ![t] = Append(told[t], res)]
HasCallback(t) == t \notin Continuing

-----------------------------------------------------------------------------
(* DmsCallbackTask. *)

(* PushCallback sends a delayed event for its task; without, there is no timeout. *)
SentEvents_None(t) == {}
SentEvents(t) == {t}

PushCallback(t) ==
    /\ callbackMap' = callbackMap \cup {t}
    /\ events' = events \cup SentEvents(t)

(* PopCallback, if it left the task in the map, and as it is. *)
PopCallback_KeepsTask(t) ==
    /\ UNCHANGED callbackMap
    /\ events' = events \ {t}
PopCallback(t) ==
    /\ callbackMap' = callbackMap \ {t}
    /\ events' = events \ ({t} \cap callbackMap)

(* A task that is not kept (any more) is taken for a start. *)
GetLaunchType(t) == IF t \in callbackMap \cap Continuing THEN "continue" ELSE "start"

-----------------------------------------------------------------------------
(* StartRemoteFreeInstall. *)

StartRemoteFreeInstall(t) ==
    /\ pc[t] = "new"
    /\ PushCallback(t)
    /\ Goto(t, IF t \in Continuing THEN "pushed" ELSE "ready")
    /\ UNCHANGED <<continuationMissionMap, remote, started, notify, history>>

SetContinuationMissionMap(t) ==
    /\ pc[t] = "pushed"
    /\ continuationMissionMap' = continuationMissionMap \cup {t}
    /\ Goto(t, "ready")
    /\ UNCHANGED <<callbackMap, events, remote, started, notify, history>>

(* SetCallerInfo or GetAccountInfo fails: the task stays. *)
SetCallerInfoFails(t) ==
    /\ pc[t] = "ready"
    /\ Goto(t, "error")
    /\ UNCHANGED <<maps, remote, started, notify, history>>

SendsStartFreeInstall(t) ==
    /\ pc[t] = "ready"
    /\ Goto(t, "calling")
    /\ UNCHANGED <<maps, remote, started, notify, history>>

(* The call returns; its reply may be lost, and then it failed for the source. *)
StartFreeInstallReturns(t) ==
    /\ pc[t] = "calling"
    /\ \/ remote[t] \in {"installing", "done"} /\ Goto(t, "accepted")
       \/ Goto(t, "undo")
    /\ UNCHANGED <<maps, remote, started, notify, history>>

PopsRefused(t) ==
    /\ pc[t] = "undo"
    /\ PopCallback(t)
    /\ dropped' = dropped \cup ({t} \cap callbackMap \cap Continuing)
    /\ Goto(t, IF t \in callbackMap /\ HasCallback(t) THEN "toTell" ELSE "error")
    /\ UNCHANGED <<continuationMissionMap, remote, started, notify, told, failed>>

NotifiesRefused(t) ==
    /\ pc[t] = "toTell"
    /\ Tell(t, "failed")
    /\ Goto(t, "error")
    /\ UNCHANGED <<maps, remote, started, notify, failed, dropped>>

-----------------------------------------------------------------------------
(* The target device. *)

StartFreeInstallFromRemote(t) ==
    /\ pc[t] = "calling" /\ remote[t] = "none"
    /\ \E state \in {"refused", "installing"} : remote' = [remote EXCEPT ![t] = state]
    /\ UNCHANGED <<maps, pc, started, notify, history>>

(* What is reported: a failure to install, or else how StartLocalAbility went; *)
(* without looking at the latter: _Installed.                                  *)
Reported_Installed(installs, starts) == IF installs THEN "ok" ELSE "failed"
Reported(installs, starts) == IF installs /\ starts THEN "ok" ELSE "failed"

(* OnInstallFinished, NotifyCompleteFreeInstall and HandleRemoteNotify, whose *)
(* call to the source may fail.                                               *)
NotifyCompleteFreeInstall(t) ==
    /\ remote[t] = "installing"
    /\ remote' = [remote EXCEPT ![t] = "done"]
    /\ \E installs, starts \in BOOLEAN :
          /\ starts => installs
          /\ started' = IF starts THEN started \cup {t} ELSE started
          /\ \/ Becomes(t, Entered(t, Reported(installs, starts)))
             \/ UNCHANGED notify
    /\ UNCHANGED <<maps, pc, history>>

-----------------------------------------------------------------------------
(* NotifyCompleteFreeInstallFromRemote, run by x: for a report of the target, *)
(* or in the handler for a timeout.  The delay of 30 s does not pass between  *)
(* two statements of StartRemoteFreeInstall.                                  *)

FreeInstallTimeout(t) ==
    /\ t \in events /\ notify[Handler].st = "idle" /\ pc[t] # "pushed"
    /\ events' = events \ {t}
    /\ Becomes(Handler, Entered(t, "failed"))
    /\ UNCHANGED <<callbackMap, continuationMissionMap, pc, remote, started, history>>

GetsLaunchType(x) ==
    /\ notify[x].st = "entered"
    /\ Becomes(x, Typed(notify[x], GetLaunchType(notify[x].t)))
    /\ UNCHANGED <<maps, pc, remote, started, history>>

(* What is left to do once the callback of n's task has been popped. *)
AfterPop(n) ==
    IF n.type = "start"
    THEN IF n.t \in callbackMap /\ HasCallback(n.t) THEN "toTell" ELSE "idle"
    ELSE IF n.res = "ok" THEN "toForget" ELSE "toFind"

PopsCallback(x) ==
    /\ notify[x].st = "typed"
    /\ PopCallback(notify[x].t)
    /\ Becomes(x, IF AfterPop(notify[x]) = "idle" THEN NoNotify
                  ELSE At(notify[x], AfterPop(notify[x])))
    /\ UNCHANGED <<continuationMissionMap, pc, remote, started, history>>

NotifyFreeInstallResult(x) ==
    /\ notify[x].st = "toTell"
    /\ Tell(notify[x].t, notify[x].res)
    /\ Becomes(x, NoNotify)
    /\ UNCHANGED <<maps, pc, remote, started, failed, dropped>>

GetContinuationMissionId(x) ==
    /\ notify[x].st = "toFind"
    /\ Becomes(x, At(notify[x],
          IF notify[x].t \in continuationMissionMap THEN "toNotify" ELSE "toMiss"))
    /\ UNCHANGED <<maps, pc, remote, started, history>>

(* A mission that is no longer known is told nothing (its id is an error code). *)
NotifiesMission(x) ==
    /\ notify[x].st \in {"toNotify", "toMiss"}
    /\ failed' = IF notify[x].st = "toNotify" THEN failed \cup {notify[x].t} ELSE failed
    /\ Becomes(x, At(notify[x], "toForget"))
    /\ UNCHANGED <<maps, pc, remote, started, told, dropped>>

(* The map without the mission of t; if the mission stayed: _Kept. *)
MissionMapWithout_Kept(t) == continuationMissionMap
MissionMapWithout(t) == continuationMissionMap \ {t}

PopContinuationMissionMap(x) ==
    /\ notify[x].st = "toForget"
    /\ continuationMissionMap' = MissionMapWithout(notify[x].t)
    /\ Becomes(x, NoNotify)
    /\ UNCHANGED <<callbackMap, events, pc, remote, started, history>>

-----------------------------------------------------------------------------
(* The events taken off the queue for the tasks gone; if all were: _All. *)
RemovedEvents_All(gone) == events
RemovedEvents(gone) == gone

(* The callbacks are told with the lock held; a continuation has none. *)
NotifyDeviceOffline(d) ==
    LET gone == {t \in callbackMap : DeviceOf[t] = d}
    IN  /\ gone # {}
        /\ callbackMap' = callbackMap \ gone
        /\ events' = events \ RemovedEvents(gone)
        /\ told' = [t \in Tasks |-> IF t \in gone /\ HasCallback(t)
                                    THEN Append(told[t], "offline") ELSE told[t]]
        /\ dropped' = dropped \cup (gone \cap Continuing)
        /\ UNCHANGED <<continuationMissionMap, pc, remote, started, notify, failed>>

-----------------------------------------------------------------------------

RequestStep(t) ==
    \/ SetContinuationMissionMap(t) \/ SetCallerInfoFails(t)
    \/ SendsStartFreeInstall(t) \/ StartFreeInstallReturns(t)
    \/ PopsRefused(t) \/ NotifiesRefused(t)

NotifyStep(x) ==
    \/ GetsLaunchType(x) \/ PopsCallback(x) \/ NotifyFreeInstallResult(x)
    \/ GetContinuationMissionId(x) \/ NotifiesMission(x) \/ PopContinuationMissionMap(x)

Next ==
    \/ \E t \in Tasks :
          \/ StartRemoteFreeInstall(t) \/ RequestStep(t)
          \/ StartFreeInstallFromRemote(t) \/ NotifyCompleteFreeInstall(t)
          \/ FreeInstallTimeout(t)
    \/ \E x \in Actors : NotifyStep(x)
    \/ \E d \in Devices : NotifyDeviceOffline(d)

(* Threads of the source run on, a call to the target returns, and timeouts expire; *)
(* the target owes no report.                                                       *)
Fairness ==
    /\ \A t \in Tasks : WF_vars(RequestStep(t)) /\ WF_vars(FreeInstallTimeout(t))
    /\ \A x \in Actors : WF_vars(NotifyStep(x))

Spec == Init /\ [][Next]_vars
FairSpec == Spec /\ Fairness

-----------------------------------------------------------------------------
(* Properties. *)

(* The maps of DmsCallbackTask and the requests and notifications under way. *)
TypeOK ==
    /\ callbackMap \in SUBSET Tasks
    /\ continuationMissionMap \in SUBSET Continuing
    /\ events \in SUBSET Tasks
    /\ pc \in [Tasks -> States]
    /\ remote \in [Tasks -> RemoteStates]
    /\ started \in SUBSET Tasks
    /\ notify \in [Actors -> Notify]
    /\ told \in [Tasks -> Seq(Results)]
    /\ failed \in SUBSET Continuing
    /\ dropped \in SUBSET Continuing

(* A callback is told one result at most, although the report of the target, its  *)
(* refusal, the timeout and the loss of the device each bring one in a thread of  *)
(* their own, and each first looks the task up and then pops it.                  *)
ToldOnce ==
    \A t \in Tasks :
        /\ Len(told[t]) <= 1
        /\ t \in callbackMap => told[t] = << >>

(* A callback is told of success only if the target did start the ability; whether *)
(* it was installed is not enough.                                                 *)
ToldOkIfStarted ==
    \A t \in Tasks : \A i \in 1..Len(told[t]) : told[t][i] = "ok" => t \in started

(* A task in the map always has a timeout ahead of it, queued or being handled, so *)
(* none stays for ever; and no timeout is queued for a task that is gone.          *)
EveryTaskIsTimed ==
    /\ events \subseteq callbackMap
    /\ \A t \in callbackMap :
          t \in events \/ (notify[Handler].t = t /\ notify[Handler].st \in {"entered", "typed"})

(* Once nothing works on a task that has left the map, its mission has left as well; *)
(* the exception is a task dropped, by NotifyDeviceOffline or as refused: neither    *)
(* clears continuationMissionMap_.                                                   *)
AtRest(t) ==
    /\ pc[t] \in {"accepted", "error"} /\ t \notin callbackMap
    /\ \A x \in Actors : notify[x].t # t
MissionForgotten ==
    \A t \in Continuing : AtRest(t) /\ t \in continuationMissionMap => t \in dropped

(* Whoever asked learns the outcome: a callback is told in the end, whatever is    *)
(* lost; a continuation is told of a failure, unless the target started it or the  *)
(* task was dropped, when only the timeout of the continuation itself is left.     *)
Learns(t) ==
    IF t \in Continuing THEN t \in failed \cup started \cup dropped ELSE told[t] # << >>
EveryoneLearns == \A t \in Tasks : t \in callbackMap ~> Learns(t)
=============================================================================
