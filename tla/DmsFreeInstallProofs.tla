-------------------------- MODULE DmsFreeInstallProofs --------------------------
(***************************************************************************)
(* Proofs about DmsFreeInstall, for any tasks on any devices: its types,   *)
(* that every task has a timeout ahead of it, that no callback is told     *)
(* twice, that none is told of a success there was not, and that missions  *)
(* are forgotten with their tasks.                                         *)
(***************************************************************************)
EXTENDS DmsFreeInstall, SequenceTheorems, TLAPS

-----------------------------------------------------------------------------
(* Types. *)

(* What a run of NotifyCompleteFreeInstallFromRemote knows of its task. *)
NotifyOK(n) ==
    /\ n.st # "idle" => n.t \in Tasks
    /\ n.type = "continue" => n.t \in Continuing
    /\ n.st \in {"toFind", "toNotify", "toMiss"} => n.type = "continue"

(* Only continuations go to SetContinuationMissionMap. *)
TypeInv ==
    /\ TypeOK
    /\ \A x \in Actors : NotifyOK(notify[x])
    /\ \A t \in Tasks : pc[t] = "pushed" => t \in Continuing

LEMMA BecomesType ==
    ASSUME TypeInv, NEW x \in Actors, NEW n \in Notify, NotifyOK(n), Becomes(x, n)
    PROVE  notify' \in [Actors -> Notify] /\ \A y \in Actors : NotifyOK(notify'[y])
  BY DEF TypeInv, TypeOK, Becomes

LEMMA StageType ==
    /\ NoNotify \in Notify /\ NotifyOK(NoNotify)
    /\ \A t \in Tasks, res \in Results :
          Entered(t, res) \in Notify /\ NotifyOK(Entered(t, res))
    /\ \A n \in Notify, st \in Stages : At(n, st) \in Notify
    /\ \A n \in Notify, type \in {"start", "continue"} : Typed(n, type) \in Notify
  BY DEF Notify, Stages, Results, NoNotify, NotifyOK, Entered, At, Typed

LEMMA GotoType ==
    ASSUME TypeInv, NEW t \in Tasks, NEW st \in States, Goto(t, st),
           st = "pushed" => t \in Continuing
    PROVE  /\ pc' \in [Tasks -> States]
           /\ \A u \in Tasks : pc'[u] = "pushed" => u \in Continuing
  BY DEF TypeInv, TypeOK, Goto

LEMMA TellType ==
    ASSUME TypeInv, NEW t \in Tasks, NEW res \in Results, Tell(t, res)
    PROVE  told' \in [Tasks -> Seq(Results)]
  <1>1. Append(told[t], res) \in Seq(Results)
    BY DEF TypeInv, TypeOK
  <1>2. QED
    BY <1>1 DEF TypeInv, TypeOK, Tell

LEMMA InitTypeInv == Init => TypeInv
  <1>1. SUFFICES ASSUME Init PROVE TypeInv
    OBVIOUS
  <1>2. notify \in [Actors -> Notify] /\ \A x \in Actors : NotifyOK(notify[x])
    BY <1>1, StageType DEF Init
  <1>3. told \in [Tasks -> Seq(Results)]
    BY <1>1 DEF Init
  <1>4. QED
    BY <1>1, <1>2, <1>3 DEF Init, TypeInv, TypeOK, States, RemoteStates

LEMMA RequestTypeInv ==
    ASSUME TypeInv, NEW t \in Tasks, StartRemoteFreeInstall(t) \/ RequestStep(t)
    PROVE  TypeInv'
  <1>1. CASE StartRemoteFreeInstall(t)
    <2>1. /\ pc' \in [Tasks -> States]
          /\ \A u \in Tasks : pc'[u] = "pushed" => u \in Continuing
      BY <1>1, GotoType DEF StartRemoteFreeInstall, States
    <2>2. QED
      BY <1>1, <2>1 DEF StartRemoteFreeInstall, PushCallback, SentEvents, TypeInv, TypeOK, history
  <1>2. CASE SetContinuationMissionMap(t)
    <2>1. /\ pc' \in [Tasks -> States]
          /\ \A u \in Tasks : pc'[u] = "pushed" => u \in Continuing
      BY <1>2, GotoType DEF SetContinuationMissionMap, States
    <2>2. QED
      BY <1>2, <2>1 DEF SetContinuationMissionMap, TypeInv, TypeOK, history
  <1>3. CASE SetCallerInfoFails(t) \/ SendsStartFreeInstall(t) \/ StartFreeInstallReturns(t)
    <2>1. /\ pc' \in [Tasks -> States]
          /\ \A u \in Tasks : pc'[u] = "pushed" => u \in Continuing
      BY <1>3, GotoType
      DEF SetCallerInfoFails, SendsStartFreeInstall, StartFreeInstallReturns, States
    <2>2. QED
      BY <1>3, <2>1 DEF SetCallerInfoFails, SendsStartFreeInstall, StartFreeInstallReturns,
                        TypeInv, TypeOK, maps, history
  <1>4. CASE PopsRefused(t)
    <2>1. /\ pc' \in [Tasks -> States]
          /\ \A u \in Tasks : pc'[u] = "pushed" => u \in Continuing
      BY <1>4, GotoType DEF PopsRefused, States
    <2>2. QED
      BY <1>4, <2>1 DEF PopsRefused, PopCallback, TypeInv, TypeOK
  <1>5. CASE NotifiesRefused(t)
    <2>1. /\ pc' \in [Tasks -> States]
          /\ \A u \in Tasks : pc'[u] = "pushed" => u \in Continuing
      BY <1>5, GotoType DEF NotifiesRefused, States
    <2>2. told' \in [Tasks -> Seq(Results)]
      BY <1>5, TellType DEF NotifiesRefused, Results
    <2>3. QED
      BY <1>5, <2>1, <2>2 DEF NotifiesRefused, TypeInv, TypeOK, maps
  <1>6. QED
    BY <1>1, <1>2, <1>3, <1>4, <1>5 DEF RequestStep

LEMMA TargetTypeInv ==
    ASSUME TypeInv, NEW t \in Tasks,
           StartFreeInstallFromRemote(t) \/ NotifyCompleteFreeInstall(t)
    PROVE  TypeInv'
  <1>1. CASE StartFreeInstallFromRemote(t)
    BY <1>1 DEF StartFreeInstallFromRemote, TypeInv, TypeOK, RemoteStates, maps, history
  <1>2. CASE NotifyCompleteFreeInstall(t)
    <2>1. PICK installs, starts \in BOOLEAN :
             /\ started' = IF starts THEN started \cup {t} ELSE started
             /\ \/ Becomes(t, Entered(t, Reported(installs, starts)))
                \/ UNCHANGED notify
      BY <1>2 DEF NotifyCompleteFreeInstall
    <2>2. Reported(installs, starts) \in Results /\ t \in Actors
      BY DEF Reported, Results, Actors
    <2>3. notify' \in [Actors -> Notify] /\ \A y \in Actors : NotifyOK(notify'[y])
      <3>1. CASE UNCHANGED notify
        BY <3>1 DEF TypeInv, TypeOK
      <3>2. CASE Becomes(t, Entered(t, Reported(installs, starts)))
        <4>1. /\ Entered(t, Reported(installs, starts)) \in Notify
              /\ NotifyOK(Entered(t, Reported(installs, starts)))
          BY <2>2, StageType
        <4>2. QED
          BY <3>2, <4>1, <2>2, BecomesType
      <3>3. QED
        BY <2>1, <3>1, <3>2
    <2>4. QED
      BY <1>2, <2>1, <2>3 DEF NotifyCompleteFreeInstall, TypeInv, TypeOK, RemoteStates, maps, history
  <1>3. QED
    BY <1>1, <1>2

LEMMA TimeoutTypeInv ==
    ASSUME TypeInv, NEW t \in Tasks, FreeInstallTimeout(t)
    PROVE  TypeInv'
  <1>1. Handler \in Actors /\ "failed" \in Results
    BY DEF Actors, Results
  <1>2. Entered(t, "failed") \in Notify /\ NotifyOK(Entered(t, "failed"))
    BY <1>1, StageType
  <1>3. notify' \in [Actors -> Notify] /\ \A y \in Actors : NotifyOK(notify'[y])
    BY <1>1, <1>2, BecomesType DEF FreeInstallTimeout
  <1>4. QED
    BY <1>3 DEF FreeInstallTimeout, TypeInv, TypeOK, history

LEMMA NotifyTypeInv ==
    ASSUME TypeInv, NEW x \in Actors, NotifyStep(x)
    PROVE  TypeInv'
  <1> DEFINE n == notify[x]
  <1>1. n \in Notify /\ NotifyOK(n)
    BY DEF TypeInv, TypeOK
  <1>2. ASSUME NEW m, m = NoNotify \/ (m \in Notify /\ NotifyOK(m)), Becomes(x, m)
        PROVE  notify' \in [Actors -> Notify] /\ \A y \in Actors : NotifyOK(notify'[y])
    BY <1>2, StageType, BecomesType
  <1>3. CASE GetsLaunchType(x)
    <2>1. /\ GetLaunchType(n.t) \in {"start", "continue"}
          /\ GetLaunchType(n.t) = "continue" => n.t \in Continuing
      BY DEF GetLaunchType
    <2>2. Typed(n, GetLaunchType(n.t)) \in Notify /\ NotifyOK(Typed(n, GetLaunchType(n.t)))
      BY <1>1, <1>3, <2>1, StageType DEF Typed, NotifyOK, GetsLaunchType
    <2>3. QED
      BY <1>2, <1>3, <2>2 DEF GetsLaunchType, TypeInv, TypeOK, maps, history
  <1>4. CASE PopsCallback(x)
    <2>1. AfterPop(n) \in Stages /\ AfterPop(n) # "typed"
      BY DEF AfterPop, Stages
    <2>2. n.type # "start" => n.type = "continue"
      BY <1>1 DEF Notify
    <2>3. At(n, AfterPop(n)) \in Notify /\ NotifyOK(At(n, AfterPop(n)))
      BY <1>1, <1>4, <2>1, <2>2, StageType DEF At, NotifyOK, AfterPop, PopsCallback
    <2>4. notify' \in [Actors -> Notify] /\ \A y \in Actors : NotifyOK(notify'[y])
      BY <1>2, <1>4, <2>3 DEF PopsCallback
    <2>5. QED
      BY <1>4, <2>4 DEF PopsCallback, PopCallback, TypeInv, TypeOK, history
  <1>5. CASE NotifyFreeInstallResult(x)
    <2>1. told' \in [Tasks -> Seq(Results)]
      BY <1>1, <1>5, TellType DEF NotifyFreeInstallResult, NotifyOK, Notify
    <2>2. QED
      BY <1>2, <1>5, <2>1 DEF NotifyFreeInstallResult, TypeInv, TypeOK, maps
  <1>6. CASE GetContinuationMissionId(x)
    <2>1. \A st \in {"toNotify", "toMiss"} : At(n, st) \in Notify /\ NotifyOK(At(n, st))
      BY <1>1, <1>6, StageType DEF At, Stages, NotifyOK, GetContinuationMissionId
    <2>2. QED
      BY <1>2, <1>6, <2>1 DEF GetContinuationMissionId, TypeInv, TypeOK, maps, history
  <1>7. CASE NotifiesMission(x)
    <2>1. At(n, "toForget") \in Notify /\ NotifyOK(At(n, "toForget"))
      BY <1>1, <1>7, StageType DEF At, Stages, NotifyOK, NotifiesMission
    <2>2. n.t \in Continuing
      BY <1>1, <1>7 DEF NotifyOK, NotifiesMission
    <2>3. QED
      BY <1>2, <1>7, <2>1, <2>2 DEF NotifiesMission, TypeInv, TypeOK, maps
  <1>8. CASE PopContinuationMissionMap(x)
    BY <1>2, <1>8 DEF PopContinuationMissionMap, MissionMapWithout, TypeInv, TypeOK, history
  <1>9. QED
    BY <1>3, <1>4, <1>5, <1>6, <1>7, <1>8 DEF NotifyStep

LEMMA OfflineTypeInv ==
    ASSUME TypeInv, NEW d \in Devices, NotifyDeviceOffline(d)
    PROVE  TypeInv'
  <1> DEFINE gone == {t \in callbackMap : DeviceOf[t] = d}
  <1>1. ASSUME NEW t \in Tasks PROVE Append(told[t], "offline") \in Seq(Results)
    <2>1. told[t] \in Seq(Results) /\ "offline" \in Results
      BY DEF TypeInv, TypeOK, Results
    <2>2. QED
      BY <2>1
  <1>2. told' \in [Tasks -> Seq(Results)]
    BY <1>1 DEF NotifyDeviceOffline, TypeInv, TypeOK
  <1>3. QED
    BY <1>2 DEF NotifyDeviceOffline, RemovedEvents, TypeInv, TypeOK

(* One case for each process that may take a step. *)
LEMMA NextTypeInv == TypeInv /\ [Next]_vars => TypeInv'
  <1>1. SUFFICES ASSUME TypeInv, [Next]_vars PROVE TypeInv'
    OBVIOUS
  <1>2. CASE UNCHANGED vars
    BY <1>1, <1>2 DEF TypeInv, TypeOK, vars, maps, history
  <1>3. CASE Next
    BY <1>1, <1>3, RequestTypeInv, TargetTypeInv, TimeoutTypeInv, NotifyTypeInv, OfflineTypeInv
    DEF Next
  <1>4. QED
    BY <1>1, <1>2, <1>3

LEMMA AlwaysTypeInv == Spec => []TypeInv
  BY InitTypeInv, NextTypeInv, PTL DEF Spec

(* The variables keep their types: for any tasks, continuations and devices, what *)
(* DmsCallbackTask and the calls around it do never leaves TypeOK.                *)
THEOREM TypeCorrect == Spec => []TypeOK
  <1>1. TypeInv => TypeOK
    BY DEF TypeInv
  <1>2. QED
    BY <1>1, AlwaysTypeInv, PTL

-----------------------------------------------------------------------------
(* The timeouts. *)

LEMMA NextEveryTaskIsTimed ==
    ASSUME TypeInv, EveryTaskIsTimed, [Next]_vars
    PROVE  EveryTaskIsTimed'
  <1> USE FreeInstallAssumption DEF EveryTaskIsTimed
  <1>1. CASE UNCHANGED vars
    BY <1>1 DEF vars, maps
  <1>2. ASSUME NEW t \in Tasks, StartRemoteFreeInstall(t)
        PROVE  EveryTaskIsTimed'
    BY <1>2 DEF StartRemoteFreeInstall, PushCallback, SentEvents
  <1>3. ASSUME NEW t \in Tasks, RequestStep(t)
        PROVE  EveryTaskIsTimed'
    <2>1. notify' = notify
      BY <1>3 DEF RequestStep, SetContinuationMissionMap, SetCallerInfoFails, SendsStartFreeInstall,
                  StartFreeInstallReturns, PopsRefused, NotifiesRefused
    <2>2. \/ callbackMap' = callbackMap /\ events' = events
          \/ PopCallback(t)
      BY <1>3 DEF RequestStep, SetContinuationMissionMap, SetCallerInfoFails, SendsStartFreeInstall,
                  StartFreeInstallReturns, PopsRefused, NotifiesRefused, maps
    <2>3. QED
      BY <2>1, <2>2 DEF PopCallback
  <1>4. ASSUME NEW t \in Tasks, StartFreeInstallFromRemote(t) \/ NotifyCompleteFreeInstall(t)
        PROVE  EveryTaskIsTimed'
    <2>1. callbackMap' = callbackMap /\ events' = events
      BY <1>4 DEF StartFreeInstallFromRemote, NotifyCompleteFreeInstall, maps
    <2>2. notify'[Handler] = notify[Handler]
      <3>1. \/ notify' = notify
            \/ \E n : notify' = [notify EXCEPT ![t] = n]
        BY <1>4 DEF StartFreeInstallFromRemote, NotifyCompleteFreeInstall, Becomes
      <3>2. Handler # t
        OBVIOUS
      <3>3. QED
        BY <3>1, <3>2 DEF TypeInv, TypeOK, Actors
    <2>3. QED
      BY <2>1, <2>2
  <1>5. ASSUME NEW t \in Tasks, FreeInstallTimeout(t)
        PROVE  EveryTaskIsTimed'
    <2>1. callbackMap \subseteq events
      BY <1>5 DEF FreeInstallTimeout
    <2>2. notify'[Handler] = Entered(t, "failed")
      BY <1>5 DEF FreeInstallTimeout, Becomes, TypeInv, TypeOK, Actors
    <2>3. QED
      BY <1>5, <2>1, <2>2 DEF FreeInstallTimeout, Entered
  <1>6. ASSUME NEW x \in Actors, NotifyStep(x)
        PROVE  EveryTaskIsTimed'
    <2>1. CASE GetsLaunchType(x)
      <3>1. notify'[Handler] = notify[Handler] \/
            (x = Handler /\ notify'[Handler] = Typed(notify[Handler], GetLaunchType(notify[Handler].t)))
        BY <2>1 DEF GetsLaunchType, Becomes, TypeInv, TypeOK, Actors
      <3>2. QED
        BY <2>1, <3>1 DEF GetsLaunchType, Typed, maps
    <2>2. CASE PopsCallback(x)
      <3>1. x # Handler => notify'[Handler] = notify[Handler]
        BY <2>2 DEF PopsCallback, Becomes, TypeInv, TypeOK, Actors
      <3>2. QED
        BY <2>2, <3>1 DEF PopsCallback, PopCallback
    <2>3. CASE \/ NotifyFreeInstallResult(x) \/ GetContinuationMissionId(x)
               \/ NotifiesMission(x) \/ PopContinuationMissionMap(x)
      <3>1. notify[x].st \notin {"entered", "typed"}
        BY <2>3 DEF NotifyFreeInstallResult, GetContinuationMissionId, NotifiesMission,
                    PopContinuationMissionMap
      <3>2. callbackMap' = callbackMap /\ events' = events
        BY <2>3 DEF NotifyFreeInstallResult, GetContinuationMissionId, NotifiesMission,
                    PopContinuationMissionMap, maps
      <3>3. \E n : notify' = [notify EXCEPT ![x] = n]
        BY <2>3 DEF NotifyFreeInstallResult, GetContinuationMissionId, NotifiesMission,
                    PopContinuationMissionMap, Becomes
      <3>4. x # Handler => notify'[Handler] = notify[Handler]
        BY <3>3 DEF TypeInv, TypeOK, Actors
      <3>5. QED
        BY <3>1, <3>2, <3>4
    <2>4. QED
      BY <1>6, <2>1, <2>2, <2>3 DEF NotifyStep
  <1>7. ASSUME NEW d \in Devices, NotifyDeviceOffline(d)
        PROVE  EveryTaskIsTimed'
    BY <1>7 DEF NotifyDeviceOffline, RemovedEvents
  <1>8. QED
    BY <1>1, <1>2, <1>3, <1>4, <1>5, <1>6, <1>7 DEF Next

(* A task that is kept has a timeout queued or being handled, and no timeout is   *)
(* queued for a task that is gone: PushCallback, PopCallback, NotifyDeviceOffline *)
(* and the event handler keep map and queue together, however many tasks, threads *)
(* and devices there are.                                                         *)
THEOREM EveryTaskIsTimedCorrect == Spec => []EveryTaskIsTimed
  <1>1. Init => EveryTaskIsTimed
    BY DEF Init, EveryTaskIsTimed
  <1>2. QED
    BY <1>1, AlwaysTypeInv, NextEveryTaskIsTimed, PTL DEF Spec

-----------------------------------------------------------------------------
(* Telling the callbacks.  ToldOnce is not inductive: it must be known that who *)
(* is about to tell a callback is the only one, and found it untold.            *)

Telling(x, t) == notify[x].st = "toTell" /\ notify[x].t = t
Untold(t) == t \notin callbackMap /\ told[t] = << >>

TellInv ==
    /\ ToldOnce
    /\ \A t \in Tasks : pc[t] \in {"new", "toTell"} => Untold(t)
    /\ \A t \in Tasks, x \in Actors : Telling(x, t) =>
          /\ Untold(t) /\ pc[t] \notin {"new", "toTell"}
          /\ \A y \in Actors : Telling(y, t) => y = x

(* A step that tells nobody and makes nobody a teller. *)
Silent ==
    /\ told' = told /\ callbackMap' \subseteq callbackMap
    /\ \A t \in Tasks : pc'[t] \in {"new", "toTell"} => pc'[t] = pc[t]
    /\ \A t \in Tasks, x \in Actors : Telling(x, t)' => Telling(x, t) /\ pc'[t] = pc[t]

LEMMA SilentKeepsTellInv == ASSUME TellInv, Silent PROVE TellInv'
  BY DEF TellInv, ToldOnce, Untold, Silent

LEMMA AppendLen ==
    ASSUME NEW s \in Seq(Results), s = << >>, NEW res \in Results
    PROVE  Len(Append(s, res)) <= 1
  OBVIOUS

(* Appending to the results of one untold task. *)
LEMMA TellKeepsToldOnce ==
    ASSUME TypeInv, TellInv, NEW t \in Tasks, Untold(t), NEW res \in Results,
           Tell(t, res), callbackMap' = callbackMap
    PROVE  ToldOnce' /\ \A u \in Tasks : u # t => told'[u] = told[u]
  <1>1. told'[t] = Append(told[t], res) /\ \A u \in Tasks : u # t => told'[u] = told[u]
    BY DEF Tell, TypeInv, TypeOK
  <1>2. Len(told'[t]) <= 1
    BY <1>1, AppendLen DEF Untold, TypeInv, TypeOK
  <1>3. ASSUME NEW u \in Tasks
        PROVE  Len(told'[u]) <= 1 /\ (u \in callbackMap' => told'[u] = << >>)
    <2>1. CASE u = t
      <3>1. Len(told'[u]) <= 1
        BY <1>2, <2>1
      <3>2. u \notin callbackMap'
        BY <2>1 DEF Untold
      <3>3. QED
        BY <3>1, <3>2
    <2>2. CASE u # t
      <3>1. told'[u] = told[u]
        BY <1>1, <2>2
      <3>2. Len(told[u]) <= 1 /\ (u \in callbackMap => told[u] = << >>)
        BY DEF TellInv, ToldOnce
      <3>3. QED
        BY <3>1, <3>2
    <2>3. QED
      BY <2>1, <2>2
  <1>4. QED
    BY <1>1, <1>3 DEF ToldOnce

LEMMA RequestTellInv ==
    ASSUME TypeInv, TellInv, NEW t \in Tasks, StartRemoteFreeInstall(t) \/ RequestStep(t)
    PROVE  TellInv'
  <1>1. CASE StartRemoteFreeInstall(t)
    <2>1. /\ pc[t] = "new" /\ pc'[t] \in {"pushed", "ready"}
          /\ \A u \in Tasks : u # t => pc'[u] = pc[u]
      BY <1>1 DEF StartRemoteFreeInstall, Goto, TypeInv, TypeOK
    <2>2. told' = told /\ notify' = notify /\ callbackMap' = callbackMap \cup {t}
      BY <1>1 DEF StartRemoteFreeInstall, PushCallback, history
    <2>3. QED
      BY <2>1, <2>2 DEF TellInv, ToldOnce, Untold, Telling
  <1>2. CASE \/ SetContinuationMissionMap(t) \/ SetCallerInfoFails(t)
             \/ SendsStartFreeInstall(t) \/ StartFreeInstallReturns(t)
    <2>1. PICK st \in {"ready", "error", "calling", "accepted", "undo"} : Goto(t, st)
      BY <1>2 DEF SetContinuationMissionMap, SetCallerInfoFails, SendsStartFreeInstall,
                  StartFreeInstallReturns
    <2>2. told' = told /\ notify' = notify /\ callbackMap' = callbackMap
      BY <1>2 DEF SetContinuationMissionMap, SetCallerInfoFails, SendsStartFreeInstall,
                  StartFreeInstallReturns, maps, history
    <2>3. pc'[t] = st /\ \A u \in Tasks : u # t => pc'[u] = pc[u]
      BY <2>1 DEF Goto, TypeInv, TypeOK
    <2>4. QED
      BY <2>2, <2>3 DEF TellInv, ToldOnce, Untold, Telling
  <1>3. CASE PopsRefused(t)
    <2>1. told' = told /\ notify' = notify /\ callbackMap' = callbackMap \ {t}
      BY <1>3 DEF PopsRefused, PopCallback
    <2>2. /\ pc'[t] \in {"toTell", "error"}
          /\ pc'[t] = "toTell" => t \in callbackMap
          /\ \A u \in Tasks : u # t => pc'[u] = pc[u]
      BY <1>3 DEF PopsRefused, Goto, TypeInv, TypeOK
    <2>3. ToldOnce'
      BY <2>1 DEF TellInv, ToldOnce
    <2>4. \A u \in Tasks : pc'[u] \in {"new", "toTell"} => Untold(u)'
      BY <2>1, <2>2 DEF TellInv, ToldOnce, Untold
    <2>5. \A u \in Tasks, x \in Actors : Telling(x, u) => pc'[u] \notin {"new", "toTell"}
      BY <2>2 DEF TellInv, Untold
    <2>6. \A u \in Tasks, x \in Actors : Telling(x, u)' <=> Telling(x, u)
      BY <2>1 DEF Telling
    <2>7. QED
      BY <2>1, <2>3, <2>4, <2>5, <2>6 DEF TellInv, Untold
  <1>4. CASE NotifiesRefused(t)
    <2>1. Untold(t) /\ \A x \in Actors : ~Telling(x, t)
      BY <1>4 DEF NotifiesRefused, TellInv
    <2>2. ToldOnce' /\ \A u \in Tasks : u # t => told'[u] = told[u]
      BY <1>4, <2>1, TellKeepsToldOnce DEF NotifiesRefused, Results, maps
    <2>3. notify' = notify /\ callbackMap' = callbackMap
      BY <1>4 DEF NotifiesRefused, maps
    <2>4. pc'[t] = "error" /\ \A u \in Tasks : u # t => pc'[u] = pc[u]
      BY <1>4 DEF NotifiesRefused, Goto, TypeInv, TypeOK
    <2>5. QED
      BY <2>1, <2>2, <2>3, <2>4 DEF TellInv, Untold, Telling
  <1>5. QED
    BY <1>1, <1>2, <1>3, <1>4 DEF RequestStep

(* A run that goes on to what is not a telling leaves the others alone. *)
LEMMA BecomesTelling ==
    ASSUME TypeInv, NEW x \in Actors, NEW n, Becomes(x, n)
    PROVE  /\ notify'[x] = n
           /\ \A y \in Actors, t \in Tasks : y # x => (Telling(y, t)' <=> Telling(y, t))
  BY DEF Becomes, Telling, TypeInv, TypeOK

LEMMA BecomesSilent ==
    ASSUME TypeInv, NEW x \in Actors, NEW n, n.st # "toTell", Becomes(x, n),
           pc' = pc, told' = told, callbackMap' \subseteq callbackMap
    PROVE  Silent
  BY BecomesTelling DEF Silent, Telling

LEMMA NotifyTellInv ==
    ASSUME TypeInv, TellInv, NEW x \in Actors, NotifyStep(x)
    PROVE  TellInv'
  <1>1. CASE \/ GetsLaunchType(x) \/ GetContinuationMissionId(x)
             \/ NotifiesMission(x) \/ PopContinuationMissionMap(x)
    <2>1. \E n : n.st # "toTell" /\ Becomes(x, n)
      BY <1>1 DEF GetsLaunchType, GetContinuationMissionId, NotifiesMission,
                  PopContinuationMissionMap, Typed, At, NoNotify
    <2>2. pc' = pc /\ told' = told /\ callbackMap' = callbackMap
      BY <1>1 DEF GetsLaunchType, GetContinuationMissionId, NotifiesMission,
                  PopContinuationMissionMap, maps, history
    <2>3. QED
      BY <2>1, <2>2, BecomesSilent, SilentKeepsTellInv
  <1>2. CASE PopsCallback(x)
    <2>1. pc' = pc /\ told' = told /\ callbackMap' = callbackMap \ {notify[x].t}
      BY <1>2 DEF PopsCallback, PopCallback, history
    <2>2. CASE AfterPop(notify[x]) # "toTell"
      <3>1. \E n : n.st # "toTell" /\ Becomes(x, n)
        BY <1>2, <2>2 DEF PopsCallback, At, NoNotify
      <3>2. QED
        BY <2>1, <3>1, BecomesSilent, SilentKeepsTellInv
    <2>3. CASE AfterPop(notify[x]) = "toTell"
      <3>1. notify[x].t \in callbackMap
        BY <2>3 DEF AfterPop
      <3>2. Becomes(x, At(notify[x], "toTell"))
        BY <1>2, <2>3 DEF PopsCallback
      <3>3. /\ notify'[x].t = notify[x].t /\ notify[x].st = "typed"
            /\ \A y \in Actors, t \in Tasks : y # x => (Telling(y, t)' <=> Telling(y, t))
        BY <1>2, <3>2, BecomesTelling DEF At, PopsCallback
      <3>4. QED
        BY <2>1, <3>1, <3>3 DEF TellInv, ToldOnce, Untold, Telling
    <2>4. QED
      BY <2>2, <2>3
  <1>3. CASE NotifyFreeInstallResult(x)
    <2> DEFINE t == notify[x].t
    <2>1. t \in Tasks /\ notify[x].res \in Results
      BY <1>3 DEF NotifyFreeInstallResult, TypeInv, TypeOK, NotifyOK, Notify
    <2>2. /\ Untold(t) /\ pc[t] \notin {"new", "toTell"}
          /\ \A y \in Actors : Telling(y, t) => y = x
      BY <1>3, <2>1 DEF NotifyFreeInstallResult, TellInv, Telling
    <2>3. ToldOnce' /\ \A u \in Tasks : u # t => told'[u] = told[u]
      BY <1>3, <2>1, <2>2, TellKeepsToldOnce DEF NotifyFreeInstallResult, maps
    <2>4. /\ notify'[x] = NoNotify
          /\ \A y \in Actors, u \in Tasks : y # x => (Telling(y, u)' <=> Telling(y, u))
      BY <1>3, BecomesTelling DEF NotifyFreeInstallResult
    <2>5. pc' = pc /\ callbackMap' = callbackMap
      BY <1>3 DEF NotifyFreeInstallResult, maps
    <2>6. \A u \in Tasks : ~Telling(x, u)'
      BY <2>4 DEF Telling, NoNotify
    <2> HIDE DEF t
    <2>7. QED
      BY <2>1, <2>2, <2>3, <2>4, <2>5, <2>6 DEF TellInv, Untold
  <1>4. QED
    BY <1>1, <1>2, <1>3 DEF NotifyStep

LEMMA OfflineTellInv ==
    ASSUME TypeInv, TellInv, NEW d \in Devices, NotifyDeviceOffline(d)
    PROVE  TellInv'
  <1> DEFINE gone == {t \in callbackMap : DeviceOf[t] = d}
  <1>1. /\ callbackMap' = callbackMap \ gone /\ pc' = pc /\ notify' = notify
        /\ \A t \in Tasks : told'[t] = IF t \in gone /\ HasCallback(t)
                                      THEN Append(told[t], "offline") ELSE told[t]
    BY DEF NotifyDeviceOffline
  <1>2. ASSUME NEW t \in Tasks, t \in gone
        PROVE  told[t] = << >> /\ Len(Append(told[t], "offline")) <= 1
    <2>1. told[t] \in Seq(Results) /\ "offline" \in Results /\ told[t] = << >>
      BY <1>2 DEF TypeInv, TypeOK, Results, TellInv, ToldOnce
    <2>2. QED
      BY <2>1, AppendLen
  <1>3. \A t \in Tasks : t \notin gone => told'[t] = told[t]
    BY <1>1
  <1>4. ASSUME NEW t \in Tasks PROVE Len(told'[t]) <= 1
    <2>1. Len(told[t]) <= 1
      BY DEF TellInv, ToldOnce
    <2>2. told'[t] = told[t] \/ (t \in gone /\ told'[t] = Append(told[t], "offline"))
      BY <1>1
    <2> HIDE DEF gone
    <2>3. QED
      BY <1>2, <2>1, <2>2
  <1>5. \A t \in gone : t \in callbackMap
    OBVIOUS
  <1> HIDE DEF gone
  <1>6. QED
    BY <1>1, <1>3, <1>4, <1>5 DEF TellInv, ToldOnce, Untold, Telling

LEMMA NextTellInv == ASSUME TypeInv, TellInv, [Next]_vars PROVE TellInv'
  <1>1. CASE UNCHANGED vars
    BY <1>1 DEF TellInv, ToldOnce, Untold, Telling, vars, maps, history
  <1>2. ASSUME NEW t \in Tasks,
               \/ StartFreeInstallFromRemote(t) \/ NotifyCompleteFreeInstall(t)
               \/ FreeInstallTimeout(t)
        PROVE  TellInv'
    <2>1. pc' = pc /\ told' = told /\ callbackMap' = callbackMap
      BY <1>2 DEF StartFreeInstallFromRemote, NotifyCompleteFreeInstall, FreeInstallTimeout,
                  maps, history
    <2>2. \/ notify' = notify
          \/ \E x \in Actors : \E n : n.st # "toTell" /\ Becomes(x, n)
      BY <1>2 DEF StartFreeInstallFromRemote, NotifyCompleteFreeInstall, FreeInstallTimeout,
                  Entered, Actors
    <2>3. CASE notify' = notify
      BY <2>1, <2>3 DEF TellInv, ToldOnce, Untold, Telling
    <2>4. CASE \E x \in Actors : \E n : n.st # "toTell" /\ Becomes(x, n)
      BY <2>1, <2>4, BecomesSilent, SilentKeepsTellInv
    <2>5. QED
      BY <2>2, <2>3, <2>4
  <1>3. QED
    BY <1>1, <1>2, RequestTellInv, NotifyTellInv, OfflineTellInv DEF Next

(* No callback is told two results, by the target, a refusal, the timeout or the   *)
(* loss of the device, for any number of tasks: PopCallback gives a task to one of *)
(* them only.                                                                      *)
THEOREM ToldOnceCorrect == Spec => []ToldOnce
  <1>1. Init => TellInv
    BY DEF Init, TellInv, ToldOnce, Untold, Telling, NoNotify
  <1>2. TellInv => ToldOnce
    BY DEF TellInv
  <1>3. QED
    BY <1>1, <1>2, AlwaysTypeInv, NextTellInv, PTL DEF Spec

-----------------------------------------------------------------------------
(* Reports of success.  A run that carries one was entered for an ability that *)
(* the target started.                                                         *)

OkStarted(n) == n.st # "idle" /\ n.res = "ok" => n.t \in started
OkTold(t) == \A i \in 1..Len(told[t]) : told[t][i] = "ok" => t \in started
OkInv ==
    /\ \A x \in Actors : OkStarted(notify[x])
    /\ \A t \in Tasks : OkTold(t)

LEMMA AppendElements ==
    ASSUME NEW s \in Seq(Results), NEW res \in Results
    PROVE  \A i \in 1..Len(Append(s, res)) :
              Append(s, res)[i] = res \/ (i \in 1..Len(s) /\ Append(s, res)[i] = s[i])
  OBVIOUS

(* One result more, which is no success or a true one. *)
LEMMA AppendOk ==
    ASSUME TypeInv, NEW t \in Tasks, OkTold(t), NEW res \in Results, res = "ok" => t \in started,
           told'[t] = Append(told[t], res), started' = started
    PROVE  OkTold(t)'
  <1>1. told[t] \in Seq(Results)
    BY DEF TypeInv, TypeOK
  <1>2. \A i \in 1..Len(told'[t]) :
           told'[t][i] = res \/ (i \in 1..Len(told[t]) /\ told'[t][i] = told[t][i])
    BY <1>1, AppendElements
  <1>3. QED
    BY <1>2 DEF OkTold

LEMMA TellOk ==
    ASSUME TypeInv, OkInv, NEW t \in Tasks, NEW res \in Results, res = "ok" => t \in started,
           Tell(t, res), started' = started
    PROVE  \A u \in Tasks : OkTold(u)'
  <1>1. told'[t] = Append(told[t], res) /\ \A u \in Tasks : u # t => told'[u] = told[u]
    BY DEF Tell, TypeInv, TypeOK
  <1>2. OkTold(t)'
    BY <1>1, AppendOk DEF OkInv
  <1>3. QED
    BY <1>1, <1>2 DEF OkInv, OkTold

(* Nothing told, and one run at most goes on, with what it had. *)
LEMMA QuietOk ==
    ASSUME TypeInv, OkInv, told' = told, started' = started,
           notify' = notify \/ \E x \in Actors : \E n :
               Becomes(x, n) /\ (n.st = "idle" \/ n.res = "failed"
                                 \/ (n.t = notify[x].t /\ n.res = notify[x].res
                                     /\ notify[x].st # "idle"))
    PROVE  OkInv'
  <1>1. \A t \in Tasks : OkTold(t)'
    BY DEF OkInv, OkTold
  <1>2. \A x \in Actors : OkStarted(notify[x])'
    BY DEF OkInv, OkStarted, Becomes, TypeInv, TypeOK
  <1>3. QED
    BY <1>1, <1>2 DEF OkInv

LEMMA RequestOkInv ==
    ASSUME TypeInv, OkInv, NEW t \in Tasks, StartRemoteFreeInstall(t) \/ RequestStep(t)
    PROVE  OkInv'
  <1>1. started' = started /\ notify' = notify
    BY DEF StartRemoteFreeInstall, RequestStep, SetContinuationMissionMap, SetCallerInfoFails,
           SendsStartFreeInstall, StartFreeInstallReturns, PopsRefused, NotifiesRefused
  <1>2. told' = told \/ Tell(t, "failed")
    BY DEF StartRemoteFreeInstall, RequestStep, SetContinuationMissionMap, SetCallerInfoFails,
           SendsStartFreeInstall, StartFreeInstallReturns, PopsRefused, NotifiesRefused, history
  <1>3. CASE told' = told
    BY <1>1, <1>3, QuietOk
  <1>4. CASE Tell(t, "failed")
    <2>1. \A u \in Tasks : OkTold(u)'
      BY <1>1, <1>4, TellOk DEF Results
    <2>2. QED
      BY <1>1, <2>1 DEF OkInv, OkStarted
  <1>5. QED
    BY <1>2, <1>3, <1>4

LEMMA TargetOkInv ==
    ASSUME TypeInv, OkInv, NEW t \in Tasks,
           StartFreeInstallFromRemote(t) \/ NotifyCompleteFreeInstall(t)
    PROVE  OkInv'
  <1>1. CASE StartFreeInstallFromRemote(t)
    BY <1>1, QuietOk DEF StartFreeInstallFromRemote, history
  <1>2. CASE NotifyCompleteFreeInstall(t)
    <2>1. PICK installs, starts \in BOOLEAN :
             /\ started' = IF starts THEN started \cup {t} ELSE started
             /\ \/ Becomes(t, Entered(t, Reported(installs, starts)))
                \/ UNCHANGED notify
      BY <1>2 DEF NotifyCompleteFreeInstall
    <2>2. told' = told /\ started \subseteq started'
      BY <1>2, <2>1 DEF NotifyCompleteFreeInstall, history
    <2>3. Reported(installs, starts) = "ok" => t \in started'
      BY <2>1 DEF Reported
    <2>4. \A x \in Actors : notify'[x] = notify[x] \/
              notify'[x] = Entered(t, Reported(installs, starts))
      BY <2>1 DEF Becomes, TypeInv, TypeOK
    <2>5. \A x \in Actors : OkStarted(notify[x])'
      BY <2>2, <2>3, <2>4 DEF OkInv, OkStarted, Entered
    <2>6. \A u \in Tasks : OkTold(u)'
      BY <2>2 DEF OkInv, OkTold
    <2>7. QED
      BY <2>5, <2>6 DEF OkInv
  <1>3. QED
    BY <1>1, <1>2

LEMMA NotifyOkInv ==
    ASSUME TypeInv, OkInv, NEW x \in Actors, NotifyStep(x)
    PROVE  OkInv'
  <1>1. CASE \/ GetsLaunchType(x) \/ PopsCallback(x) \/ GetContinuationMissionId(x)
             \/ NotifiesMission(x) \/ PopContinuationMissionMap(x)
    <2>1. told' = told /\ started' = started
      BY <1>1 DEF GetsLaunchType, PopsCallback, GetContinuationMissionId, NotifiesMission,
                  PopContinuationMissionMap, history
    <2>2. \E n : Becomes(x, n) /\ (n.st = "idle" \/ (n.t = notify[x].t /\ n.res = notify[x].res
                                                    /\ notify[x].st # "idle"))
      BY <1>1 DEF GetsLaunchType, PopsCallback, GetContinuationMissionId, NotifiesMission,
                  PopContinuationMissionMap, Typed, At, NoNotify
    <2>3. QED
      BY <2>1, <2>2, QuietOk
  <1>2. CASE NotifyFreeInstallResult(x)
    <2>1. /\ notify[x].t \in Tasks /\ notify[x].res \in Results
          /\ notify[x].res = "ok" => notify[x].t \in started
      BY <1>2 DEF NotifyFreeInstallResult, TypeInv, TypeOK, NotifyOK, Notify, OkInv, OkStarted
    <2>2. \A u \in Tasks : OkTold(u)'
      BY <1>2, <2>1, TellOk DEF NotifyFreeInstallResult
    <2>3. \A y \in Actors : OkStarted(notify[y])'
      BY <1>2 DEF NotifyFreeInstallResult, Becomes, NoNotify, OkInv, OkStarted, TypeInv, TypeOK
    <2>4. QED
      BY <2>2, <2>3 DEF OkInv
  <1>3. QED
    BY <1>1, <1>2 DEF NotifyStep

LEMMA OfflineOkInv ==
    ASSUME TypeInv, OkInv, NEW d \in Devices, NotifyDeviceOffline(d)
    PROVE  OkInv'
  <1>1. /\ started' = started /\ notify' = notify
        /\ \A t \in Tasks : told'[t] = told[t] \/ told'[t] = Append(told[t], "offline")
    BY DEF NotifyDeviceOffline
  <1>2. ASSUME NEW t \in Tasks PROVE OkTold(t)'
    <2>1. CASE told'[t] = told[t]
      BY <1>1, <2>1 DEF OkInv, OkTold
    <2>2. CASE told'[t] = Append(told[t], "offline")
      BY <1>1, <2>2, AppendOk DEF OkInv, Results
    <2>3. QED
      BY <1>1, <2>1, <2>2
  <1>3. QED
    BY <1>1, <1>2 DEF OkInv, OkStarted

LEMMA NextOkInv == ASSUME TypeInv, OkInv, [Next]_vars PROVE OkInv'
  <1>1. CASE UNCHANGED vars
    BY <1>1, QuietOk DEF vars, history
  <1>2. ASSUME NEW t \in Tasks, FreeInstallTimeout(t) PROVE OkInv'
    <2>1. /\ Becomes(Handler, Entered(t, "failed")) /\ Handler \in Actors
          /\ Entered(t, "failed").res = "failed"
      BY <1>2 DEF FreeInstallTimeout, Entered, Actors
    <2>2. told' = told /\ started' = started
      BY <1>2 DEF FreeInstallTimeout, history
    <2>3. QED
      BY <2>1, <2>2, QuietOk
  <1>3. QED
    BY <1>1, <1>2, RequestOkInv, TargetOkInv, NotifyOkInv, OfflineOkInv DEF Next

(* A callback that is told "ok" stands for an ability that the target started: the *)
(* result of StartLocalAbility, not that of the installation, travels back, and    *)
(* no timeout, refusal or loss turns into a success.                               *)
THEOREM ToldOkIfStartedCorrect == Spec => []ToldOkIfStarted
  <1>1. Init => OkInv
    BY DEF Init, OkInv, OkStarted, OkTold, NoNotify
  <1>2. OkInv => ToldOkIfStarted
    BY DEF OkInv, OkTold, ToldOkIfStarted
  <1>3. QED
    BY <1>1, <1>2, AlwaysTypeInv, NextOkInv, PTL DEF Spec
-----------------------------------------------------------------------------
(* The missions.  MissionForgotten is not inductive: what must be known is who is *)
(* going to clear a mission whose task has left the map.                          *)

Clearing(n, t) == n.t = t /\ n.st \in {"toFind", "toNotify", "toMiss", "toForget"}

(* Nothing works on a task before its request is ready, ... *)
EarlyInv ==
    \A t \in Tasks :
        /\ pc[t] \in {"new", "pushed"} => remote[t] = "none" /\ \A x \in Actors : notify[x].t # t
        /\ pc[t] = "new" => t \notin callbackMap
        /\ pc[t] = "pushed" => t \in callbackMap \cup dropped
(* ... a continuation's task is taken for a start only if it has left the map, ... *)
StartInv ==
    \A t \in Continuing, x \in Actors :
        notify[x].t = t /\ notify[x].st = "typed" /\ notify[x].type = "start" => t \notin callbackMap
(* ... and a mission is in the map only if its task is, was dropped, or is being cleared. *)
ClearedInv ==
    \A t \in continuationMissionMap :
        t \in callbackMap \cup dropped \/ \E x \in Actors : Clearing(notify[x], t)

(* The target reports a task once. *)
ReportInv == \A t \in Tasks : remote[t] # "done" => notify[t].st = "idle"

MissionInv == EarlyInv /\ StartInv /\ ClearedInv /\ ReportInv

LEMMA BecomesOne ==
    ASSUME TypeInv, NEW x \in Actors, NEW n, Becomes(x, n), NEW y \in Actors
    PROVE  notify'[y] = IF y = x THEN n ELSE notify[y]
  BY DEF TypeInv, TypeOK, Becomes

LEMMA GotoOne ==
    ASSUME TypeInv, NEW t \in Tasks, NEW st, Goto(t, st), NEW u \in Tasks
    PROVE  pc'[u] = IF u = t THEN st ELSE pc[u]
  BY DEF TypeInv, TypeOK, Goto

LEMMA TaskActors == \A t \in Tasks : t \in Actors /\ t # None
  BY FreeInstallAssumption DEF Actors

(* A request goes on: no notification moves, and only its own task may leave the map. *)
LEMMA RequestMissionInv ==
    ASSUME TypeInv, MissionInv, NEW t \in Tasks, StartRemoteFreeInstall(t) \/ RequestStep(t)
    PROVE  MissionInv'
  <1>1. notify' = notify /\ remote' = remote
    BY DEF StartRemoteFreeInstall, RequestStep, SetContinuationMissionMap, SetCallerInfoFails,
           SendsStartFreeInstall, StartFreeInstallReturns, PopsRefused, NotifiesRefused
  <1>0. ReportInv'
    BY <1>1 DEF MissionInv, ReportInv
  <1>2. CASE StartRemoteFreeInstall(t)
    <2>1. callbackMap' = callbackMap \cup {t} /\ UNCHANGED <<continuationMissionMap, dropped>>
          /\ pc[t] = "new"
      BY <1>2 DEF StartRemoteFreeInstall, PushCallback, history
    <2>2. \A u \in Tasks : IF u = t THEN pc'[u] \in {"pushed", "ready"} ELSE pc'[u] = pc[u]
      BY <1>2, GotoOne DEF StartRemoteFreeInstall
    <2>3. EarlyInv'
      BY <1>1, <2>1, <2>2 DEF MissionInv, EarlyInv
    <2>4. StartInv'
      BY <1>1, <2>1 DEF MissionInv, EarlyInv, StartInv
    <2>5. ClearedInv'
      BY <1>1, <2>1 DEF MissionInv, ClearedInv
    <2>6. QED
      BY <1>0, <2>3, <2>4, <2>5 DEF MissionInv
  <1>3. CASE SetContinuationMissionMap(t)
    <2>1. UNCHANGED <<callbackMap, dropped>> /\ pc[t] = "pushed"
          /\ continuationMissionMap' = continuationMissionMap \cup {t}
      BY <1>3 DEF SetContinuationMissionMap, history
    <2>2. \A u \in Tasks : pc'[u] = IF u = t THEN "ready" ELSE pc[u]
      BY <1>3, GotoOne DEF SetContinuationMissionMap
    <2>3. EarlyInv'
      BY <1>1, <2>1, <2>2 DEF MissionInv, EarlyInv
    <2>4. StartInv'
      BY <1>1, <2>1 DEF MissionInv, StartInv
    <2>5. ClearedInv'
      BY <1>1, <2>1 DEF MissionInv, EarlyInv, ClearedInv
    <2>6. QED
      BY <1>0, <2>3, <2>4, <2>5 DEF MissionInv
  <1>4. CASE PopsRefused(t)
    <2>1. /\ callbackMap' = callbackMap \ {t} /\ continuationMissionMap' = continuationMissionMap
          /\ dropped' = dropped \cup ({t} \cap callbackMap \cap Continuing)
          /\ pc[t] = "undo"
      BY <1>4 DEF PopsRefused, PopCallback
    <2>2. \A u \in Tasks : IF u = t THEN pc'[u] \notin {"new", "pushed"} ELSE pc'[u] = pc[u]
      BY <1>4, GotoOne DEF PopsRefused
    <2>3. EarlyInv'
      BY <1>1, <2>1, <2>2 DEF MissionInv, EarlyInv
    <2>4. StartInv'
      BY <1>1, <2>1 DEF MissionInv, StartInv
    <2>5. ClearedInv'
      BY <1>1, <2>1 DEF MissionInv, ClearedInv, TypeInv, TypeOK
    <2>6. QED
      BY <1>0, <2>3, <2>4, <2>5 DEF MissionInv
  <1>5. CASE SetCallerInfoFails(t) \/ SendsStartFreeInstall(t) \/ StartFreeInstallReturns(t)
             \/ NotifiesRefused(t)
    <2>1. UNCHANGED <<callbackMap, continuationMissionMap, dropped>>
      BY <1>5 DEF SetCallerInfoFails, SendsStartFreeInstall, StartFreeInstallReturns,
                  NotifiesRefused, maps, history
    <2>2. PICK st : Goto(t, st) /\ st \notin {"new", "pushed"}
      BY <1>5 DEF SetCallerInfoFails, SendsStartFreeInstall, StartFreeInstallReturns, NotifiesRefused
    <2>3. \A u \in Tasks : IF u = t THEN pc'[u] \notin {"new", "pushed"} ELSE pc'[u] = pc[u]
      BY <2>2, GotoOne
    <2>4. EarlyInv'
      BY <1>1, <2>1, <2>3 DEF MissionInv, EarlyInv
    <2>5. StartInv' /\ ClearedInv'
      BY <1>1, <2>1 DEF MissionInv, StartInv, ClearedInv
    <2>6. QED
      BY <1>0, <2>4, <2>5 DEF MissionInv
  <1>6. QED
    BY <1>2, <1>3, <1>4, <1>5 DEF RequestStep

(* A notification begins, for a task whose request is past SetContinuationMissionMap. *)
LEMMA EnteredMissionInv ==
    ASSUME TypeInv, MissionInv, NEW x \in Actors, NEW t \in Tasks, NEW res,
           notify[x].st = "idle", pc[t] \notin {"new", "pushed"},
           Becomes(x, Entered(t, res)) \/ UNCHANGED notify,
           UNCHANGED <<callbackMap, continuationMissionMap, dropped, pc>>,
           \A u \in Tasks : IF u = x THEN u = t /\ remote'[u] = "done" ELSE remote'[u] = remote[u]
    PROVE  MissionInv'
  <1>1. \A y \in Actors : \/ notify'[y] = notify[y]
                          \/ y = x /\ notify'[y].t = t /\ notify'[y].st = "entered"
    BY BecomesOne DEF Entered
  <1>2. EarlyInv'
    BY <1>1 DEF MissionInv, EarlyInv
  <1>3. StartInv'
    BY <1>1 DEF MissionInv, StartInv
  <1>4. ClearedInv'
    <2>1. \A u : \A y \in Actors : Clearing(notify[y], u) => notify'[y] = notify[y]
      BY <1>1 DEF Clearing
    <2>2. SUFFICES ASSUME NEW u \in continuationMissionMap, u \notin callbackMap \cup dropped
                   PROVE  \E y \in Actors : Clearing(notify'[y], u)
      BY DEF ClearedInv, Clearing
    <2>3. PICK y \in Actors : Clearing(notify[y], u)
      BY <2>2 DEF MissionInv, ClearedInv
    <2>4. notify'[y] = notify[y]
      BY <2>1, <2>3
    <2>5. QED
      BY <2>3, <2>4
  <1>5. ReportInv'
    BY <1>1, TaskActors DEF MissionInv, ReportInv
  <1>6. QED
    BY <1>2, <1>3, <1>4, <1>5 DEF MissionInv

LEMMA TargetMissionInv ==
    ASSUME TypeInv, MissionInv, NEW t \in Tasks,
           StartFreeInstallFromRemote(t) \/ NotifyCompleteFreeInstall(t)
    PROVE  MissionInv'
  <1>1. CASE StartFreeInstallFromRemote(t)
    <2>1. UNCHANGED <<callbackMap, continuationMissionMap, dropped, pc, notify>>
          /\ pc[t] = "calling" /\ remote[t] = "none"
      BY <1>1 DEF StartFreeInstallFromRemote, maps, history
    <2>2. \A u \in Tasks : u # t => remote'[u] = remote[u]
      BY <1>1 DEF StartFreeInstallFromRemote, TypeInv, TypeOK
    <2>3. QED
      BY <2>1, <2>2 DEF MissionInv, EarlyInv, StartInv, ClearedInv, ReportInv
  <1>2. CASE NotifyCompleteFreeInstall(t)
    <2>1. UNCHANGED <<callbackMap, continuationMissionMap, dropped, pc>> /\ remote[t] = "installing"
      BY <1>2 DEF NotifyCompleteFreeInstall, maps, history
    <2>2. \A u \in Tasks : remote'[u] = IF u = t THEN "done" ELSE remote[u]
      BY <1>2 DEF NotifyCompleteFreeInstall, TypeInv, TypeOK
    <2>3. PICK res : Becomes(t, Entered(t, res)) \/ UNCHANGED notify
      BY <1>2 DEF NotifyCompleteFreeInstall
    <2>4. notify[t].st = "idle" /\ pc[t] \notin {"new", "pushed"} /\ t \in Actors
      BY <2>1, TaskActors DEF MissionInv, ReportInv, EarlyInv
    <2>5. QED
      BY <2>1, <2>2, <2>3, <2>4, EnteredMissionInv
  <1>3. QED
    BY <1>1, <1>2

LEMMA TimeoutMissionInv ==
    ASSUME TypeInv, EveryTaskIsTimed, MissionInv, NEW t \in Tasks, FreeInstallTimeout(t)
    PROVE  MissionInv'
  <1>1. /\ UNCHANGED <<callbackMap, continuationMissionMap, dropped, pc, remote>>
        /\ Becomes(Handler, Entered(t, "failed"))
        /\ notify[Handler].st = "idle" /\ pc[t] # "pushed" /\ t \in events
    BY DEF FreeInstallTimeout, history
  <1>2. pc[t] # "new"
    BY <1>1 DEF EveryTaskIsTimed, MissionInv, EarlyInv
  <1>3. Handler \in Actors /\ Handler \notin Tasks
    BY FreeInstallAssumption DEF Actors
  <1>4. QED
    BY <1>1, <1>2, <1>3, EnteredMissionInv

(* A notification goes on with its task, and only once it has popped the task and *)
(* cleared the mission does it end.                                               *)
LEMMA NotifyMissionInv ==
    ASSUME TypeInv, MissionInv, NEW x \in Actors, NotifyStep(x)
    PROVE  MissionInv'
  <1>1. PICK n : Becomes(x, n) /\ (n = NoNotify \/ n.t = notify[x].t)
    BY DEF NotifyStep, GetsLaunchType, PopsCallback, NotifyFreeInstallResult,
           GetContinuationMissionId, NotifiesMission, PopContinuationMissionMap, Typed, At
  <1>2. \A y \in Actors : notify'[y] = IF y = x THEN n ELSE notify[y]
    BY <1>1, BecomesOne
  <1>3. /\ UNCHANGED <<pc, remote, dropped>> /\ callbackMap' \subseteq callbackMap
        /\ continuationMissionMap' \subseteq continuationMissionMap
    BY DEF NotifyStep, GetsLaunchType, PopsCallback, NotifyFreeInstallResult, PopCallback,
           GetContinuationMissionId, NotifiesMission, PopContinuationMissionMap, MissionMapWithout,
           maps, history
  <1>4. notify[x].st # "idle" /\ notify[x] \in Notify /\ NotifyOK(notify[x])
    BY DEF NotifyStep, GetsLaunchType, PopsCallback, NotifyFreeInstallResult,
           GetContinuationMissionId, NotifiesMission, PopContinuationMissionMap, TypeInv, TypeOK
  <1>5. PICK t \in Tasks : t = notify[x].t
    BY <1>4 DEF NotifyOK
  <1>6. NoNotify.t = None /\ NoNotify.st = "idle" /\ None \notin Tasks
    BY FreeInstallAssumption DEF NoNotify
  <1>7. pc[t] \notin {"new", "pushed"}
    BY <1>5 DEF MissionInv, EarlyInv
  <1>8. EarlyInv'
    <2> HIDE DEF NoNotify
    <2>1. \A u \in Tasks : pc[u] \in {"new", "pushed"} => n.t # u
      BY <1>1, <1>5, <1>6, <1>7
    <2>2. \A u \in Tasks : pc[u] = "pushed" => u \in callbackMap' \cup dropped'
      <3>1. callbackMap \ callbackMap' \subseteq {t}
        BY <1>5 DEF NotifyStep, GetsLaunchType, PopsCallback, NotifyFreeInstallResult, PopCallback,
           GetContinuationMissionId, NotifiesMission, PopContinuationMissionMap, maps
      <3>2. QED
        BY <1>3, <1>7, <3>1 DEF MissionInv, EarlyInv
    <2>3. QED
      BY <1>2, <1>3, <2>1, <2>2 DEF MissionInv, EarlyInv
  <1>9. ReportInv'
    <2> HIDE DEF NoNotify
    <2>1. \A u \in Tasks : remote[u] # "done" => u # x
      BY <1>4 DEF MissionInv, ReportInv
    <2>2. QED
      BY <1>2, <1>3, <2>1, TaskActors DEF MissionInv, ReportInv
  <1>10. CASE GetsLaunchType(x)
    <2>1. UNCHANGED <<callbackMap, continuationMissionMap>> /\ notify[x].st = "entered"
      BY <1>10 DEF GetsLaunchType, maps
    <2>2. notify'[x].t = t /\ notify'[x].st = "typed" /\ notify'[x].type = GetLaunchType(t)
      BY <1>5, <1>10, BecomesOne DEF GetsLaunchType, Typed
    <2>3. StartInv'
      BY <1>2, <2>1, <2>2 DEF MissionInv, StartInv, GetLaunchType
    <2>4. ClearedInv'
      BY <1>2, <1>3, <2>1 DEF MissionInv, ClearedInv, Clearing
    <2>5. QED
      BY <1>8, <1>9, <2>3, <2>4 DEF MissionInv
  <1>11. CASE PopsCallback(x)
    <2>1. /\ callbackMap' = callbackMap \ {t} /\ continuationMissionMap' = continuationMissionMap
          /\ notify[x].st = "typed"
      BY <1>5, <1>11 DEF PopsCallback, PopCallback
    <2>2. notify'[x].st # "typed"
      BY <1>11, BecomesOne DEF PopsCallback, AfterPop, At, NoNotify
    <2>3. StartInv'
      BY <1>2, <2>1, <2>2 DEF MissionInv, StartInv
    <2>4. t \in Continuing /\ t \in callbackMap => Clearing(notify'[x], t)
      <3>1. SUFFICES ASSUME t \in Continuing, t \in callbackMap
                     PROVE  Clearing(notify'[x], t)
        OBVIOUS
      <3>2. notify[x].type = "continue"
        BY <1>4, <1>5, <2>1, <3>1 DEF MissionInv, StartInv, Notify
      <3>3. notify'[x].t = t /\ notify'[x].st \in {"toForget", "toFind"}
        BY <1>5, <1>11, <3>2, BecomesOne DEF PopsCallback, AfterPop, At
      <3>4. QED
        BY <3>3 DEF Clearing
    <2>5. ClearedInv'
      <3>1. SUFFICES ASSUME NEW u \in continuationMissionMap
                     PROVE  u \in callbackMap' \cup dropped'
                            \/ \E y \in Actors : Clearing(notify'[y], u)
        BY <2>1 DEF ClearedInv, Clearing
      <3>2. u \in Continuing
        BY DEF TypeInv, TypeOK
      <3>3. CASE u \in callbackMap \cup dropped
        BY <1>3, <2>1, <2>4, <3>2, <3>3
      <3>4. ASSUME NEW y \in Actors, Clearing(notify[y], u)
            PROVE  Clearing(notify'[y], u)
        <4>1. y # x
          BY <2>1, <3>4 DEF Clearing
        <4>2. QED
          BY <1>2, <3>4, <4>1
      <3>5. QED
        BY <3>3, <3>4 DEF MissionInv, ClearedInv
    <2>6. QED
      BY <1>8, <1>9, <2>3, <2>5 DEF MissionInv
  <1>12. CASE NotifyFreeInstallResult(x)
    <2>1. UNCHANGED <<callbackMap, continuationMissionMap>> /\ notify[x].st = "toTell" /\ n = NoNotify
      BY <1>2, <1>12, BecomesOne DEF NotifyFreeInstallResult, maps
    <2>2. StartInv' /\ ClearedInv'
      <3> HIDE DEF NoNotify
      <3> QED
        BY <1>2, <1>3, <1>6, <2>1 DEF MissionInv, StartInv, ClearedInv, Clearing
    <2>3. QED
      BY <1>8, <1>9, <2>2 DEF MissionInv
  <1>13. CASE GetContinuationMissionId(x) \/ NotifiesMission(x)
    <2>1. UNCHANGED <<callbackMap, continuationMissionMap>>
      BY <1>13 DEF GetContinuationMissionId, NotifiesMission, maps
    <2>2. notify'[x].t = t /\ notify'[x].st \in {"toNotify", "toMiss", "toForget"}
      BY <1>5, <1>13, BecomesOne DEF GetContinuationMissionId, NotifiesMission, At
    <2>3. StartInv'
      BY <1>2, <2>1, <2>2 DEF MissionInv, StartInv
    <2>4. \A u : \A y \in Actors : Clearing(notify[y], u) => Clearing(notify'[y], u)
      BY <1>2, <1>5, <2>2 DEF Clearing
    <2>5. ClearedInv'
      BY <1>3, <2>1, <2>4 DEF MissionInv, ClearedInv, Clearing
    <2>6. QED
      BY <1>8, <1>9, <2>3, <2>5 DEF MissionInv
  <1>14. CASE PopContinuationMissionMap(x)
    <2>1. callbackMap' = callbackMap /\ continuationMissionMap' = continuationMissionMap \ {t}
          /\ n = NoNotify
      BY <1>2, <1>5, <1>14, BecomesOne DEF PopContinuationMissionMap, MissionMapWithout
    <2>2. StartInv'
      <3> HIDE DEF NoNotify
      <3> QED
        BY <1>2, <1>6, <2>1 DEF MissionInv, StartInv
    <2>3. \A u : \A y \in Actors : Clearing(notify[y], u) /\ u # t => Clearing(notify'[y], u)
      BY <1>2, <1>5 DEF Clearing
    <2>4. ClearedInv'
      BY <1>3, <2>1, <2>3 DEF MissionInv, ClearedInv, Clearing
    <2>5. QED
      BY <1>8, <1>9, <2>2, <2>4 DEF MissionInv
  <1>15. QED
    BY <1>10, <1>11, <1>12, <1>13, <1>14 DEF NotifyStep

LEMMA OfflineMissionInv ==
    ASSUME TypeInv, MissionInv, NEW d \in Devices, NotifyDeviceOffline(d)
    PROVE  MissionInv'
  <1>1. PICK gone : /\ callbackMap' = callbackMap \ gone /\ dropped' = dropped \cup (gone \cap Continuing)
                    /\ UNCHANGED <<continuationMissionMap, pc, remote, notify>>
    BY DEF NotifyDeviceOffline
  <1>2. \A t \in Tasks : pc[t] = "pushed" => t \in Continuing
    BY DEF TypeInv
  <1>3. continuationMissionMap \subseteq Continuing
    BY DEF TypeInv, TypeOK
  <1>4. EarlyInv'
    BY <1>1, <1>2 DEF MissionInv, EarlyInv
  <1>5. StartInv' /\ ReportInv'
    BY <1>1 DEF MissionInv, StartInv, ReportInv
  <1>6. ClearedInv'
    BY <1>1, <1>3 DEF MissionInv, ClearedInv
  <1>7. QED
    BY <1>4, <1>5, <1>6 DEF MissionInv

LEMMA NextMissionInv ==
    ASSUME TypeInv, EveryTaskIsTimed, MissionInv, [Next]_vars
    PROVE  MissionInv'
  <1>1. CASE UNCHANGED vars
    BY <1>1 DEF vars, maps, history, MissionInv, EarlyInv, StartInv, ClearedInv, ReportInv
  <1>2. CASE Next
    BY <1>2, RequestMissionInv, TargetMissionInv, TimeoutMissionInv, NotifyMissionInv,
       OfflineMissionInv DEF Next
  <1>3. QED
    BY <1>1, <1>2

(* The mission of a free install that has ended is forgotten, whichever of the target's *)
(* report, the refusal and the timeout ended it and however they overlap: the one that  *)
(* takes the task of a continuation out of callbackMap_ goes on to PopContinuation-     *)
(* MissionMap.  Only a task that NotifyDeviceOffline or a refusal dropped leaves its    *)
(* mission behind.                                                                      *)
THEOREM MissionForgottenCorrect == Spec => []MissionForgotten
  <1>1. Init => MissionInv
    <2>1. SUFFICES ASSUME Init PROVE MissionInv
      OBVIOUS
    <2>2. \A x \in Actors : notify[x].st = "idle" /\ notify[x].t = None
      BY <2>1 DEF Init, NoNotify
    <2>3. QED
      BY <2>1, <2>2, FreeInstallAssumption, TaskActors
      DEF Init, MissionInv, EarlyInv, StartInv, ClearedInv, ReportInv
  <1>2. MissionInv => MissionForgotten
    BY DEF MissionInv, ClearedInv, Clearing, MissionForgotten, AtRest
  <1>3. Init => EveryTaskIsTimed
    BY DEF Init, EveryTaskIsTimed
  <1>4. QED
    BY <1>1, <1>2, <1>3, AlwaysTypeInv, NextEveryTaskIsTimed, NextMissionInv, PTL DEF Spec

=============================================================================
