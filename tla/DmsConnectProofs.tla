--------------------------- MODULE DmsConnectProofs ---------------------------
(***************************************************************************)
(* What DmsConnect promises for every set of devices, connects, processes  *)
(* and threads, every limit and every environment (Serial, RpcTimeouts).   *)
(***************************************************************************)
EXTENDS DmsConnect, FiniteSetTheorems, SequenceTheorems, TLAPS

(* A call that is under way, as an activity x served by a remote handler j,   *)
(* knows its connect and its device; a handler whose reply is awaited serves  *)
(* the call its thread is making.                                             *)
CallOK(x, j) ==
    /\ x.op # "idle" => x.c \in Connects
    /\ j.st # "none" => j.c \in Connects /\ j.d \in Devices
    /\ j.st \in {"found", "bound", "erased"} => j.w \in Wrappers
    /\ j.awaited => /\ j.st # "none"
                    /\ x.op # "idle"
                    /\ j.c = x.c
                    /\ j.d \in x.todo
CallsOK == \A a \in Actors : CallOK(act[a], job[a])

TypeInv == TypeOK /\ CallsOK

-----------------------------------------------------------------------------

LEMMA FiniteConnects == \A C \in SUBSET Connects : IsFiniteSet(C) /\ Cardinality(C) \in Nat
  BY ConnectAssumption, FS_Subset, FS_CardinalityType

LEMMA UidType == \A c \in Connects : Uid(c) \in Uids /\ Owner[c] \in Processes
  BY ConnectAssumption DEF Uid

LEMMA DecreaseType ==
  ASSUME NEW m \in Nat, NEW n \in Nat
  PROVE  DecreaseConnectLocked(m, n) \in Nat
  BY DEF DecreaseConnectLocked

(* Dropping a pending task leaves a queue of tasks. *)
LEMMA RemoveTaskType ==
  ASSUME NEW S, NEW queue \in Seq(S), NEW task
  PROVE  RemoveTask(queue, task) \in Seq(S)
<1>1. CASE \E i \in 1..Len(queue) : queue[i] = task
  <2> DEFINE i == CHOOSE i \in 1..Len(queue) : queue[i] = task
  <2>1. i \in 1..Len(queue)
    BY <1>1
  <2> HIDE DEF i
  <2>2. SubSeq(queue, 1, i - 1) \in Seq(S) /\ SubSeq(queue, i + 1, Len(queue)) \in Seq(S)
    BY <2>1, SubSeqProperties, LenProperties
  <2>3. SubSeq(queue, 1, i - 1) \o SubSeq(queue, i + 1, Len(queue)) \in Seq(S)
    BY <2>2, ConcatProperties
  <2> QED
    BY <1>1, <2>3 DEF RemoveTask, i
<1>2. CASE ~ \E i \in 1..Len(queue) : queue[i] = task
  BY <1>2 DEF RemoveTask
<1> QED
  BY <1>1, <1>2

(* Erasing connects leaves counters and reports of the right type. *)
LEMMA EraseConnectsType ==
  ASSUME TypeOK, NEW C \in SUBSET Connects, EraseConnects(C)
  PROVE  /\ trackingUidMap' \in [Uids -> Nat]
         /\ deathRecipients' \in SUBSET Connects
         /\ callerReports' \in [Uids -> Int]
<1>1. \A u \in Uids : Cardinality(OfUid(C, u)) \in Nat
  BY FiniteConnects DEF OfUid
<1>2. \A u \in Uids : trackingUidMap[u] \in Nat /\ callerReports[u] \in Int
  BY DEF TypeOK, CallerTypes
<1>3. \A u \in Uids :
         DecreaseConnectLocked(trackingUidMap[u], Cardinality(OfUid(C, u))) \in Nat
  BY <1>1, <1>2, DecreaseType
<1> QED
  BY <1>1, <1>2, <1>3 DEF EraseConnects, TypeOK, CallerTypes

LEMMA EraseOnDeviceType ==
  ASSUME TypeOK, NEW d \in Devices, NEW C \in SUBSET Connects, EraseOnDevice(d, C)
  PROVE  /\ connectAbilityMap' \in [Devices -> [Connects -> 0..MaxWrappers]]
         /\ amsConnections' \in [Devices -> SUBSET (Connects \X Wrappers)]
         /\ calleeReports' \in [Devices -> Int]
<1>1. Cardinality(C \cap Recorded(d)) \in Nat
  BY FiniteConnects
<1> QED
  BY <1>1, ConnectAssumption DEF EraseOnDevice, TypeOK, CalleeTypes

-----------------------------------------------------------------------------
(* Type correctness. *)

(* One thread's call changes, on either side or on both. *)
LEMMA CallChanges ==
  ASSUME CallTypes, CallsOK, NEW a \in Actors, NEW x \in Activity, NEW j \in Job, CallOK(x, j),
         act' = [act EXCEPT ![a] = x], job' = [job EXCEPT ![a] = j]
  PROVE  CallTypes' /\ CallsOK'
<1>1. CallTypes'
  BY DEF CallTypes
<1>2. ASSUME NEW b \in Actors
      PROVE  CallOK(act[b], job[b])'
  <2>1. CASE b = a
    <3>1. act'[b] = x /\ job'[b] = j
      BY <2>1 DEF CallTypes
    <3> QED
      BY <3>1 DEF CallOK
  <2>2. CASE b # a
    <3>1. act'[b] = act[b] /\ job'[b] = job[b]
      BY <2>2 DEF CallTypes
    <3>2. CallOK(act[b], job[b])
      BY DEF CallsOK
    <3> QED
      BY <3>1, <3>2 DEF CallOK
  <2> QED
    BY <2>1, <2>2
<1> QED
  BY <1>1, <1>2 DEF CallsOK

LEMMA ActivityChanges ==
  ASSUME CallTypes, CallsOK, NEW a \in Actors, NEW x \in Activity, CallOK(x, job[a]),
         act' = [act EXCEPT ![a] = x], job' = job
  PROVE  CallTypes' /\ CallsOK'
<1>1. job[a] \in Job /\ job' = [job EXCEPT ![a] = job[a]]
  BY DEF CallTypes
<1> QED
  BY <1>1, CallChanges

LEMMA JobChanges ==
  ASSUME CallTypes, CallsOK, NEW a \in Actors, NEW j \in Job, CallOK(act[a], j),
         act' = act, job' = [job EXCEPT ![a] = j]
  PROVE  CallTypes' /\ CallsOK'
<1>1. act[a] \in Activity /\ act' = [act EXCEPT ![a] = act[a]]
  BY DEF CallTypes
<1> QED
  BY <1>1, CallChanges

LEMMA NoCallChanges ==
  ASSUME CallTypes, CallsOK, act' = act, job' = job
  PROVE  CallTypes' /\ CallsOK'
  BY DEF CallTypes, CallsOK, CallOK

(* The remaining parts of the state. *)
LEMMA CallerKept == CallerTypes /\ UNCHANGED callerVars => CallerTypes'
  BY DEF CallerTypes, callerVars
LEMMA CalleeKept == CalleeTypes /\ UNCHANGED calleeVars => CalleeTypes'
  BY DEF CalleeTypes, calleeVars
LEMMA WorldKept == WorldTypes /\ UNCHANGED worldVars => WorldTypes'
  BY DEF WorldTypes, worldVars

(* A handler at a later point of a call is a well-formed one. *)
LEMMA AtType ==
  ASSUME CallTypes, CallsOK, NEW a \in Actors, job[a].st # "none",
         NEW st \in {"arrived", "found", "bound", "erased", "replied"},
         NEW w \in 0..MaxWrappers, NEW seen \in BOOLEAN, NEW ok \in BOOLEAN,
         st \in {"found", "bound", "erased"} => w \in Wrappers
  PROVE  At(a, st, w, seen, ok) \in Job /\ CallOK(act[a], At(a, st, w, seen, ok))
<1>1. job[a] \in Job /\ CallOK(act[a], job[a])
  BY DEF CallTypes, CallsOK
<1>2. At(a, st, w, seen, ok) \in Job
  BY <1>1 DEF Job, At
<1> DEFINE r == At(a, st, w, seen, ok)
<1>3. r.st = st /\ r.w = w /\ r.c = job[a].c /\ r.d = job[a].d /\ r.awaited = job[a].awaited
  BY DEF At
<1>4. CallOK(act[a], r)
  <2> HIDE DEF r
  <2> QED BY <1>1, <1>3 DEF CallOK
<1> QED
  BY <1>2, <1>4

(* A handler that is done leaves a well-formed call. *)
LEMMA DoneType ==
  ASSUME CallTypes, CallsOK, NEW a \in Actors, job[a].st # "none", NEW ok \in BOOLEAN
  PROVE  Done(a, ok) \in Job /\ CallOK(act[a], Done(a, ok))
<1>1. CallOK(act[a], job[a])
  BY DEF CallsOK
<1>2. NoJob \in Job /\ CallOK(act[a], NoJob)
  BY <1>1, ConnectAssumption DEF NoJob, Job, CallOK
<1>3. At(a, "replied", 0, FALSE, ok) \in Job /\ CallOK(act[a], At(a, "replied", 0, FALSE, ok))
  <2>1. 0 \in 0..MaxWrappers /\ FALSE \in BOOLEAN
        /\ "replied" \in {"arrived", "found", "bound", "erased", "replied"}
        /\ "replied" \notin {"found", "bound", "erased"}
    BY ConnectAssumption
  <2> QED
    BY <2>1, AtType
<1> QED
  BY <1>2, <1>3 DEF Done

LEMMA InitTypeInv == Init => TypeInv
<1> SUFFICES ASSUME Init PROVE TypeInv
  OBVIOUS
<1> USE ConnectAssumption DEF Init
<1>1. CallerTypes /\ CalleeTypes /\ WorldTypes
  BY DEF CallerTypes, CalleeTypes, WorldTypes
<1>2. Idle \in Activity /\ NoJob \in Job /\ CallOK(Idle, NoJob)
  BY DEF Idle, Activity, NoJob, Job, CallOK
<1>3. CallTypes /\ CallsOK
  BY <1>2 DEF CallTypes, CallsOK
<1>4. dmsAdapterHandler \in Seq(Tasks)
  OBVIOUS
<1> QED
  BY <1>1, <1>3, <1>4 DEF TypeInv, TypeOK

(* The steps that only begin, change or end a call. *)
LEMMA CallStepsTypeInv ==
  ASSUME TypeInv, UNCHANGED <<callerVars, calleeVars, worldVars, dmsAdapterHandler>>,
         CallTypes', CallsOK'
  PROVE  TypeInv'
  BY CallerKept, CalleeKept, WorldKept DEF TypeInv, TypeOK

LEMMA ConnectRemoteAbilityTypeInv ==
  ASSUME TypeInv, NEW t \in Threads, NEW c \in Connects, NEW d \in Devices,
         ConnectRemoteAbility(t, c, d)
  PROVE  TypeInv'
<1> DEFINE x == [op |-> "connect", c |-> c, todo |-> {d}, tries |-> RetryTimes]
<1>1. t \in Actors /\ job[t] \in Job /\ CallOK(act[t], job[t])
  BY DEF Actors, TypeInv, TypeOK, CallTypes, CallsOK
<1>2. x \in Activity /\ CallOK(x, job[t])
  BY <1>1, ConnectAssumption DEF ConnectRemoteAbility, MayCall, Activity, CallOK
<1> QED
  BY <1>1, <1>2, ActivityChanges, CallStepsTypeInv
  DEF ConnectRemoteAbility, TypeInv, TypeOK, WorldUnchanged

LEMMA SendConnectTypeInv ==
  ASSUME TypeInv, NEW t \in Threads, SendConnect(t)
  PROVE  TypeInv'
<1>1. t \in Actors /\ act[t] \in Activity /\ job[t] \in Job /\ CallOK(act[t], job[t])
  BY DEF Actors, TypeInv, TypeOK, CallTypes, CallsOK
<1>2. PICK d \in Devices : /\ d \in act[t].todo
                           /\ job' = [job EXCEPT ![t] = Call("connect", act[t].c, d)]
  BY <1>1 DEF SendConnect, Activity
<1> DEFINE x == [act[t] EXCEPT !.tries = @ - 1]
           j == Call("connect", act[t].c, d)
<1>3. x \in Activity /\ x.op = act[t].op /\ x.c = act[t].c /\ x.todo = act[t].todo
  BY <1>1, ConnectAssumption DEF SendConnect, TriesLeft, Activity
<1>4. j \in Job /\ CallOK(x, j)
  <2>1. act[t].c \in Connects
    BY <1>1 DEF SendConnect, CallOK
  <2>2. j \in Job
    BY <2>1, <1>2, ConnectAssumption DEF Call, Job
  <2>3. j.st = "arrived" /\ j.c = act[t].c /\ j.d = d
    BY DEF Call
  <2> QED
    BY <1>2, <1>3, <2>1, <2>2, <2>3 DEF SendConnect, CallOK
<1>5. act' = [act EXCEPT ![t] = x]
  BY DEF SendConnect
<1> HIDE DEF x, j
<1> QED
  BY <1>1, <1>2, <1>3, <1>4, <1>5, CallChanges, CallStepsTypeInv
  DEF SendConnect, TypeInv, TypeOK, WorldUnchanged, j

LEMMA SendConnectFailsTypeInv ==
  ASSUME TypeInv, NEW t \in Threads, SendConnectFails(t)
  PROVE  TypeInv'
<1> DEFINE x == [act[t] EXCEPT !.tries = @ - 1]
<1>1. t \in Actors /\ act[t] \in Activity /\ CallOK(act[t], job[t])
  BY DEF Actors, TypeInv, TypeOK, CallTypes, CallsOK
<1>2. x \in Activity /\ x.op = act[t].op /\ x.c = act[t].c /\ x.todo = act[t].todo
  BY <1>1, ConnectAssumption DEF SendConnectFails, TriesLeft, Activity
<1>3. act' = [act EXCEPT ![t] = x]
  BY DEF SendConnectFails
<1> HIDE DEF x
<1>4. CallOK(x, job[t])
  BY <1>1, <1>2 DEF CallOK
<1> QED
  BY <1>1, <1>2, <1>3, <1>4, ActivityChanges, CallStepsTypeInv
  DEF SendConnectFails, TypeInv, TypeOK, WorldUnchanged

(* A call that ends leaves an idle thread, whatever its handler still does. *)
LEMMA IdleType ==
  ASSUME CallTypes, CallsOK, NEW a \in Actors
  PROVE  /\ Idle \in Activity /\ NoJob \in Job
         /\ CallOK(Idle, NoJob) /\ CallOK(act[a], NoJob)
         /\ ~job[a].awaited => CallOK(Idle, job[a])
<1>1. CallOK(act[a], job[a])
  BY DEF CallsOK
<1>2. Idle \in Activity /\ Idle.op = "idle"
  BY ConnectAssumption DEF Idle, Activity
<1>3. NoJob \in Job /\ NoJob.st = "none" /\ ~NoJob.awaited
  BY ConnectAssumption DEF NoJob, Job
<1>4. CallOK(Idle, NoJob) /\ CallOK(act[a], NoJob)
  <2> HIDE DEF NoJob, Idle
  <2> QED BY <1>1, <1>2, <1>3 DEF CallOK
<1>5. ~job[a].awaited => CallOK(Idle, job[a])
  <2> HIDE DEF Idle
  <2> QED BY <1>1, <1>2 DEF CallOK
<1> QED
  BY <1>2, <1>3, <1>4, <1>5

LEMMA MappingType ==
  ASSUME CallerTypes, NEW c \in Connects, NEW d \in Devices,
         RemoteConnectAbilityMappingLocked(c, d)
  PROVE  CallerTypes'
<1>1. distributedConnectAbilityMap' \in [Connects -> SUBSET Devices]
  BY DEF CallerTypes, RemoteConnectAbilityMappingLocked
<1>2. Uid(c) \in Uids
  BY UidType
<1>3. CASE distributedConnectAbilityMap[c] = {}
  <2>1. trackingUidMap[Uid(c)] + 1 \in Nat /\ callerReports[Uid(c)] + 1 \in Int
    BY <1>2 DEF CallerTypes
  <2>2. trackingUidMap' \in [Uids -> Nat]
    BY <1>2, <1>3, <2>1 DEF CallerTypes, RemoteConnectAbilityMappingLocked
  <2>3. callerReports' \in [Uids -> Int]
    BY <1>2, <1>3, <2>1 DEF CallerTypes, RemoteConnectAbilityMappingLocked
  <2>4. deathRecipients' \in SUBSET Connects
    BY <1>3 DEF CallerTypes, RemoteConnectAbilityMappingLocked
  <2> QED
    BY <1>1, <2>2, <2>3, <2>4 DEF CallerTypes
<1>4. CASE distributedConnectAbilityMap[c] # {}
  BY <1>1, <1>4 DEF CallerTypes, RemoteConnectAbilityMappingLocked
<1> QED
  BY <1>3, <1>4

LEMMA ConnectSucceedsTypeInv ==
  ASSUME TypeInv, NEW t \in Threads, ConnectSucceeds(t)
  PROVE  TypeInv'
<1> USE DEF TypeInv, TypeOK
<1>1. t \in Actors /\ job[t].c \in Connects /\ job[t].d \in Devices
  BY DEF Actors, CallsOK, CallOK, ConnectSucceeds
<1>2. CallTypes' /\ CallsOK'
  BY <1>1, IdleType, CallChanges DEF ConnectSucceeds
<1>3. CallerTypes'
  BY <1>1, MappingType DEF ConnectSucceeds
<1> QED
  BY <1>2, <1>3, CalleeKept, WorldKept DEF ConnectSucceeds, WorldUnchanged

LEMMA ConnectRefusedTypeInv ==
  ASSUME TypeInv, NEW t \in Threads, ConnectRefused(t)
  PROVE  TypeInv'
<1> USE DEF TypeInv, TypeOK
<1>1. t \in Actors
  BY DEF Actors
<1>2. CallTypes' /\ CallsOK'
  BY <1>1, IdleType, JobChanges DEF ConnectRefused
<1> QED
  BY <1>2, CallStepsTypeInv DEF ConnectRefused, WorldUnchanged

LEMMA ConnectGivesUpTypeInv ==
  ASSUME TypeInv, NEW t \in Threads, ConnectGivesUp(t)
  PROVE  TypeInv'
<1> USE DEF TypeInv, TypeOK
<1>1. t \in Actors
  BY DEF Actors
<1>2. CallTypes' /\ CallsOK'
  BY <1>1, IdleType, ActivityChanges DEF ConnectGivesUp
<1> QED
  BY <1>2, CallStepsTypeInv DEF ConnectGivesUp, WorldUnchanged

LEMMA DisconnectRemoteAbilityTypeInv ==
  ASSUME TypeInv, NEW t \in Threads, NEW c \in Connects, DisconnectRemoteAbility(t, c)
  PROVE  TypeInv'
<1> DEFINE x == [op |-> "disconnect", c |-> c, tries |-> 0,
                 todo |-> distributedConnectAbilityMap[c]]
<1>1. t \in Actors /\ job[t] \in Job /\ CallOK(act[t], job[t])
  BY DEF Actors, TypeInv, TypeOK, CallTypes, CallsOK
<1>2. x \in Activity /\ CallOK(x, job[t])
  BY <1>1, ConnectAssumption
  DEF DisconnectRemoteAbility, MayCall, Activity, CallOK, TypeInv, TypeOK, CallerTypes
<1>3. CallTypes' /\ CallsOK'
  BY <1>1, <1>2, ActivityChanges DEF DisconnectRemoteAbility, TypeInv, TypeOK
<1>4. CallerTypes'
  BY EraseConnectsType DEF DisconnectRemoteAbility, TypeInv, TypeOK, CallerTypes
<1> QED
  BY <1>3, <1>4, CalleeKept, WorldKept
  DEF DisconnectRemoteAbility, TypeInv, TypeOK, WorldUnchanged

LEMMA CallNextDeviceTypeInv ==
  ASSUME TypeInv, NEW a \in Actors, CallNextDevice(a)
  PROVE  TypeInv'
<1>1. act[a] \in Activity /\ CallOK(act[a], job[a])
  BY DEF TypeInv, TypeOK, CallTypes, CallsOK
<1> DEFINE kind == IF act[a].op = "notify" THEN "died" ELSE "disconnect"
<1>2. PICK d \in Devices : d \in act[a].todo /\ job' = [job EXCEPT ![a] = Call(kind, act[a].c, d)]
  BY <1>1 DEF CallNextDevice, Activity
<1> DEFINE j == Call(kind, act[a].c, d)
<1>3. act[a].c \in Connects /\ act[a].op # "idle"
  BY <1>1 DEF CallNextDevice, CallOK
<1>4. j \in Job
  BY <1>2, <1>3, ConnectAssumption DEF Call, Job
<1>5. j.st = "arrived" /\ j.c = act[a].c /\ j.d = d
  BY DEF Call
<1> HIDE DEF j
<1>6. CallOK(act[a], j)
  BY <1>2, <1>3, <1>5 DEF CallOK
<1>7. CallTypes' /\ CallsOK'
  BY <1>2, <1>4, <1>6, JobChanges DEF CallNextDevice, TypeInv, TypeOK, j
<1> QED
  BY <1>7, CallStepsTypeInv DEF CallNextDevice, WorldUnchanged

(* Passing over a device that is not being called keeps a call well-formed. *)
LEMMA TodoType ==
  ASSUME NEW x \in Activity, NEW j \in Job, CallOK(x, j), NEW d, j.awaited => j.d # d
  PROVE  /\ [x EXCEPT !.todo = @ \ {d}] \in Activity
         /\ CallOK([x EXCEPT !.todo = @ \ {d}], j)
<1> DEFINE y == [x EXCEPT !.todo = @ \ {d}]
<1>1. y \in Activity /\ y.op = x.op /\ y.c = x.c /\ y.todo = x.todo \ {d}
  BY DEF Activity
<1> HIDE DEF y
<1>2. CallOK(y, j)
  BY <1>1 DEF CallOK
<1> QED
  BY <1>1, <1>2 DEF y

LEMMA SkipOfflineDeviceTypeInv ==
  ASSUME TypeInv, NEW a \in Actors, SkipOfflineDevice(a)
  PROVE  TypeInv'
<1>1. act[a] \in Activity /\ job[a] \in Job /\ CallOK(act[a], job[a])
  BY DEF TypeInv, TypeOK, CallTypes, CallsOK
<1>2. PICK d : act' = [act EXCEPT ![a] = [act[a] EXCEPT !.todo = @ \ {d}]]
  BY DEF SkipOfflineDevice
<1>3. CallTypes' /\ CallsOK'
  BY <1>1, <1>2, TodoType, ActivityChanges DEF SkipOfflineDevice, TypeInv, TypeOK
<1> QED
  BY <1>3, CallStepsTypeInv DEF SkipOfflineDevice, WorldUnchanged

LEMMA CallReturnsTypeInv ==
  ASSUME TypeInv, NEW a \in Actors, CallReturns(a)
  PROVE  TypeInv'
<1>1. act[a] \in Activity /\ CallOK(act[a], NoJob) /\ NoJob \in Job /\ ~NoJob.awaited
  BY IdleType DEF TypeInv, TypeOK, CallTypes, CallsOK, NoJob
<1> DEFINE x == [act[a] EXCEPT !.todo = @ \ {job[a].d}]
<1>2. x \in Activity /\ CallOK(x, NoJob)
  BY <1>1, TodoType
<1>3. act' = [act EXCEPT ![a] = x] /\ job' = [job EXCEPT ![a] = NoJob]
  BY DEF CallReturns
<1> HIDE DEF x
<1>4. CallTypes' /\ CallsOK'
  BY <1>1, <1>2, <1>3, CallChanges DEF TypeInv, TypeOK
<1> QED
  BY <1>4, CallStepsTypeInv DEF CallReturns, WorldUnchanged

LEMMA CallsDoneTypeInv ==
  ASSUME TypeInv, NEW a \in Actors, CallsDone(a)
  PROVE  TypeInv'
<1> USE DEF TypeInv, TypeOK
<1>1. ~job[a].awaited
  BY DEF CallsDone, CallsOK, CallOK
<1>2. CallTypes' /\ CallsOK'
  BY <1>1, IdleType, ActivityChanges DEF CallsDone
<1> QED
  BY <1>2, CallStepsTypeInv DEF CallsDone, WorldUnchanged

(* A handler whose caller stopped waiting. *)
LEMMA UnawaitedType ==
  ASSUME NEW x \in Activity, NEW j \in Job, CallOK(x, j),
         NEW y \in Activity, y.op = "idle" \/ (y.op = x.op /\ y.c = x.c)
  PROVE  Unawaited(j) \in Job /\ CallOK(y, Unawaited(j))
<1> DEFINE i == Unawaited(j)
<1>1. i \in Job
  BY DEF Job, Unawaited
<1>2. i.st = j.st /\ i.c = j.c /\ i.d = j.d /\ i.w = j.w /\ ~i.awaited
  BY DEF Unawaited
<1> HIDE DEF i
<1>3. CallOK(y, i)
  BY <1>2 DEF CallOK
<1> QED
  BY <1>1, <1>3 DEF i

LEMMA RemoteCallFailsTypeInv ==
  ASSUME TypeInv, NEW a \in Actors, RemoteCallFails(a)
  PROVE  TypeInv'
<1> DEFINE x == AfterFailure(a)
           j == Abandoned(a)
           shorter == [act[a] EXCEPT !.todo = @ \ {job[a].d}]
<1>1. act[a] \in Activity /\ job[a] \in Job /\ CallOK(act[a], job[a])
  BY DEF TypeInv, TypeOK, CallTypes, CallsOK
<1>2. Idle \in Activity /\ Idle.op = "idle"
  BY ConnectAssumption DEF Idle, Activity
<1>3. shorter \in Activity /\ shorter.op = act[a].op /\ shorter.c = act[a].c
  BY <1>1 DEF Activity
<1>4. x \in Activity /\ (x.op = "idle" \/ (x.op = act[a].op /\ x.c = act[a].c))
  BY <1>1, <1>2, <1>3 DEF AfterFailure
<1>5. NoJob \in Job /\ NoJob.st = "none" /\ ~NoJob.awaited
  BY ConnectAssumption DEF NoJob, Job
<1> HIDE DEF x, j
<1>6. j \in Job /\ CallOK(x, j)
  <2>1. CASE job[a].st = "replied"
    <3>1. j = NoJob
      BY <2>1 DEF Abandoned, j
    <3> HIDE DEF NoJob
    <3> QED
      BY <1>1, <1>4, <1>5, <3>1 DEF CallOK
  <2>2. CASE job[a].st # "replied"
    <3>1. j = Unawaited(job[a])
      BY <2>2 DEF Abandoned, j
    <3> QED
      BY <1>1, <1>4, <3>1, UnawaitedType
  <2> QED
    BY <2>1, <2>2
<1>7. CallTypes' /\ CallsOK'
  BY <1>4, <1>6, CallChanges DEF RemoteCallFails, TypeInv, TypeOK, x, j
<1> QED
  BY <1>7, CallStepsTypeInv DEF RemoteCallFails, WorldUnchanged

(* The handler of a call goes on to j; the callee's tables stay typed. *)
LEMMA CalleeStepTypeInv ==
  ASSUME TypeInv, NEW a \in Actors, NEW j \in Job, CallOK(act[a], j), Advance(a, j),
         CalleeTypes', UNCHANGED <<callerVars, dmsAdapterHandler, act, worldVars>>
  PROVE  TypeInv'
<1>1. CallTypes' /\ CallsOK'
  BY JobChanges DEF TypeInv, TypeOK, Advance
<1> QED
  BY <1>1, CallerKept, WorldKept DEF TypeInv, TypeOK

LEMMA CheckDPermissionDeniesTypeInv ==
  ASSUME TypeInv, NEW a \in Actors, CheckDPermissionDenies(a)
  PROVE  TypeInv'
<1>1. Done(a, FALSE) \in Job /\ CallOK(act[a], Done(a, FALSE))
  BY DoneType DEF TypeInv, TypeOK, CheckDPermissionDenies
<1> QED
  BY <1>1, CalleeKept, CalleeStepTypeInv
  DEF CheckDPermissionDenies, TypeInv, TypeOK, WorldUnchanged

LEMMA AmsRefusesTypeInv ==
  ASSUME TypeInv, NEW a \in Actors, AmsRefuses(a)
  PROVE  TypeInv'
<1>1. Done(a, FALSE) \in Job /\ CallOK(act[a], Done(a, FALSE))
  BY DoneType DEF TypeInv, TypeOK, AmsRefuses
<1> QED
  BY <1>1, CalleeKept, CalleeStepTypeInv DEF AmsRefuses, TypeInv, TypeOK, WorldUnchanged

(* What the handler of a call that arrived, and one under way, have in hand. *)
LEMMA JobFacts ==
  ASSUME TypeInv, NEW a \in Actors, job[a].st # "none"
  PROVE  /\ job[a].c \in Connects /\ job[a].d \in Devices
         /\ job[a].w \in 0..MaxWrappers /\ job[a].seen \in BOOLEAN
         /\ job[a].st \in {"found", "bound", "erased"} => job[a].w \in Wrappers
         /\ connectAbilityMap[job[a].d][job[a].c] \in 0..MaxWrappers
         /\ job[a].c \in Recorded(job[a].d) => connectAbilityMap[job[a].d][job[a].c] \in Wrappers
<1>1. job[a] \in Job /\ CallOK(act[a], job[a])
  BY DEF TypeInv, TypeOK, CallTypes, CallsOK
<1>2. job[a].c \in Connects /\ job[a].d \in Devices
  BY <1>1 DEF CallOK
<1>3. connectAbilityMap[job[a].d][job[a].c] \in 0..MaxWrappers
  BY <1>2 DEF TypeInv, TypeOK, CalleeTypes
<1> QED
  BY <1>1, <1>2, <1>3, ConnectAssumption DEF CallOK, Job, Recorded, Wrappers

LEMMA ConnectAbilityFromRemoteFindsTypeInv ==
  ASSUME TypeInv, NEW a \in Actors, ConnectAbilityFromRemoteFinds(a)
  PROVE  TypeInv'
<1> DEFINE c == job[a].c
           d == job[a].d
<1>1. PICK w \in Wrappers, seen \in BOOLEAN : Advance(a, At(a, "found", w, seen, FALSE))
  <2>1. CASE c \in Recorded(d)
    BY <2>1, JobFacts DEF ConnectAbilityFromRemoteFinds
  <2>2. CASE c \notin Recorded(d)
    <3>1. (CHOOSE w \in FreshWrappers(c, d) : TRUE) \in Wrappers
      BY <2>2 DEF ConnectAbilityFromRemoteFinds, FreshWrappers
    <3> QED
      BY <2>2, <3>1 DEF ConnectAbilityFromRemoteFinds
  <2> QED
    BY <2>1, <2>2
<1> DEFINE j == At(a, "found", w, seen, FALSE)
<1>2. w \in 0..MaxWrappers
  BY ConnectAssumption DEF Wrappers
<1>3. j \in Job /\ CallOK(act[a], j)
  BY <1>2, AtType DEF ConnectAbilityFromRemoteFinds, TypeInv, TypeOK
<1> HIDE DEF j
<1> QED
  BY <1>1, <1>3, CalleeKept, CalleeStepTypeInv
  DEF ConnectAbilityFromRemoteFinds, TypeInv, TypeOK, WorldUnchanged, j

LEMMA AmsConnectAbilityTypeInv ==
  ASSUME TypeInv, NEW a \in Actors, AmsConnectAbility(a)
  PROVE  TypeInv'
<1> DEFINE j == At(a, "bound", job[a].w, job[a].seen, FALSE)
<1>1. j \in Job /\ CallOK(act[a], j)
  BY JobFacts, AtType DEF AmsConnectAbility, TypeInv, TypeOK
<1>2. CalleeTypes'
  BY JobFacts DEF AmsConnectAbility, TypeInv, TypeOK, CalleeTypes
<1> HIDE DEF j
<1> QED
  BY <1>1, <1>2, CalleeStepTypeInv DEF AmsConnectAbility, WorldUnchanged, j

LEMMA ConnectAbilityFromRemoteRecordsTypeInv ==
  ASSUME TypeInv, NEW a \in Actors, ConnectAbilityFromRemoteRecords(a)
  PROVE  TypeInv'
<1>1. Done(a, TRUE) \in Job /\ CallOK(act[a], Done(a, TRUE))
  BY DoneType DEF TypeInv, TypeOK, ConnectAbilityFromRemoteRecords
<1>2. CalleeTypes'
  <2>1. CASE job[a].seen
    BY <2>1 DEF ConnectAbilityFromRemoteRecords, TypeInv, TypeOK, CalleeTypes
  <2>2. CASE ~job[a].seen
    <3> DEFINE c == job[a].c
               d == job[a].d
               w == IF connectAbilityMap[d][c] = 0 THEN job[a].w ELSE connectAbilityMap[d][c]
    <3>1. c \in Connects /\ d \in Devices /\ w \in 0..MaxWrappers
      BY JobFacts DEF ConnectAbilityFromRemoteRecords
    <3>2. /\ calleeReports' = [calleeReports EXCEPT ![d] = @ + 1]
          /\ connectAbilityMap' = [connectAbilityMap EXCEPT ![d][c] = w]
          /\ amsConnections' = amsConnections
      BY <2>2 DEF ConnectAbilityFromRemoteRecords
    <3> HIDE DEF c, d, w
    <3> QED
      BY <3>1, <3>2 DEF TypeInv, TypeOK, CalleeTypes
  <2> QED
    BY <2>1, <2>2
<1> QED
  BY <1>1, <1>2, CalleeStepTypeInv DEF ConnectAbilityFromRemoteRecords, WorldUnchanged

LEMMA DisconnectAbilityFromRemoteTypeInv ==
  ASSUME TypeInv, NEW a \in Actors, DisconnectAbilityFromRemote(a)
  PROVE  TypeInv'
<1> DEFINE c == job[a].c
           d == job[a].d
           w == connectAbilityMap[d][c]
<1>1. c \in Connects /\ d \in Devices /\ w \in 0..MaxWrappers
      /\ (c \in Recorded(d) => w \in Wrappers)
  BY JobFacts DEF DisconnectAbilityFromRemote
<1>2. CASE c \in Recorded(d)
  <2> DEFINE j == At(a, "erased", w, FALSE, FALSE)
  <2>1. j \in Job /\ CallOK(act[a], j)
    BY <1>1, <1>2, AtType DEF DisconnectAbilityFromRemote, TypeInv, TypeOK
  <2>2. /\ connectAbilityMap' = [connectAbilityMap EXCEPT ![d][c] = 0]
        /\ calleeReports' = [calleeReports EXCEPT ![d] = @ - 1]
        /\ amsConnections' = amsConnections
        /\ Advance(a, j)
    BY <1>2 DEF DisconnectAbilityFromRemote
  <2> HIDE DEF j, c, d, w
  <2>3. CalleeTypes'
    BY <1>1, <2>2, ConnectAssumption DEF TypeInv, TypeOK, CalleeTypes
  <2> QED
    BY <2>1, <2>2, <2>3, CalleeStepTypeInv DEF DisconnectAbilityFromRemote, WorldUnchanged
<1>3. CASE c \notin Recorded(d)
  <2>1. Done(a, FALSE) \in Job /\ CallOK(act[a], Done(a, FALSE))
    BY DoneType DEF TypeInv, TypeOK, DisconnectAbilityFromRemote
  <2>2. Advance(a, Done(a, FALSE)) /\ UNCHANGED calleeVars
    BY <1>3 DEF DisconnectAbilityFromRemote, calleeVars
  <2> QED
    BY <2>1, <2>2, CalleeKept, CalleeStepTypeInv
    DEF DisconnectAbilityFromRemote, TypeInv, TypeOK, WorldUnchanged
<1> QED
  BY <1>2, <1>3

LEMMA AmsDisconnectAbilityTypeInv ==
  ASSUME TypeInv, NEW a \in Actors, AmsDisconnectAbility(a)
  PROVE  TypeInv'
<1>1. Done(a, TRUE) \in Job /\ CallOK(act[a], Done(a, TRUE))
  BY DoneType DEF TypeInv, TypeOK, AmsDisconnectAbility
<1>2. CalleeTypes'
  BY JobFacts DEF AmsDisconnectAbility, TypeInv, TypeOK, CalleeTypes
<1> QED
  BY <1>1, <1>2, CalleeStepTypeInv DEF AmsDisconnectAbility, WorldUnchanged

LEMMA NotifyProcessDiedFromRemoteTypeInv ==
  ASSUME TypeInv, NEW a \in Actors, NotifyProcessDiedFromRemote(a)
  PROVE  TypeInv'
<1>1. Done(a, TRUE) \in Job /\ CallOK(act[a], Done(a, TRUE))
  BY DoneType DEF TypeInv, TypeOK, NotifyProcessDiedFromRemote
<1>2. job[a].d \in Devices /\ SameCaller(job[a].c) \in SUBSET Connects
  BY JobFacts DEF NotifyProcessDiedFromRemote, SameCaller, ConnectsOf
<1>3. CalleeTypes'
  BY <1>2, EraseOnDeviceType DEF NotifyProcessDiedFromRemote, TypeInv, CalleeTypes
<1> QED
  BY <1>1, <1>3, CalleeStepTypeInv DEF NotifyProcessDiedFromRemote, WorldUnchanged

LEMMA RemoteProcessDeviceOfflineTypeInv ==
  ASSUME TypeInv, NEW d \in Devices, RemoteProcessDeviceOffline(d)
  PROVE  TypeInv'
<1>1. CalleeTypes'
  BY EraseOnDeviceType DEF RemoteProcessDeviceOffline, TypeInv, CalleeTypes
<1>2. WorldTypes'
  BY DEF RemoteProcessDeviceOffline, TypeInv, TypeOK, WorldTypes
<1> QED
  BY <1>1, <1>2, CallerKept, NoCallChanges DEF RemoteProcessDeviceOffline, TypeInv, TypeOK

(* Running the first task of the handler's queue leaves a queue of tasks. *)
LEMMA TailType ==
  ASSUME TypeInv, dmsAdapterHandler # << >>
  PROVE  Tail(dmsAdapterHandler) \in Seq(Tasks)
  BY DEF TypeInv, TypeOK

LEMMA ProcessDeviceOfflineTypeInv ==
  ASSUME TypeInv, NEW d \in Devices, ProcessDeviceOffline(d)
  PROVE  TypeInv'
<1>1. CallerTypes'
  <2>1. EraseConnects({c \in ConnectedTo(d) : distributedConnectAbilityMap[c] = {d}})
        /\ {c \in ConnectedTo(d) : distributedConnectAbilityMap[c] = {d}} \in SUBSET Connects
    BY DEF ProcessDeviceOffline, ConnectedTo
  <2>2. distributedConnectAbilityMap' \in [Connects -> SUBSET Devices]
    BY DEF ProcessDeviceOffline, TypeInv, TypeOK, CallerTypes
  <2> QED
    BY <2>1, <2>2, EraseConnectsType DEF TypeInv, CallerTypes
<1>2. dmsAdapterHandler' \in Seq(Tasks)
  BY TailType DEF ProcessDeviceOffline, NextTask
<1> QED
  BY <1>1, <1>2, CalleeKept, WorldKept, NoCallChanges
  DEF ProcessDeviceOffline, TypeInv, TypeOK, WorldUnchanged

LEMMA ProcessConnectDiedTypeInv ==
  ASSUME TypeInv, NEW c \in Connects, ProcessConnectDied(c)
  PROVE  TypeInv'
<1> DEFINE dead == SameCaller(c) \cap Registered
           x == [op |-> "notify", c |-> c, tries |-> 0, todo |-> DevicesToTell(c, dead)]
<1>1. dmsAdapterHandler' \in Seq(Tasks)
  BY TailType DEF ProcessConnectDied, NextTask
<1>2. CASE c \in Registered
  <2>1. dead \in SUBSET Connects
    BY DEF Registered
  <2>2. EraseConnects(dead)
        /\ distributedConnectAbilityMap' = [y \in Connects |->
               IF y \in dead THEN {} ELSE distributedConnectAbilityMap[y]]
        /\ act' = [act EXCEPT ![Handler] = x] /\ job' = job
    BY <1>2 DEF ProcessConnectDied
  <2>3. CallerTypes'
    <3> HIDE DEF dead
    <3>1. distributedConnectAbilityMap' \in [Connects -> SUBSET Devices]
      BY <2>2 DEF TypeInv, TypeOK, CallerTypes
    <3> QED
      BY <2>1, <2>2, <3>1, EraseConnectsType DEF TypeInv, CallerTypes
  <2>4. Handler \in Actors /\ CallOK(act[Handler], job[Handler]) /\ act[Handler].op = "idle"
    BY DEF Actors, ProcessConnectDied, NextTask, TypeInv, CallsOK
  <2>5. DevicesToTell(c, dead) \in SUBSET Devices
    BY <2>1 DEF DevicesToTell, TypeInv, TypeOK, CallerTypes
  <2>6. x \in Activity /\ CallOK(x, job[Handler])
    BY <2>4, <2>5, ConnectAssumption DEF Activity, CallOK
  <2>7. CallTypes' /\ CallsOK'
    <3> HIDE DEF x
    <3> QED
      BY <2>2, <2>4, <2>6, ActivityChanges DEF TypeInv, TypeOK
  <2> QED
    BY <1>1, <2>3, <2>7, CalleeKept, WorldKept
    DEF ProcessConnectDied, TypeInv, TypeOK, WorldUnchanged
<1>3. CASE c \notin Registered
  <2>1. UNCHANGED <<callerVars, act, job, calleeVars, worldVars>>
    BY <1>3 DEF ProcessConnectDied, WorldUnchanged
  <2> QED
    BY <1>1, <2>1, CallerKept, CalleeKept, WorldKept, NoCallChanges DEF TypeInv, TypeOK
<1> QED
  BY <1>2, <1>3

LEMMA ProcessDiesTypeInv ==
  ASSUME TypeInv, NEW p \in Processes, ProcessDies(p)
  PROVE  TypeInv'
<1>1. WorldTypes'
  BY DEF ProcessDies, TypeInv, TypeOK, WorldTypes
<1> QED
  BY <1>1, CallerKept, CalleeKept, NoCallChanges DEF ProcessDies, TypeInv, TypeOK

LEMMA OnRemoteDiedTypeInv ==
  ASSUME TypeInv, NEW c \in Connects, OnRemoteDied(c)
  PROVE  TypeInv'
<1>1. CallerTypes'
  BY DEF OnRemoteDied, TypeInv, TypeOK, CallerTypes
<1>2. DiedTask(c) \in Tasks
  BY DEF DiedTask, Tasks
<1>3. dmsAdapterHandler' \in Seq(Tasks)
  BY <1>2 DEF OnRemoteDied, TypeInv, TypeOK
<1> QED
  BY <1>1, <1>3, CalleeKept, WorldKept, NoCallChanges
  DEF OnRemoteDied, TypeInv, TypeOK, WorldUnchanged

LEMMA DeviceOfflineTypeInv ==
  ASSUME TypeInv, NEW d \in Devices, DeviceOffline(d)
  PROVE  TypeInv'
<1>1. BeingConnected(d) \in SUBSET Connects
  BY DEF BeingConnected
<1>2. WorldTypes'
  BY <1>1 DEF DeviceOffline, TypeInv, TypeOK, WorldTypes
<1>3. OfflineTask(d) \in Tasks
  BY DEF OfflineTask, Tasks
<1>4. dmsAdapterHandler' \in Seq(Tasks)
  BY <1>3 DEF DeviceOffline, TypeInv, TypeOK
<1> QED
  BY <1>2, <1>4, CallerKept, CalleeKept, NoCallChanges DEF DeviceOffline, TypeInv, TypeOK

LEMMA DeviceOnlineTypeInv ==
  ASSUME TypeInv, NEW d \in Devices, DeviceOnline(d)
  PROVE  TypeInv'
<1>1. WorldTypes'
  BY DEF DeviceOnline, TypeInv, TypeOK, WorldTypes
<1>2. dmsAdapterHandler' \in Seq(Tasks)
  BY RemoveTaskType DEF DeviceOnline, TypeInv, TypeOK
<1> QED
  BY <1>1, <1>2, CallerKept, CalleeKept, NoCallChanges DEF DeviceOnline, TypeInv, TypeOK

LEMMA NextTypeInv == TypeInv /\ [Next]_vars => TypeInv'
<1> SUFFICES ASSUME TypeInv, [Next]_vars PROVE TypeInv'
  OBVIOUS
<1>1. CASE \E t \in Threads, c \in Connects :
             \/ DisconnectRemoteAbility(t, c)
             \/ \E d \in Devices : ConnectRemoteAbility(t, c, d)
  BY <1>1, DisconnectRemoteAbilityTypeInv, ConnectRemoteAbilityTypeInv
<1>2. CASE \E t \in Threads : ConnectStep(t)
  BY <1>2, SendConnectTypeInv, SendConnectFailsTypeInv, ConnectSucceedsTypeInv,
     ConnectRefusedTypeInv, ConnectGivesUpTypeInv DEF ConnectStep
<1>3. CASE \E a \in Actors : CallsStep(a)
  BY <1>3, CallNextDeviceTypeInv, SkipOfflineDeviceTypeInv, CallReturnsTypeInv,
     CallsDoneTypeInv DEF CallsStep
<1>4. CASE \E a \in Actors : CalleeStep(a)
  BY <1>4, CheckDPermissionDeniesTypeInv, ConnectAbilityFromRemoteFindsTypeInv,
     AmsConnectAbilityTypeInv, AmsRefusesTypeInv, ConnectAbilityFromRemoteRecordsTypeInv,
     DisconnectAbilityFromRemoteTypeInv, AmsDisconnectAbilityTypeInv,
     NotifyProcessDiedFromRemoteTypeInv DEF CalleeStep
<1>5. CASE \E a \in Actors : RemoteCallFails(a)
  BY <1>5, RemoteCallFailsTypeInv
<1>6. CASE HandlerStep
  BY <1>6, ProcessDeviceOfflineTypeInv, ProcessConnectDiedTypeInv DEF HandlerStep
<1>7. CASE \E p \in Processes : ProcessDies(p)
  BY <1>7, ProcessDiesTypeInv
<1>8. CASE \E c \in Connects : OnRemoteDied(c)
  BY <1>8, OnRemoteDiedTypeInv
<1>9. CASE \E d \in Devices :
             RemoteProcessDeviceOffline(d) \/ DeviceOffline(d) \/ DeviceOnline(d)
  BY <1>9, RemoteProcessDeviceOfflineTypeInv, DeviceOfflineTypeInv, DeviceOnlineTypeInv
<1>10. CASE UNCHANGED vars
  BY <1>10, CallerKept, CalleeKept, WorldKept, NoCallChanges DEF vars, TypeInv, TypeOK
<1> QED
  BY <1>1, <1>2, <1>3, <1>4, <1>5, <1>6, <1>7, <1>8, <1>9, <1>10 DEF Next

(* The maps of both services, the task queue and the calls under way always hold *)
(* values of their types: in particular a counter of trackingUidMap_ is never    *)
(* negative and a handler never acts for a connect or device it does not have.   *)
THEOREM TypeCorrect == Spec => []TypeOK
<1>1. TypeInv => TypeOK
  BY DEF TypeInv
<1> QED
  BY <1>1, InitTypeInv, NextTypeInv, PTL DEF Spec

-----------------------------------------------------------------------------
(* The counter per uid. *)

(* What a step may do to the caller's tables: three of the variables move only  *)
(* together, in one of the critical sections under distributedLock_.            *)
tables == <<distributedConnectAbilityMap, trackingUidMap, callerReports>>

LEMMA TableSteps ==
  ASSUME [Next]_vars
  PROVE  \/ UNCHANGED tables
         \/ \E t \in Threads : ConnectSucceeds(t)
         \/ \E t \in Threads, c \in Connects : DisconnectRemoteAbility(t, c)
         \/ \E d \in Devices : ProcessDeviceOffline(d)
         \/ \E c \in Connects : ProcessConnectDied(c)
<1> USE DEF tables, callerVars
<1>1. CASE \E t \in Threads, c \in Connects, d \in Devices : ConnectRemoteAbility(t, c, d)
  BY <1>1 DEF ConnectRemoteAbility
<1>2. CASE \E t \in Threads : ConnectStep(t)
  BY <1>2 DEF ConnectStep, SendConnect, SendConnectFails, ConnectRefused, ConnectGivesUp
<1>3. CASE \E a \in Actors : CallsStep(a)
  BY <1>3 DEF CallsStep, CallNextDevice, SkipOfflineDevice, CallReturns, CallsDone
<1>4. CASE \E a \in Actors : CalleeStep(a)
  BY <1>4 DEF CalleeStep, CheckDPermissionDenies, ConnectAbilityFromRemoteFinds,
     AmsConnectAbility, AmsRefuses, ConnectAbilityFromRemoteRecords,
     DisconnectAbilityFromRemote, AmsDisconnectAbility, NotifyProcessDiedFromRemote
<1>5. CASE \E a \in Actors : RemoteCallFails(a)
  BY <1>5 DEF RemoteCallFails
<1>6. CASE \E p \in Processes : ProcessDies(p)
  BY <1>6 DEF ProcessDies
<1>7. CASE \E c \in Connects : OnRemoteDied(c)
  BY <1>7 DEF OnRemoteDied
<1>8. CASE \E d \in Devices :
             RemoteProcessDeviceOffline(d) \/ DeviceOffline(d) \/ DeviceOnline(d)
  BY <1>8 DEF RemoteProcessDeviceOffline, DeviceOffline, DeviceOnline
<1>9. CASE UNCHANGED vars
  BY <1>9 DEF vars
<1> QED
  BY <1>1, <1>2, <1>3, <1>4, <1>5, <1>6, <1>7, <1>8, <1>9 DEF Next, HandlerStep

(* Erasing registered connects takes their number off the counter of their uid. *)
LEMMA EraseCounts ==
  ASSUME NEW C \in SUBSET Connects, NEW D \in SUBSET C, NEW u \in Uids
  PROVE  /\ Cardinality(OfUid(C \ D, u)) = Cardinality(OfUid(C, u)) - Cardinality(OfUid(D, u))
         /\ DecreaseConnectLocked(Cardinality(OfUid(C, u)), Cardinality(OfUid(D, u)))
               = Cardinality(OfUid(C \ D, u))
<1>1. /\ OfUid(C \ D, u) = OfUid(C, u) \ OfUid(D, u)
      /\ OfUid(C, u) \cap OfUid(D, u) = OfUid(D, u)
  BY DEF OfUid
<1>2. OfUid(C, u) \in SUBSET Connects /\ OfUid(D, u) \in SUBSET Connects
      /\ OfUid(C \ D, u) \in SUBSET Connects
  BY DEF OfUid
<1>3. /\ IsFiniteSet(OfUid(C, u)) /\ Cardinality(OfUid(C, u)) \in Nat
      /\ Cardinality(OfUid(D, u)) \in Nat /\ Cardinality(OfUid(C \ D, u)) \in Nat
  BY <1>2, FiniteConnects
<1>4. Cardinality(OfUid(C, u) \ OfUid(D, u))
        = Cardinality(OfUid(C, u)) - Cardinality(OfUid(C, u) \cap OfUid(D, u))
  BY <1>3, FS_Difference
<1>5. Cardinality(OfUid(C \ D, u)) = Cardinality(OfUid(C, u)) - Cardinality(OfUid(D, u))
  BY <1>1, <1>4
<1> QED
  BY <1>3, <1>5 DEF DecreaseConnectLocked

(* A connect that was not registered adds one to the number of its uid. *)
LEMMA AddCounts ==
  ASSUME NEW C \in SUBSET Connects, NEW c \in Connects, c \notin C, NEW u \in Uids
  PROVE  Cardinality(OfUid(C \cup {c}, u))
           = Cardinality(OfUid(C, u)) + IF u = Uid(c) THEN 1 ELSE 0
<1>1. IsFiniteSet(OfUid(C, u)) /\ Cardinality(OfUid(C, u)) \in Nat
  BY FiniteConnects DEF OfUid
<1>2. CASE u = Uid(c)
  <2>1. OfUid(C \cup {c}, u) = OfUid(C, u) \cup {c} /\ c \notin OfUid(C, u)
    BY <1>2 DEF OfUid
  <2> QED
    BY <1>1, <1>2, <2>1, FS_AddElement
<1>3. CASE u # Uid(c)
  <2>1. OfUid(C \cup {c}, u) = OfUid(C, u)
    BY <1>3 DEF OfUid
  <2> QED
    BY <1>1, <1>3, <2>1
<1> QED
  BY <1>2, <1>3

(* Counter, reports and map agree, and go on to do so when connects are erased ... *)
CounterInv == CounterAgrees /\ CallerReportsAgree

LEMMA EraseCounterInv ==
  ASSUME CounterInv, NEW D \in SUBSET Registered, EraseConnects(D), Registered' = Registered \ D
  PROVE  CounterInv'
<1> SUFFICES ASSUME NEW u \in Uids
             PROVE  trackingUidMap'[u] = Cardinality(OfUid(Registered', u))
                    /\ callerReports'[u] = trackingUidMap'[u]
  BY DEF CounterInv, CounterAgrees, CallerReportsAgree, OfUid, Uid
<1>1. Registered \in SUBSET Connects
  BY DEF Registered
<1>2. trackingUidMap[u] = Cardinality(OfUid(Registered, u)) /\ callerReports[u] = trackingUidMap[u]
  BY DEF CounterInv, CounterAgrees, CallerReportsAgree
<1>3. /\ trackingUidMap'[u] =
            DecreaseConnectLocked(trackingUidMap[u], Cardinality(OfUid(D, u)))
      /\ callerReports'[u] = callerReports[u] - Cardinality(OfUid(D, u))
  BY DEF EraseConnects
<1> QED
  BY <1>1, <1>2, <1>3, EraseCounts

(* ... and when one is added. *)
LEMMA MappingCounterInv ==
  ASSUME TypeInv, CounterInv, NEW c \in Connects, NEW d \in Devices,
         RemoteConnectAbilityMappingLocked(c, d)
  PROVE  CounterInv'
<1> SUFFICES ASSUME NEW u \in Uids
             PROVE  trackingUidMap'[u] = Cardinality(OfUid(Registered', u))
                    /\ callerReports'[u] = trackingUidMap'[u]
  BY DEF CounterInv, CounterAgrees, CallerReportsAgree, OfUid, Uid
<1>1. trackingUidMap[u] = Cardinality(OfUid(Registered, u)) /\ callerReports[u] = trackingUidMap[u]
  BY DEF CounterInv, CounterAgrees, CallerReportsAgree
<1>2. Registered' = Registered \cup {c}
  BY DEF RemoteConnectAbilityMappingLocked, Registered, TypeInv, TypeOK, CallerTypes
<1>3. Registered \in SUBSET Connects /\ Uid(c) \in Uids
  BY UidType DEF Registered
<1>4. CASE distributedConnectAbilityMap[c] = {}
  <2>1. c \notin Registered
    BY <1>4 DEF Registered
  <2>2. Cardinality(OfUid(Registered', u))
          = Cardinality(OfUid(Registered, u)) + IF u = Uid(c) THEN 1 ELSE 0
    BY <1>2, <1>3, <2>1, AddCounts
  <2>3. /\ trackingUidMap'[u] = trackingUidMap[u] + IF u = Uid(c) THEN 1 ELSE 0
        /\ callerReports'[u] = callerReports[u] + IF u = Uid(c) THEN 1 ELSE 0
    <3>1. trackingUidMap[u] \in Nat /\ callerReports[u] \in Int
      BY DEF TypeInv, TypeOK, CallerTypes
    <3> QED
      BY <3>1, <1>3, <1>4 DEF RemoteConnectAbilityMappingLocked, TypeInv, TypeOK, CallerTypes
  <2> QED
    BY <1>1, <2>2, <2>3
<1>5. CASE distributedConnectAbilityMap[c] # {}
  <2>1. Registered' = Registered
    BY <1>2, <1>5 DEF Registered
  <2> QED
    BY <1>1, <1>5, <2>1 DEF RemoteConnectAbilityMappingLocked
<1> QED
  BY <1>4, <1>5

(* Each of the three erasing steps takes the connects it erases out of the map. *)
LEMMA DisconnectErases ==
  ASSUME TypeInv, NEW t \in Threads, NEW c \in Connects, DisconnectRemoteAbility(t, c)
  PROVE  \E D \in SUBSET Registered : EraseConnects(D) /\ Registered' = Registered \ D
<1>1. {c} \in SUBSET Registered /\ EraseConnects({c})
  BY DEF DisconnectRemoteAbility
<1>2. Registered' = Registered \ {c}
  BY DEF DisconnectRemoteAbility, Registered, TypeInv, TypeOK, CallerTypes
<1> QED
  BY <1>1, <1>2

LEMMA OfflineErases ==
  ASSUME TypeInv, NEW d \in Devices, ProcessDeviceOffline(d)
  PROVE  \E D \in SUBSET Registered : EraseConnects(D) /\ Registered' = Registered \ D
<1> DEFINE D == {c \in ConnectedTo(d) : distributedConnectAbilityMap[c] = {d}}
<1>1. D \in SUBSET Registered /\ EraseConnects(D)
  BY DEF ProcessDeviceOffline, ConnectedTo, Registered
<1>2. Registered' = Registered \ D
  BY DEF ProcessDeviceOffline, ConnectedTo, Registered, TypeInv, TypeOK, CallerTypes
<1> QED
  BY <1>1, <1>2

LEMMA DeathErases ==
  ASSUME TypeInv, NEW c \in Connects, ProcessConnectDied(c), c \in Registered
  PROVE  \E D \in SUBSET Registered : EraseConnects(D) /\ Registered' = Registered \ D
<1> DEFINE D == SameCaller(c) \cap Registered
<1>1. D \in SUBSET Registered /\ EraseConnects(D)
  BY DEF ProcessConnectDied
<1>2. distributedConnectAbilityMap' = [x \in Connects |->
         IF x \in D THEN {} ELSE distributedConnectAbilityMap[x]]
  BY DEF ProcessConnectDied
<1> HIDE DEF D
<1>3. Registered' = Registered \ D
  BY <1>2 DEF Registered
<1> QED
  BY <1>1, <1>3

LEMMA NextCounterInv == TypeInv /\ CounterInv /\ [Next]_vars => CounterInv'
<1> SUFFICES ASSUME TypeInv, CounterInv, [Next]_vars PROVE CounterInv'
  OBVIOUS
<1>1. CASE UNCHANGED tables
  BY <1>1 DEF tables, CounterInv, CounterAgrees, CallerReportsAgree, Registered
<1>2. ASSUME NEW t \in Threads, ConnectSucceeds(t) PROVE CounterInv'
  <2>1. job[t].c \in Connects /\ job[t].d \in Devices
    BY <1>2, JobFacts DEF ConnectSucceeds, Actors
  <2> QED
    BY <1>2, <2>1, MappingCounterInv DEF ConnectSucceeds
<1>3. ASSUME NEW t \in Threads, NEW c \in Connects, DisconnectRemoteAbility(t, c)
      PROVE  CounterInv'
  BY <1>3, DisconnectErases, EraseCounterInv
<1>4. ASSUME NEW d \in Devices, ProcessDeviceOffline(d) PROVE CounterInv'
  BY <1>4, OfflineErases, EraseCounterInv
<1>5. ASSUME NEW c \in Connects, ProcessConnectDied(c) PROVE CounterInv'
  <2>1. CASE c \in Registered
    BY <1>5, <2>1, DeathErases, EraseCounterInv
  <2>2. CASE c \notin Registered
    BY <1>5, <2>2, <1>1 DEF ProcessConnectDied, tables, callerVars
  <2> QED
    BY <2>1, <2>2
<1> QED
  BY <1>1, <1>2, <1>3, <1>4, <1>5, TableSteps

LEMMA InitCounterInv == Init => CounterInv
<1> SUFFICES ASSUME Init PROVE CounterInv
  OBVIOUS
<1>1. \A u \in Uids : OfUid(Registered, u) = {}
  BY DEF Init, Registered, OfUid
<1> QED
  BY <1>1, FS_EmptySet DEF Init, CounterInv, CounterAgrees, CallerReportsAgree

(* trackingUidMap_ counts exactly the connects of distributedConnectAbilityMap_ of *)
(* each uid, however connecting, disconnecting, loss of a device and death of a    *)
(* process interleave.                                                             *)
THEOREM CounterCorrect == Spec => []CounterAgrees
<1>1. CounterInv => CounterAgrees
  BY DEF CounterInv
<1> QED
  BY <1>1, InitTypeInv, NextTypeInv, InitCounterInv, NextCounterInv, PTL DEF Spec

(* The additions and removals that ReportDistributedComponentChange sends for a    *)
(* uid balance to the value of its counter.                                        *)
THEOREM CallerReportsCorrect == Spec => []CallerReportsAgree
<1>1. CounterInv => CallerReportsAgree
  BY DEF CounterInv
<1> QED
  BY <1>1, InitTypeInv, NextTypeInv, InitCounterInv, NextCounterInv, PTL DEF Spec

-----------------------------------------------------------------------------
(* The limit. *)

(* The threads that passed CheckDistributedConnectLocked for a uid and have not *)
(* recorded their connect yet: what the limit can be overshot by.               *)
InFlight(u) == {t \in Threads : act[t].op = "connect" /\ Uid(act[t].c) = u}
LimitInv ==
    \A u \in Uids :
        trackingUidMap[u] + Cardinality(InFlight(u)) <= MaxConnect + Cardinality(Threads) - 1

LEMMA FiniteThreads ==
  \A T \in SUBSET Threads : /\ IsFiniteSet(T) /\ Cardinality(T) \in Nat
                            /\ Cardinality(T) <= Cardinality(Threads)
  BY ConnectAssumption, FS_Subset, FS_CardinalityType

(* Unless it begins a connect, no step puts a thread in flight. *)
LEMMA InFlightShrinks ==
  ASSUME CallTypes, NEW a \in Actors, NEW x,
         act' = [act EXCEPT ![a] = x],
         x.op # "connect" \/ (x.op = act[a].op /\ x.c = act[a].c)
  PROVE  \A u \in Uids : InFlight(u)' \subseteq InFlight(u)
<1>1. \A t \in Threads : act'[t] = act[t] \/ (t = a /\ act'[t] = x)
  BY DEF CallTypes, Actors
<1> QED
  BY <1>1 DEF InFlight, Uid

LEMMA InFlightSteps ==
  ASSUME TypeInv, [Next]_vars
  PROVE  \/ \E t \in Threads, c \in Connects, d \in Devices : ConnectRemoteAbility(t, c, d)
         \/ \A u \in Uids : InFlight(u)' \subseteq InFlight(u)
<1> DEFINE Shrinks == \A u \in Uids : InFlight(u)' \subseteq InFlight(u)
<1>0. CallTypes /\ (act' = act => Shrinks) /\ Idle.op = "idle" /\ \A t \in Threads : t \in Actors
  BY DEF InFlight, Uid, TypeInv, TypeOK, Idle, Actors
<1>1. ASSUME NEW t \in Threads, NEW c \in Connects, DisconnectRemoteAbility(t, c) PROVE Shrinks
  BY <1>0, <1>1, InFlightShrinks DEF DisconnectRemoteAbility
<1>2. ASSUME NEW t \in Threads, ConnectStep(t) PROVE Shrinks
  <2>1. act[t] \in Activity
    BY <1>0 DEF CallTypes
  <2>2. CASE SendConnect(t) \/ SendConnectFails(t)
    <3> DEFINE x == [act[t] EXCEPT !.tries = @ - 1]
    <3>1. x.op = act[t].op /\ x.c = act[t].c
      BY <2>1 DEF Activity
    <3>2. act' = [act EXCEPT ![t] = x]
      BY <2>2 DEF SendConnect, SendConnectFails
    <3> HIDE DEF x
    <3> QED
      BY <1>0, <3>1, <3>2, InFlightShrinks
  <2>3. CASE ConnectSucceeds(t)
    BY <1>0, <2>3, InFlightShrinks DEF ConnectSucceeds
  <2>4. CASE ConnectGivesUp(t)
    BY <1>0, <2>4, InFlightShrinks DEF ConnectGivesUp
  <2>5. CASE ConnectRefused(t)
    BY <1>0, <2>5 DEF ConnectRefused
  <2> QED
    BY <1>2, <2>2, <2>3, <2>4, <2>5 DEF ConnectStep
<1>3. ASSUME NEW a \in Actors, CallsStep(a) PROVE Shrinks
  <2>1. act[a] \in Activity
    BY <1>0 DEF CallTypes
  <2>2. CASE CallNextDevice(a)
    BY <1>0, <2>2 DEF CallNextDevice
  <2>3. CASE SkipOfflineDevice(a) \/ CallReturns(a)
    <3>1. PICK d : act' = [act EXCEPT ![a] = [act[a] EXCEPT !.todo = @ \ {d}]]
      BY <2>3 DEF SkipOfflineDevice, CallReturns
    <3> DEFINE x == [act[a] EXCEPT !.todo = @ \ {d}]
    <3>2. x.op = act[a].op /\ x.c = act[a].c
      BY <2>1 DEF Activity
    <3> HIDE DEF x
    <3> QED
      BY <1>0, <3>1, <3>2, InFlightShrinks DEF x
  <2>4. CASE CallsDone(a)
    BY <1>0, <2>4, InFlightShrinks DEF CallsDone
  <2> QED
    BY <1>3, <2>2, <2>3, <2>4 DEF CallsStep
<1>4. ASSUME NEW a \in Actors, CalleeStep(a) PROVE Shrinks
  BY <1>0, <1>4 DEF CalleeStep, CheckDPermissionDenies, ConnectAbilityFromRemoteFinds,
     AmsConnectAbility, AmsRefuses, ConnectAbilityFromRemoteRecords,
     DisconnectAbilityFromRemote, AmsDisconnectAbility, NotifyProcessDiedFromRemote
<1>5. ASSUME NEW a \in Actors, RemoteCallFails(a) PROVE Shrinks
  <2> DEFINE x == AfterFailure(a)
             shorter == [act[a] EXCEPT !.todo = @ \ {job[a].d}]
  <2>1. shorter.op = act[a].op /\ shorter.c = act[a].c
    BY <1>0 DEF CallTypes, Activity
  <2>2. x.op # "connect" \/ (x.op = act[a].op /\ x.c = act[a].c)
    BY <1>0, <2>1 DEF AfterFailure
  <2>3. act' = [act EXCEPT ![a] = x]
    BY <1>5 DEF RemoteCallFails
  <2> HIDE DEF x
  <2> QED
    BY <1>0, <2>2, <2>3, InFlightShrinks
<1>6. ASSUME NEW c \in Connects, ProcessConnectDied(c) PROVE Shrinks
  <2> DEFINE x == [op |-> "notify", c |-> c, tries |-> 0,
                   todo |-> DevicesToTell(c, SameCaller(c) \cap Registered)]
  <2>1. act' = act \/ act' = [act EXCEPT ![Handler] = x]
    BY <1>6 DEF ProcessConnectDied, callerVars
  <2>2. Handler \in Actors /\ x.op = "notify"
    BY DEF Actors
  <2> HIDE DEF x
  <2> QED
    BY <1>0, <2>1, <2>2, InFlightShrinks
<1>7. ASSUME NEW d \in Devices, ProcessDeviceOffline(d) PROVE Shrinks
  BY <1>0, <1>7 DEF ProcessDeviceOffline
<1>8. ASSUME \/ \E p \in Processes : ProcessDies(p)
             \/ \E c \in Connects : OnRemoteDied(c)
             \/ \E d \in Devices :
                   RemoteProcessDeviceOffline(d) \/ DeviceOffline(d) \/ DeviceOnline(d)
             \/ UNCHANGED vars
      PROVE Shrinks
  BY <1>0, <1>8 DEF ProcessDies, OnRemoteDied, RemoteProcessDeviceOffline, DeviceOffline,
     DeviceOnline, vars
<1> HIDE DEF Shrinks
<1>9. \/ \E t \in Threads, c \in Connects, d \in Devices : ConnectRemoteAbility(t, c, d)
      \/ Shrinks
  BY <1>1, <1>2, <1>3, <1>4, <1>5, <1>6, <1>7, <1>8 DEF Next, HandlerStep
<1> QED
  BY <1>9 DEF Shrinks

LEMMA NextLimitInv == TypeInv /\ CounterInv /\ LimitInv /\ [Next]_vars => LimitInv'
<1> SUFFICES ASSUME TypeInv, CounterInv, LimitInv, [Next]_vars, NEW u \in Uids
             PROVE  trackingUidMap'[u] + Cardinality(InFlight(u)')
                      <= MaxConnect + Cardinality(Threads) - 1
  BY DEF LimitInv, InFlight, Uid
<1>1. /\ trackingUidMap[u] \in Nat /\ trackingUidMap'[u] \in Nat
      /\ Cardinality(InFlight(u)) \in Nat /\ Cardinality(InFlight(u)') \in Nat
      /\ Cardinality(InFlight(u)') <= Cardinality(Threads)
      /\ Cardinality(Threads) \in Nat /\ MaxConnect \in Nat
  <2>1. InFlight(u) \in SUBSET Threads /\ InFlight(u)' \in SUBSET Threads
    BY DEF InFlight
  <2>2. TypeInv'
    BY NextTypeInv
  <2> QED
    BY <2>1, <2>2, FiniteThreads, ConnectAssumption DEF TypeInv, TypeOK, CallerTypes
<1>2. trackingUidMap[u] + Cardinality(InFlight(u)) <= MaxConnect + Cardinality(Threads) - 1
  BY DEF LimitInv
<1>3. ASSUME NEW t \in Threads, NEW c \in Connects, NEW d \in Devices,
             ConnectRemoteAbility(t, c, d)
      PROVE  trackingUidMap'[u] + Cardinality(InFlight(u)')
               <= MaxConnect + Cardinality(Threads) - 1
  <2>1. trackingUidMap' = trackingUidMap
    BY <1>3 DEF ConnectRemoteAbility, callerVars
  <2>2. CASE u = Uid(c)
    <3>1. trackingUidMap[u] < MaxConnect
      BY <1>3, <2>2 DEF ConnectRemoteAbility, CheckDistributedConnectLocked
    <3> QED
      BY <1>1, <2>1, <3>1
  <2>3. CASE u # Uid(c)
    <3>1. act' = [act EXCEPT ![t] =
                    [op |-> "connect", c |-> c, todo |-> {d}, tries |-> RetryTimes]]
      BY <1>3 DEF ConnectRemoteAbility
    <3>2. \A s \in Threads : act'[s] = act[s] \/ (s = t /\ act'[s].c = c)
      BY <3>1 DEF TypeInv, TypeOK, CallTypes, Actors
    <3>3. InFlight(u)' \subseteq InFlight(u) /\ InFlight(u) \in SUBSET Threads
      BY <2>3, <3>2 DEF InFlight, Uid
    <3>4. Cardinality(InFlight(u)') <= Cardinality(InFlight(u))
      BY <3>3, FiniteThreads, FS_Subset
    <3> QED
      BY <1>1, <1>2, <2>1, <3>4
  <2> QED
    BY <2>2, <2>3
<1>4. ASSUME InFlight(u)' \subseteq InFlight(u), trackingUidMap'[u] <= trackingUidMap[u]
      PROVE  trackingUidMap'[u] + Cardinality(InFlight(u)')
               <= MaxConnect + Cardinality(Threads) - 1
  <2>1. InFlight(u) \in SUBSET Threads
    BY DEF InFlight
  <2>2. Cardinality(InFlight(u)') <= Cardinality(InFlight(u))
    BY <1>4, <2>1, FiniteThreads, FS_Subset
  <2> QED
    BY <1>1, <1>2, <1>4, <2>2
<1>5. ASSUME NEW t \in Threads, ConnectSucceeds(t)
      PROVE  trackingUidMap'[u] + Cardinality(InFlight(u)')
               <= MaxConnect + Cardinality(Threads) - 1
  <2> DEFINE c == act[t].c
             d == job[t].d
  <2>1. c \in Connects /\ c = job[t].c /\ t \in Actors
    BY <1>5, JobFacts DEF ConnectSucceeds, TypeInv, CallsOK, CallOK, Actors
  <2>2. act' = [act EXCEPT ![t] = Idle] /\ act[t].op = "connect"
    BY <1>5 DEF ConnectSucceeds
  <2>3. InFlight(u)' = InFlight(u) \ {t}
    <3>1. \A s \in Threads : IF s = t THEN act'[s] = Idle ELSE act'[s] = act[s]
      BY <2>2 DEF TypeInv, TypeOK, CallTypes, Actors
    <3> QED
      BY <3>1 DEF InFlight, Uid, Idle
  <2>4. \/ trackingUidMap'[u] = trackingUidMap[u]
        \/ u = Uid(c) /\ trackingUidMap'[u] = trackingUidMap[u] + 1
    BY <1>5, <2>1, UidType
    DEF ConnectSucceeds, RemoteConnectAbilityMappingLocked, TypeInv, TypeOK, CallerTypes
  <2>5. CASE trackingUidMap'[u] = trackingUidMap[u]
    BY <1>1, <1>4, <2>3, <2>5
  <2>6. CASE u = Uid(c) /\ trackingUidMap'[u] = trackingUidMap[u] + 1
    <3>1. t \in InFlight(u) /\ IsFiniteSet(InFlight(u))
      BY <2>2, <2>6, FiniteThreads DEF InFlight
    <3>2. Cardinality(InFlight(u)') = Cardinality(InFlight(u)) - 1
      BY <2>3, <3>1, FS_RemoveElement
    <3> QED
      BY <1>1, <1>2, <2>6, <3>2
  <2> QED
    BY <2>4, <2>5, <2>6
<1>6. ASSUME NEW D \in SUBSET Registered, EraseConnects(D)
      PROVE  trackingUidMap'[u] <= trackingUidMap[u]
  <2>1. Cardinality(OfUid(D, u)) \in Nat
    BY FiniteConnects DEF OfUid, Registered
  <2> QED
    BY <1>1, <1>6, <2>1 DEF EraseConnects, DecreaseConnectLocked
<1>7. CASE \A v \in Uids : InFlight(v)' \subseteq InFlight(v)
  <2>1. ASSUME NEW t \in Threads, NEW c \in Connects, DisconnectRemoteAbility(t, c)
        PROVE  trackingUidMap'[u] <= trackingUidMap[u]
    BY <1>6, <2>1, DisconnectErases
  <2>2. ASSUME NEW d \in Devices, ProcessDeviceOffline(d)
        PROVE  trackingUidMap'[u] <= trackingUidMap[u]
    BY <1>6, <2>2, OfflineErases
  <2>3. ASSUME NEW c \in Connects, ProcessConnectDied(c)
        PROVE  trackingUidMap'[u] <= trackingUidMap[u]
    <3>1. CASE c \in Registered
      BY <1>6, <2>3, <3>1, DeathErases
    <3>2. CASE c \notin Registered
      BY <1>1, <2>3, <3>2 DEF ProcessConnectDied, callerVars
    <3> QED
      BY <3>1, <3>2
  <2>4. CASE UNCHANGED tables
    BY <1>1, <1>4, <1>7, <2>4 DEF tables
  <2> QED
    BY <1>4, <1>5, <1>7, <2>1, <2>2, <2>3, <2>4, TableSteps
<1> QED
  BY <1>3, <1>7, InFlightSteps

LEMMA InitLimitInv == Init => LimitInv
<1> SUFFICES ASSUME Init, NEW u \in Uids
             PROVE  trackingUidMap[u] + Cardinality(InFlight(u))
                      <= MaxConnect + Cardinality(Threads) - 1
  BY DEF LimitInv
<1>1. InFlight(u) = {} /\ trackingUidMap[u] = 0
  BY DEF Init, InFlight, Idle, Actors
<1> QED
  BY <1>1, FS_EmptySet, FiniteThreads, ConnectAssumption

(* The check and the count of a connect are two critical sections, so the limit *)
(* MAX_DISTRIBUTED_CONNECT_NUM can be overshot, but only by the IPC threads that *)
(* pass the check together.                                                      *)
THEOREM LimitCorrect == Spec => []LimitOvershoot
<1>1. TypeInv /\ LimitInv => LimitOvershoot
  <2> SUFFICES ASSUME TypeInv, LimitInv, NEW u \in Uids
               PROVE  trackingUidMap[u] <= MaxConnect + Cardinality(Threads) - 1
    BY DEF LimitOvershoot
  <2>1. Cardinality(InFlight(u)) \in Nat /\ Cardinality(Threads) \in Nat
    BY FiniteThreads DEF InFlight
  <2> QED
    BY <2>1, ConnectAssumption DEF LimitInv, TypeInv, TypeOK, CallerTypes
<1> QED
  BY <1>1, InitTypeInv, NextTypeInv, InitCounterInv, NextCounterInv, InitLimitInv,
     NextLimitInv, PTL DEF Spec

-----------------------------------------------------------------------------
(* The queue of dmsAdapterHandler. *)

Queued(queue, task) == \E i \in 1..Len(queue) : queue[i] = task

(* Posting a task, running another one and removing another one keep a task queued. *)
LEMMA AppendQueued ==
  ASSUME NEW queue \in Seq(Tasks), NEW x \in Tasks
  PROVE  /\ Queued(Append(queue, x), x)
         /\ \A task : Queued(queue, task) => Queued(Append(queue, x), task)
<1>1. PICK n \in Nat : n = Len(queue)
  BY LenProperties
<1>2. /\ Len(Append(queue, x)) = n + 1
      /\ \A i \in 1..n : Append(queue, x)[i] = queue[i]
      /\ Append(queue, x)[n + 1] = x
  BY <1>1, AppendProperties
<1>3. n + 1 \in 1..(n + 1) /\ \A i \in 1..n : i \in 1..(n + 1)
  OBVIOUS
<1> QED
  BY <1>1, <1>2, <1>3 DEF Queued

LEMMA TailQueued ==
  ASSUME NEW queue \in Seq(Tasks), queue # << >>, NEW task, Queued(queue, task), task # Head(queue)
  PROVE  Queued(Tail(queue), task)
<1>1. PICK n \in Nat : n = Len(queue)
  BY LenProperties
<1>2. /\ Len(Tail(queue)) = n - 1
      /\ \A i \in 1..(n - 1) : Tail(queue)[i] = queue[i + 1]
  BY <1>1, HeadTailProperties
<1>3. PICK i \in 1..n : queue[i] = task
  BY <1>1 DEF Queued
<1>4. queue[1] = Head(queue)
  OBVIOUS
<1>5. i # 1
  BY <1>3, <1>4
<1>6. i - 1 \in 1..(n - 1) /\ (i - 1) + 1 = i
  BY <1>5
<1> QED
  BY <1>2, <1>3, <1>6 DEF Queued

LEMMA RemoveQueued ==
  ASSUME NEW queue \in Seq(Tasks), NEW x, NEW task, Queued(queue, task), task # x
  PROVE  Queued(RemoveTask(queue, x), task)
<1>1. CASE \E i \in 1..Len(queue) : queue[i] = x
  <2>1. PICK k : k = CHOOSE i \in 1..Len(queue) : queue[i] = x
    OBVIOUS
  <2>2. PICK n \in Nat : n = Len(queue)
    BY LenProperties
  <2>3. k \in 1..n /\ queue[k] = x
    BY <1>1, <2>1, <2>2
  <2>4. PICK front, back : front = SubSeq(queue, 1, k - 1) /\ back = SubSeq(queue, k + 1, n)
    OBVIOUS
  <2>5. RemoveTask(queue, x) = front \o back
    BY <1>1, <2>1, <2>2, <2>4 DEF RemoveTask
  <2>6. \A i \in 1..n : queue[i] \in Tasks
    BY <2>2, LenProperties
  <2>7. /\ front \in Seq(Tasks) /\ Len(front) = k - 1
        /\ \A i \in 1..(k - 1) : front[i] = queue[i]
    <3>1. \A i \in 1..(k - 1) : queue[i] \in Tasks
      BY <2>3, <2>6
    <3>2. k - 1 \in Int /\ (k - 1) - 1 + 1 = k - 1 /\ (IF 1 <= k - 1 THEN k - 1 - 1 + 1 ELSE 0) = k - 1
      BY <2>3
    <3>3. /\ SubSeq(queue, 1, k - 1) \in Seq(Tasks)
          /\ Len(SubSeq(queue, 1, k - 1)) = IF 1 <= k - 1 THEN k - 1 - 1 + 1 ELSE 0
          /\ \A i \in 1..((k - 1) - 1 + 1) : SubSeq(queue, 1, k - 1)[i] = queue[1 + i - 1]
      BY <3>1, <3>2, SubSeqProperties
    <3>4. \A i \in 1..(k - 1) : i \in 1..((k - 1) - 1 + 1) /\ 1 + i - 1 = i
      BY <3>2
    <3> QED
      BY <2>4, <3>2, <3>3, <3>4
  <2>8. /\ back \in Seq(Tasks) /\ Len(back) = n - k
        /\ \A i \in 1..(n - k) : back[i] = queue[k + i]
    <3>1. \A i \in (k + 1)..n : queue[i] \in Tasks
      BY <2>3, <2>6
    <3>2. k + 1 \in Int /\ n \in Int /\ n - (k + 1) + 1 = n - k
          /\ (IF k + 1 <= n THEN n - (k + 1) + 1 ELSE 0) = n - k
      BY <2>3
    <3>3. /\ SubSeq(queue, k + 1, n) \in Seq(Tasks)
          /\ Len(SubSeq(queue, k + 1, n)) = IF k + 1 <= n THEN n - (k + 1) + 1 ELSE 0
          /\ \A i \in 1..(n - (k + 1) + 1) : SubSeq(queue, k + 1, n)[i] = queue[(k + 1) + i - 1]
      BY <3>1, <3>2, SubSeqProperties
    <3>4. \A i \in 1..(n - k) : i \in 1..(n - (k + 1) + 1) /\ (k + 1) + i - 1 = k + i
      BY <2>3
    <3>5. \A i \in 1..(n - k) : SubSeq(queue, k + 1, n)[i] = queue[k + i]
      BY <3>3, <3>4
    <3>6. Len(SubSeq(queue, k + 1, n)) = n - k
      BY <3>2, <3>3
    <3> QED
      BY <2>4, <3>3, <3>5, <3>6
  <2>9. /\ Len(front \o back) = (k - 1) + (n - k)
        /\ \A i \in 1..((k - 1) + (n - k)) :
              (front \o back)[i] = IF i <= k - 1 THEN front[i] ELSE back[i - (k - 1)]
    <3>1. front \in Seq(Tasks) /\ back \in Seq(Tasks) /\ Len(front) = k - 1 /\ Len(back) = n - k
      BY <2>7, <2>8
    <3>2. /\ Len(front \o back) = Len(front) + Len(back)
          /\ \A i \in 1..(Len(front) + Len(back)) :
                (front \o back)[i] = IF i <= Len(front) THEN front[i] ELSE back[i - Len(front)]
      BY <3>1, ConcatProperties
    <3> QED
      BY <3>1, <3>2
  <2>10. PICK i \in 1..n : queue[i] = task
    BY <2>2 DEF Queued
  <2>11. CASE i < k
    <3>1. i \in 1..(k - 1) /\ i \in 1..((k - 1) + (n - k)) /\ i <= k - 1
      BY <2>3, <2>11
    <3> QED
      BY <2>5, <2>7, <2>9, <2>10, <3>1 DEF Queued
  <2>12. CASE i > k
    <3>1. /\ i - 1 \in 1..((k - 1) + (n - k)) /\ ~(i - 1 <= k - 1)
          /\ (i - 1) - (k - 1) = i - k /\ i - k \in 1..(n - k) /\ k + (i - k) = i
      BY <2>3, <2>12
    <3>2. (front \o back)[i - 1] = queue[i]
      BY <2>8, <2>9, <3>1
    <3> QED
      BY <2>5, <2>9, <2>10, <3>1, <3>2 DEF Queued
  <2>13. i # k
    BY <2>3, <2>10
  <2> QED
    BY <2>3, <2>11, <2>12, <2>13
<1>2. CASE ~ \E i \in 1..Len(queue) : queue[i] = x
  BY <1>2 DEF RemoveTask
<1> QED
  BY <1>1, <1>2

-----------------------------------------------------------------------------
(* Every connect is watched. *)

watch == <<distributedConnectAbilityMap, deathRecipients, dmsAdapterHandler>>

LEMMA WatchSteps ==
  ASSUME [Next]_vars
  PROVE  \/ UNCHANGED watch
         \/ \E t \in Threads : ConnectSucceeds(t)
         \/ \E t \in Threads, c \in Connects : DisconnectRemoteAbility(t, c)
         \/ \E d \in Devices : ProcessDeviceOffline(d) \/ DeviceOffline(d) \/ DeviceOnline(d)
         \/ \E c \in Connects : ProcessConnectDied(c) \/ OnRemoteDied(c)
<1> USE DEF watch, callerVars
<1>1. CASE \E t \in Threads, c \in Connects, d \in Devices : ConnectRemoteAbility(t, c, d)
  BY <1>1 DEF ConnectRemoteAbility
<1>2. CASE \E t \in Threads : ConnectStep(t)
  BY <1>2 DEF ConnectStep, SendConnect, SendConnectFails, ConnectRefused, ConnectGivesUp
<1>3. CASE \E a \in Actors : CallsStep(a)
  BY <1>3 DEF CallsStep, CallNextDevice, SkipOfflineDevice, CallReturns, CallsDone
<1>4. CASE \E a \in Actors : CalleeStep(a)
  BY <1>4 DEF CalleeStep, CheckDPermissionDenies, ConnectAbilityFromRemoteFinds,
     AmsConnectAbility, AmsRefuses, ConnectAbilityFromRemoteRecords,
     DisconnectAbilityFromRemote, AmsDisconnectAbility, NotifyProcessDiedFromRemote
<1>5. CASE \E a \in Actors : RemoteCallFails(a)
  BY <1>5 DEF RemoteCallFails
<1>6. CASE \E p \in Processes : ProcessDies(p)
  BY <1>6 DEF ProcessDies
<1>7. CASE \E d \in Devices : RemoteProcessDeviceOffline(d)
  BY <1>7 DEF RemoteProcessDeviceOffline
<1>8. CASE UNCHANGED vars
  BY <1>8 DEF vars
<1> QED
  BY <1>1, <1>2, <1>3, <1>4, <1>5, <1>6, <1>7, <1>8 DEF Next, HandlerStep

(* A connect is watched, or its death is queued. *)
WatchedOrQueued(c) == c \in deathRecipients \/ Queued(dmsAdapterHandler, DiedTask(c))

LEMMA TaskKinds ==
  /\ \A c, d : DiedTask(c) # OfflineTask(d)
  /\ \A c, x : DiedTask(c) = DiedTask(x) => c = x
  /\ \A d, e : OfflineTask(d) = OfflineTask(e) => d = e
  /\ \A c \in Connects : DiedTask(c) \in Tasks
  /\ \A d \in Devices : OfflineTask(d) \in Tasks
<1>1. \A c, d : DiedTask(c).kind = "died" /\ DiedTask(c).of = c
                /\ OfflineTask(d).kind = "offline" /\ OfflineTask(d).of = d
  BY DEF DiedTask, OfflineTask
<1>2. /\ \A c \in Connects : DiedTask(c) \in Tasks
      /\ \A d \in Devices : OfflineTask(d) \in Tasks
  BY DEF DiedTask, OfflineTask, Tasks
<1>3. "died" # "offline"
  OBVIOUS
<1> HIDE DEF DiedTask, OfflineTask
<1>4. \A c, d : DiedTask(c) # OfflineTask(d)
  BY <1>1, <1>3
<1>5. \A c, x : DiedTask(c) = DiedTask(x) => c = x
  BY <1>1
<1>6. \A d, e : OfflineTask(d) = OfflineTask(e) => d = e
  BY <1>1
<1> QED
  BY <1>2, <1>4, <1>5, <1>6

LEMMA NextWatchInv == TypeInv /\ EveryConnectWatched /\ [Next]_vars => EveryConnectWatched'
<1> SUFFICES ASSUME TypeInv, EveryConnectWatched, [Next]_vars, NEW c \in Connects, c \in Registered'
             PROVE  WatchedOrQueued(c)'
  BY DEF EveryConnectWatched, WatchedOrQueued, Queued, Registered
<1>1. c \in Registered => WatchedOrQueued(c)
  BY DEF EveryConnectWatched, WatchedOrQueued, Queued
<1>2. dmsAdapterHandler \in Seq(Tasks)
  BY DEF TypeInv, TypeOK
<1>3. CASE UNCHANGED watch
  BY <1>1, <1>3 DEF watch, Registered, WatchedOrQueued
<1>4. ASSUME NEW t \in Threads, ConnectSucceeds(t) PROVE WatchedOrQueued(c)'
  <2>1. PICK x \in Connects, d \in Devices : RemoteConnectAbilityMappingLocked(x, d)
    BY <1>4, JobFacts DEF ConnectSucceeds, Actors
  <2>2. dmsAdapterHandler' = dmsAdapterHandler
    BY <1>4 DEF ConnectSucceeds
  <2>3. c \in Registered \/ c = x
    BY <2>1 DEF RemoteConnectAbilityMappingLocked, Registered, TypeInv, TypeOK, CallerTypes
  <2>4. CASE distributedConnectAbilityMap[x] = {}
    <3>1. deathRecipients' = deathRecipients \cup {x}
      BY <2>1, <2>4 DEF RemoteConnectAbilityMappingLocked
    <3> QED
      BY <1>1, <2>2, <2>3, <3>1 DEF WatchedOrQueued
  <2>5. CASE distributedConnectAbilityMap[x] # {}
    <3>1. deathRecipients' = deathRecipients /\ x \in Registered
      BY <2>1, <2>5 DEF RemoteConnectAbilityMappingLocked, Registered
    <3> QED
      BY <1>1, <2>2, <2>3, <3>1 DEF WatchedOrQueued
  <2> QED
    BY <2>4, <2>5
<1>5. ASSUME NEW D \in SUBSET Registered, EraseConnects(D), Registered' = Registered \ D
      PROVE  c \in Registered /\ c \notin D /\ (c \in deathRecipients => c \in deathRecipients')
  BY <1>5 DEF EraseConnects
<1>6. ASSUME NEW t \in Threads, NEW x \in Connects, DisconnectRemoteAbility(t, x)
      PROVE  WatchedOrQueued(c)'
  <2>1. c \in Registered /\ (c \in deathRecipients => c \in deathRecipients')
    BY <1>5, <1>6, DisconnectErases
  <2>2. dmsAdapterHandler' = dmsAdapterHandler
    BY <1>6 DEF DisconnectRemoteAbility
  <2> QED
    BY <1>1, <2>1, <2>2 DEF WatchedOrQueued
<1>7. ASSUME NEW d \in Devices, ProcessDeviceOffline(d) PROVE WatchedOrQueued(c)'
  <2>1. c \in Registered /\ (c \in deathRecipients => c \in deathRecipients')
    BY <1>5, <1>7, OfflineErases
  <2>2. /\ dmsAdapterHandler # << >> /\ Head(dmsAdapterHandler) = OfflineTask(d)
        /\ dmsAdapterHandler' = Tail(dmsAdapterHandler)
    BY <1>7 DEF ProcessDeviceOffline, NextTask
  <2>3. Queued(dmsAdapterHandler, DiedTask(c)) => Queued(dmsAdapterHandler', DiedTask(c))
    BY <1>2, <2>2, TailQueued, TaskKinds
  <2> QED
    BY <1>1, <2>1, <2>3 DEF WatchedOrQueued
<1>8. ASSUME NEW x \in Connects, ProcessConnectDied(x) PROVE WatchedOrQueued(c)'
  <2>1. /\ dmsAdapterHandler # << >> /\ Head(dmsAdapterHandler) = DiedTask(x)
        /\ dmsAdapterHandler' = Tail(dmsAdapterHandler)
    BY <1>8 DEF ProcessConnectDied, NextTask
  <2>2. c # x => (Queued(dmsAdapterHandler, DiedTask(c)) => Queued(dmsAdapterHandler', DiedTask(c)))
    BY <1>2, <2>1, TailQueued, TaskKinds
  <2>3. CASE x \in Registered
    <3>1. c \in Registered /\ (c \in deathRecipients => c \in deathRecipients')
      BY <1>5, <1>8, <2>3, DeathErases
    <3>2. x \notin Registered'
      BY <1>8, <2>3 DEF ProcessConnectDied, SameCaller, ConnectsOf, Registered
    <3> QED
      BY <1>1, <2>2, <3>1, <3>2 DEF WatchedOrQueued
  <2>4. CASE x \notin Registered
    <3>1. deathRecipients' = deathRecipients /\ distributedConnectAbilityMap' = distributedConnectAbilityMap
      BY <1>8, <2>4 DEF ProcessConnectDied, callerVars
    <3>2. c \in Registered /\ c # x
      BY <2>4, <3>1 DEF Registered
    <3> QED
      BY <1>1, <2>2, <3>1, <3>2 DEF WatchedOrQueued
  <2> QED
    BY <2>3, <2>4
<1>9. ASSUME NEW x \in Connects, OnRemoteDied(x) PROVE WatchedOrQueued(c)'
  <2>1. /\ dmsAdapterHandler' = Append(dmsAdapterHandler, DiedTask(x))
        /\ deathRecipients' = deathRecipients \ {x}
        /\ c \in Registered
    BY <1>9 DEF OnRemoteDied, Registered
  <2>2. /\ Queued(dmsAdapterHandler', DiedTask(x))
        /\ Queued(dmsAdapterHandler, DiedTask(c)) => Queued(dmsAdapterHandler', DiedTask(c))
    BY <1>2, <2>1, AppendQueued, TaskKinds
  <2> QED
    BY <1>1, <2>1, <2>2 DEF WatchedOrQueued
<1>10. ASSUME NEW d \in Devices, DeviceOffline(d) \/ DeviceOnline(d) PROVE WatchedOrQueued(c)'
  <2>1. /\ deathRecipients' = deathRecipients /\ c \in Registered
        /\ \/ dmsAdapterHandler' = Append(dmsAdapterHandler, OfflineTask(d))
           \/ dmsAdapterHandler' = RemoveTask(dmsAdapterHandler, OfflineTask(d))
    BY <1>10 DEF DeviceOffline, DeviceOnline, callerVars, Registered
  <2>2. Queued(dmsAdapterHandler, DiedTask(c)) => Queued(dmsAdapterHandler', DiedTask(c))
    <3>1. OfflineTask(d) \in Tasks /\ DiedTask(c) # OfflineTask(d)
      BY TaskKinds
    <3>2. CASE dmsAdapterHandler' = Append(dmsAdapterHandler, OfflineTask(d))
      BY <1>2, <3>1, <3>2, AppendQueued
    <3>3. CASE dmsAdapterHandler' = RemoveTask(dmsAdapterHandler, OfflineTask(d))
      BY <1>2, <3>1, <3>3, RemoveQueued
    <3> QED
      BY <2>1, <3>2, <3>3
  <2> QED
    BY <1>1, <2>1, <2>2 DEF WatchedOrQueued
<1> QED
  BY <1>3, <1>4, <1>6, <1>7, <1>8, <1>9, <1>10, WatchSteps

(* As long as a connect is in distributedConnectAbilityMap_, connectDeathRecipient_ *)
(* watches its callback or the death is posted to dmsAdapterHandler: no connect is  *)
(* recorded that the death of its process could not take away.                      *)
THEOREM WatchedCorrect == Spec => []EveryConnectWatched
<1>1. Init => EveryConnectWatched
  BY DEF Init, EveryConnectWatched, Registered
<1> QED
  BY <1>1, InitTypeInv, NextTypeInv, NextWatchInv, PTL DEF Spec

-----------------------------------------------------------------------------
(* What a step does to a call. *)

(* The call x, served by j, goes on as y, served by i: for the same connect and *)
(* the same device, and awaited no longer than it was.                          *)
GoesOn(x, j, y, i) ==
    /\ i.kind = j.kind /\ i.c = j.c /\ i.d = j.d
    /\ i.st \in {"found", "bound"} => j.st \in {"found", "bound"} \/ j.kind = "connect"
    /\ i.awaited => j.awaited
    /\ y.op = "connect" => x.op = "connect" \/ ~j.awaited
(* A request is sent to a device that is online. *)
Begins(y, i, up) ==
    /\ i.st = "arrived"
    /\ up[i.d]
    /\ y.op = "connect" => i.kind = "connect"
CallMoves(a) ==
    \/ GoesOn(act[a], job[a], act'[a], job'[a])
    \/ job'[a] = NoJob
    \/ Begins(act'[a], job'[a], online')

LEMMA OneCallMoves ==
  ASSUME TypeInv, NEW b \in Actors, NEW y, NEW i,
         act' = [act EXCEPT ![b] = y], job' = [job EXCEPT ![b] = i],
         GoesOn(act[b], job[b], y, i) \/ i = NoJob \/ Begins(y, i, online'),
         NEW a \in Actors
  PROVE  CallMoves(a)
<1>1. CASE a = b
  <2>1. act'[a] = y /\ job'[a] = i
    BY <1>1 DEF TypeInv, TypeOK, CallTypes
  <2> QED
    BY <1>1, <2>1 DEF CallMoves
<1>2. CASE a # b
  <2>1. act'[a] = act[a] /\ job'[a] = job[a]
    BY <1>2 DEF TypeInv, TypeOK, CallTypes
  <2> QED
    BY <2>1 DEF CallMoves, GoesOn
<1> QED
  BY <1>1, <1>2

LEMMA OneActivityMoves ==
  ASSUME TypeInv, NEW b \in Actors, NEW y, act' = [act EXCEPT ![b] = y], job' = job,
         y.op = "connect" => act[b].op = "connect" \/ ~job[b].awaited,
         NEW a \in Actors
  PROVE  CallMoves(a)
<1>1. job' = [job EXCEPT ![b] = job[b]]
  BY DEF TypeInv, TypeOK, CallTypes
<1>2. GoesOn(act[b], job[b], y, job[b])
  BY DEF GoesOn
<1> QED
  BY <1>1, <1>2, OneCallMoves

LEMMA OneJobMoves ==
  ASSUME TypeInv, NEW b \in Actors, NEW i, act' = act, job' = [job EXCEPT ![b] = i],
         GoesOn(act[b], job[b], act[b], i) \/ i = NoJob \/ Begins(act[b], i, online'),
         NEW a \in Actors
  PROVE  CallMoves(a)
<1>1. act' = [act EXCEPT ![b] = act[b]]
  BY DEF TypeInv, TypeOK, CallTypes
<1> QED
  BY <1>1, OneCallMoves

(* The handler of a call at a later point serves the same call. *)
LEMMA AtGoesOn ==
  ASSUME NEW a \in Actors, NEW st, NEW w, NEW seen, NEW ok,
         st \in {"found", "bound"} => job[a].st \in {"found", "bound"} \/ job[a].kind = "connect"
  PROVE  GoesOn(act[a], job[a], act[a], At(a, st, w, seen, ok))
<1> DEFINE i == At(a, st, w, seen, ok)
<1>1. i.kind = job[a].kind /\ i.c = job[a].c /\ i.d = job[a].d /\ i.st = st
      /\ i.awaited = job[a].awaited
  BY DEF At
<1> HIDE DEF i
<1> QED
  BY <1>1 DEF GoesOn, i

LEMMA DoneGoesOn ==
  ASSUME NEW a \in Actors, NEW ok
  PROVE  GoesOn(act[a], job[a], act[a], Done(a, ok)) \/ Done(a, ok) = NoJob
<1>1. GoesOn(act[a], job[a], act[a], At(a, "replied", 0, FALSE, ok))
  <2>1. "replied" \notin {"found", "bound"}
    OBVIOUS
  <2> QED
    BY <2>1, AtGoesOn
<1> QED
  BY <1>1 DEF Done

LEMMA CallSteps ==
  ASSUME TypeInv, [Next]_vars, NEW a \in Actors
  PROVE  CallMoves(a)
<1>0. \A b \in Actors : act[b] \in Activity /\ job[b] \in Job /\ CallOK(act[b], job[b])
  BY DEF TypeInv, TypeOK, CallTypes, CallsOK
<1>1. \A t \in Threads : t \in Actors
  BY DEF Actors
<1>2. Idle.op = "idle"
  BY DEF Idle
<1>3. act' = act /\ job' = job => CallMoves(a)
  BY DEF CallMoves, GoesOn
<1>4. ASSUME NEW t \in Threads, NEW c \in Connects, DisconnectRemoteAbility(t, c) PROVE CallMoves(a)
  <2>1. PICK y : y = [op |-> "disconnect", c |-> c, tries |-> 0,
                      todo |-> distributedConnectAbilityMap[c]]
    OBVIOUS
  <2>2. y.op # "connect"
    BY <2>1
  <2> QED
    BY <1>1, <1>4, <2>1, <2>2, OneActivityMoves DEF DisconnectRemoteAbility
<1>5. ASSUME NEW t \in Threads, NEW c \in Connects, NEW d \in Devices, ConnectRemoteAbility(t, c, d)
      PROVE  CallMoves(a)
  <2>1. ~job[t].awaited
    BY <1>0, <1>1, <1>5 DEF ConnectRemoteAbility, MayCall, CallOK
  <2> QED
    BY <1>1, <1>5, <2>1, OneActivityMoves DEF ConnectRemoteAbility
<1>6. ASSUME NEW t \in Threads, ConnectStep(t) PROVE CallMoves(a)
  <2>1. PICK y : y = [act[t] EXCEPT !.tries = @ - 1]
    OBVIOUS
  <2>2. y.op = act[t].op
    BY <1>0, <1>1, <2>1 DEF Activity
  <2>3. CASE SendConnect(t)
    <3>1. PICK d \in act[t].todo : online[d] /\ job' = [job EXCEPT ![t] = Call("connect", act[t].c, d)]
      BY <2>3 DEF SendConnect
    <3>2. PICK i : i = Call("connect", act[t].c, d)
      OBVIOUS
    <3>3. i.st = "arrived" /\ i.kind = "connect" /\ i.d = d
      BY <3>2 DEF Call
    <3>4. online' = online /\ act' = [act EXCEPT ![t] = y]
      BY <2>1, <2>3 DEF SendConnect, WorldUnchanged, worldVars
    <3> QED
      BY <1>1, <3>1, <3>2, <3>3, <3>4, OneCallMoves DEF Begins
  <2>4. CASE SendConnectFails(t)
    BY <1>1, <2>1, <2>2, <2>4, OneActivityMoves DEF SendConnectFails
  <2>5. CASE ConnectSucceeds(t)
    BY <1>1, <2>5, OneCallMoves DEF ConnectSucceeds
  <2>6. CASE ConnectRefused(t)
    BY <1>1, <2>6, OneJobMoves DEF ConnectRefused
  <2>7. CASE ConnectGivesUp(t)
    BY <1>1, <1>2, <2>7, OneActivityMoves DEF ConnectGivesUp
  <2> QED
    BY <1>6, <2>3, <2>4, <2>5, <2>6, <2>7 DEF ConnectStep
<1>7. ASSUME NEW b \in Actors, CallsStep(b) PROVE CallMoves(a)
  <2>1. CASE CallNextDevice(b)
    <3>0. PICK kind : kind = IF act[b].op = "notify" THEN "died" ELSE "disconnect"
      OBVIOUS
    <3>1. PICK d \in act[b].todo : online[d] /\ job' = [job EXCEPT ![b] = Call(kind, act[b].c, d)]
      BY <2>1, <3>0 DEF CallNextDevice
    <3>2. PICK i : i = Call(kind, act[b].c, d)
      OBVIOUS
    <3>3. i.st = "arrived" /\ i.d = d
      BY <3>2 DEF Call
    <3>4. online' = online /\ act' = act /\ act[b].op # "connect"
      BY <2>1 DEF CallNextDevice, WorldUnchanged, worldVars
    <3> QED
      BY <3>1, <3>2, <3>3, <3>4, OneJobMoves DEF Begins
  <2>2. CASE SkipOfflineDevice(b) \/ CallReturns(b)
    <3>1. PICK d : act' = [act EXCEPT ![b] = [act[b] EXCEPT !.todo = @ \ {d}]]
      BY <2>2 DEF SkipOfflineDevice, CallReturns
    <3>2. PICK y : y = [act[b] EXCEPT !.todo = @ \ {d}]
      OBVIOUS
    <3>3. y.op = act[b].op
      BY <1>0, <3>2 DEF Activity
    <3>4. job' = job \/ job' = [job EXCEPT ![b] = NoJob]
      BY <2>2 DEF SkipOfflineDevice, CallReturns
    <3>5. act' = [act EXCEPT ![b] = y]
      BY <3>1, <3>2
    <3>6. CASE job' = job
      BY <3>3, <3>5, <3>6, OneActivityMoves
    <3>7. CASE job' = [job EXCEPT ![b] = NoJob]
      BY <3>5, <3>7, OneCallMoves
    <3> QED
      BY <3>4, <3>6, <3>7
  <2>3. CASE CallsDone(b)
    BY <1>2, <2>3, OneActivityMoves DEF CallsDone
  <2> QED
    BY <1>7, <2>1, <2>2, <2>3 DEF CallsStep
<1>8. ASSUME NEW b \in Actors, CalleeStep(b) PROVE CallMoves(a)
  <2>1. ASSUME NEW ok, act' = act, Advance(b, Done(b, ok)) PROVE CallMoves(a)
    BY <2>1, DoneGoesOn, OneJobMoves DEF Advance
  <2>2. ASSUME NEW st, NEW w, NEW seen, NEW ok, act' = act, Advance(b, At(b, st, w, seen, ok)),
               st \in {"found", "bound"} => job[b].st \in {"found", "bound"} \/ job[b].kind = "connect"
        PROVE  CallMoves(a)
    BY <2>2, AtGoesOn, OneJobMoves DEF Advance
  <2>3. CASE CheckDPermissionDenies(b) \/ AmsRefuses(b) \/ ConnectAbilityFromRemoteRecords(b)
             \/ AmsDisconnectAbility(b) \/ NotifyProcessDiedFromRemote(b)
    BY <2>1, <2>3 DEF CheckDPermissionDenies, AmsRefuses, ConnectAbilityFromRemoteRecords,
       AmsDisconnectAbility, NotifyProcessDiedFromRemote
  <2>4. CASE ConnectAbilityFromRemoteFinds(b)
    BY <2>2, <2>4 DEF ConnectAbilityFromRemoteFinds
  <2>5. CASE AmsConnectAbility(b)
    BY <2>2, <2>5 DEF AmsConnectAbility
  <2>6. CASE DisconnectAbilityFromRemote(b)
    BY <2>1, <2>2, <2>6 DEF DisconnectAbilityFromRemote
  <2> QED
    BY <1>8, <2>3, <2>4, <2>5, <2>6 DEF CalleeStep
<1>9. ASSUME NEW b \in Actors, RemoteCallFails(b) PROVE CallMoves(a)
  <2>1. PICK y, i : y = AfterFailure(b) /\ i = Abandoned(b)
    OBVIOUS
  <2>2. PICK shorter : shorter = [act[b] EXCEPT !.todo = @ \ {job[b].d}]
    OBVIOUS
  <2>3. shorter.op = act[b].op
    BY <1>0, <2>2 DEF Activity
  <2>4. y.op = act[b].op \/ y.op = "idle"
    BY <1>2, <2>1, <2>2, <2>3 DEF AfterFailure
  <2>5. i = NoJob \/ GoesOn(act[b], job[b], y, i)
    <3>1. CASE job[b].st = "replied"
      BY <2>1, <3>1 DEF Abandoned
    <3>2. CASE job[b].st # "replied"
      <4>1. i = Unawaited(job[b])
        BY <2>1, <3>2 DEF Abandoned
      <4>2. i.kind = job[b].kind /\ i.c = job[b].c /\ i.d = job[b].d /\ i.st = job[b].st /\ ~i.awaited
        BY <4>1 DEF Unawaited
      <4> QED
        BY <2>4, <4>2 DEF GoesOn
    <3> QED
      BY <3>1, <3>2
  <2>6. act' = [act EXCEPT ![b] = y] /\ job' = [job EXCEPT ![b] = i]
    BY <1>9, <2>1 DEF RemoteCallFails
  <2> QED
    BY <2>5, <2>6, OneCallMoves
<1>10. ASSUME NEW c \in Connects, ProcessConnectDied(c) PROVE CallMoves(a)
  <2>1. PICK y : y = [op |-> "notify", c |-> c, tries |-> 0,
                      todo |-> DevicesToTell(c, SameCaller(c) \cap Registered)]
    OBVIOUS
  <2>2. y.op # "connect" /\ Handler \in Actors
    BY <2>1 DEF Actors
  <2>3. job' = job /\ (act' = act \/ act' = [act EXCEPT ![Handler] = y])
    BY <1>10, <2>1 DEF ProcessConnectDied
  <2> QED
    BY <1>3, <2>2, <2>3, OneActivityMoves
<1>11. ASSUME \/ \E d \in Devices : ProcessDeviceOffline(d)
              \/ \E p \in Processes : ProcessDies(p)
              \/ \E c \in Connects : OnRemoteDied(c)
              \/ \E d \in Devices :
                    RemoteProcessDeviceOffline(d) \/ DeviceOffline(d) \/ DeviceOnline(d)
              \/ UNCHANGED vars
       PROVE  CallMoves(a)
  BY <1>3, <1>11 DEF ProcessDeviceOffline, ProcessDies, OnRemoteDied, RemoteProcessDeviceOffline,
     DeviceOffline, DeviceOnline, vars
<1> QED
  BY <1>4, <1>5, <1>6, <1>7, <1>8, <1>9, <1>10, <1>11 DEF Next, HandlerStep

-----------------------------------------------------------------------------
(* What the loss of a device leaves behind. *)

(* Only a connect has a wrapper, and what a connecting thread waits for is a connect. *)
KindOK(x, j) ==
    /\ j.st \in {"found", "bound"} => j.kind = "connect"
    /\ j.awaited /\ x.op = "connect" => j.kind = "connect"
KindInv == \A a \in Actors : KindOK(act[a], job[a])

(* A connect is served for a lost device only if it raced with the loss. *)
RacedInv ==
    \A a \in Actors : job[a].kind = "connect" /\ job[a].c \in Connects /\ job[a].d \in Devices
                      /\ ~online[job[a].d]
                      => <<job[a].c, job[a].d>> \in raced

(* A session with a lost device, and a record on it, is still to be cleaned up. *)
SessionInv ==
    \A c \in Connects, d \in Devices :
        d \in distributedConnectAbilityMap[c] /\ ~online[d] =>
            <<c, d>> \in raced \/ Queued(dmsAdapterHandler, OfflineTask(d))
RecordInv ==
    \A c \in Connects, d \in Devices :
        connectAbilityMap[d][c] # 0 /\ ~online[d] => <<c, d>> \in raced \/ remoteOfflineTask[d]

LostInv == KindInv /\ RacedInv /\ SessionInv /\ RecordInv

LEMMA NextKindInv == TypeInv /\ KindInv /\ [Next]_vars => KindInv'
<1> SUFFICES ASSUME TypeInv, KindInv, [Next]_vars, NEW a \in Actors
             PROVE  KindOK(act'[a], job'[a])
  BY DEF KindInv, KindOK
<1>1. KindOK(act[a], job[a]) /\ CallOK(act[a], job[a])
  BY DEF KindInv, TypeInv, CallsOK
<1>2. NoJob.st = "none" /\ ~NoJob.awaited
  BY DEF NoJob
<1>3. CallMoves(a)
  BY CallSteps
<1> HIDE DEF NoJob
<1> QED
  BY <1>1, <1>2, <1>3 DEF CallMoves, GoesOn, Begins, KindOK

(* The network: a device is lost, or found again, or nothing changes. *)
LEMMA NetworkSteps ==
  ASSUME [Next]_vars
  PROVE  \/ UNCHANGED <<online, raced>>
         \/ \E d \in Devices : DeviceOffline(d) \/ DeviceOnline(d)
<1> USE DEF WorldUnchanged, worldVars
<1>1. CASE \E t \in Threads, c \in Connects :
              \/ DisconnectRemoteAbility(t, c)
              \/ \E d \in Devices : ConnectRemoteAbility(t, c, d)
  BY <1>1 DEF ConnectRemoteAbility, DisconnectRemoteAbility
<1>2. CASE \E t \in Threads : ConnectStep(t)
  BY <1>2 DEF ConnectStep, SendConnect, SendConnectFails, ConnectSucceeds, ConnectRefused,
     ConnectGivesUp
<1>3. CASE \E a \in Actors : CallsStep(a)
  BY <1>3 DEF CallsStep, CallNextDevice, SkipOfflineDevice, CallReturns, CallsDone
<1>4. CASE \E a \in Actors : CalleeStep(a)
  BY <1>4 DEF CalleeStep, CheckDPermissionDenies, ConnectAbilityFromRemoteFinds,
     AmsConnectAbility, AmsRefuses, ConnectAbilityFromRemoteRecords,
     DisconnectAbilityFromRemote, AmsDisconnectAbility, NotifyProcessDiedFromRemote
<1>5. CASE \E a \in Actors : RemoteCallFails(a)
  BY <1>5 DEF RemoteCallFails
<1>6. CASE HandlerStep
  BY <1>6 DEF HandlerStep, ProcessDeviceOffline, ProcessConnectDied
<1>7. CASE \E p \in Processes : ProcessDies(p)
  BY <1>7 DEF ProcessDies
<1>8. CASE \E c \in Connects : OnRemoteDied(c)
  BY <1>8 DEF OnRemoteDied
<1>9. CASE \E d \in Devices : RemoteProcessDeviceOffline(d)
  BY <1>9 DEF RemoteProcessDeviceOffline
<1>10. CASE UNCHANGED vars
  BY <1>10 DEF vars
<1> QED
  BY <1>1, <1>2, <1>3, <1>4, <1>5, <1>6, <1>7, <1>8, <1>9, <1>10 DEF Next

(* What raced with the loss of a device is known until it is found again. *)
LEMMA RacedKept ==
  ASSUME TypeInv, [Next]_vars, NEW c \in Connects, NEW e \in Devices,
         <<c, e>> \in raced, ~online[e], ~online'[e]
  PROVE  <<c, e>> \in raced'
<1>1. CASE UNCHANGED <<online, raced>>
  BY <1>1
<1>2. ASSUME NEW d \in Devices, DeviceOffline(d) PROVE <<c, e>> \in raced'
  <2>1. d # e /\ <<c, e>>[2] = e
    BY <1>2 DEF DeviceOffline
  <2> QED
    BY <1>2, <2>1 DEF DeviceOffline
<1>3. ASSUME NEW d \in Devices, DeviceOnline(d) PROVE <<c, e>> \in raced'
  BY <1>3 DEF DeviceOnline
<1> QED
  BY <1>1, <1>2, <1>3, NetworkSteps

LEMMA NextRacedInv == TypeInv /\ RacedInv /\ [Next]_vars => RacedInv'
<1> SUFFICES ASSUME TypeInv, RacedInv, [Next]_vars, NEW a \in Actors,
                    job'[a].kind = "connect", job'[a].c \in Connects, job'[a].d \in Devices,
                    ~online'[job'[a].d]
             PROVE  <<job'[a].c, job'[a].d>> \in raced'
  BY DEF RacedInv
<1>1. PICK c \in Connects, e \in Devices : c = job'[a].c /\ e = job'[a].d
  OBVIOUS
<1>2. NoJob.kind = "none"
  BY DEF NoJob
<1>3. job'[a].kind = job[a].kind /\ job'[a].c = job[a].c /\ job'[a].d = job[a].d
  <2>1. CallMoves(a)
    BY CallSteps
  <2> HIDE DEF NoJob
  <2> QED
    BY <1>2, <2>1 DEF CallMoves, GoesOn, Begins
<1>4. CASE ~online[e]
  <2>1. <<c, e>> \in raced
    BY <1>1, <1>3, <1>4 DEF RacedInv
  <2> QED
    BY <1>1, <1>4, <2>1, RacedKept
<1>5. CASE online[e]
  <2>1. PICK d \in Devices : DeviceOffline(d) \/ DeviceOnline(d)
    BY <1>1, <1>5, NetworkSteps
  <2>2. DeviceOffline(e)
    BY <1>1, <1>5, <2>1 DEF DeviceOffline, DeviceOnline, TypeInv, TypeOK, WorldTypes
  <2>3. c \in BeingConnected(e)
    BY <1>1, <1>3 DEF BeingConnected
  <2> QED
    BY <1>1, <2>2, <2>3 DEF DeviceOffline
<1> QED
  BY <1>4, <1>5

LEMMA NextSessionInv ==
  ASSUME TypeInv, KindInv, RacedInv, SessionInv, [Next]_vars
  PROVE  SessionInv'
<1> SUFFICES ASSUME NEW c \in Connects, NEW e \in Devices,
                    e \in distributedConnectAbilityMap'[c], ~online'[e]
             PROVE  <<c, e>> \in raced' \/ Queued(dmsAdapterHandler', OfflineTask(e))
  BY DEF SessionInv, Queued, OfflineTask
<1>1. dmsAdapterHandler \in Seq(Tasks) /\ OfflineTask(e) \in Tasks
  BY TaskKinds DEF TypeInv, TypeOK
<1>2. e \in distributedConnectAbilityMap[c] /\ ~online[e] =>
         <<c, e>> \in raced \/ Queued(dmsAdapterHandler, OfflineTask(e))
  BY DEF SessionInv
<1>3. <<c, e>> \in raced /\ ~online[e] => <<c, e>> \in raced'
  BY RacedKept
<1> DEFINE Goal == <<c, e>> \in raced' \/ Queued(dmsAdapterHandler', OfflineTask(e))
<1>4. ASSUME NEW d \in Devices, DeviceOffline(d) PROVE Goal
  <2>1. /\ dmsAdapterHandler' = Append(dmsAdapterHandler, OfflineTask(d))
        /\ distributedConnectAbilityMap' = distributedConnectAbilityMap
        /\ online' = [online EXCEPT ![d] = FALSE]
        /\ OfflineTask(d) \in Tasks
    BY <1>4, TaskKinds DEF DeviceOffline, callerVars
  <2>2. /\ Queued(dmsAdapterHandler', OfflineTask(d))
        /\ Queued(dmsAdapterHandler, OfflineTask(e)) => Queued(dmsAdapterHandler', OfflineTask(e))
    BY <1>1, <2>1, AppendQueued
  <2>3. e # d => ~online[e]
    BY <2>1 DEF TypeInv, TypeOK, WorldTypes
  <2> QED
    BY <1>2, <1>3, <2>1, <2>2, <2>3
<1>5. ASSUME NEW d \in Devices, DeviceOnline(d) PROVE Goal
  <2>1. /\ dmsAdapterHandler' = RemoveTask(dmsAdapterHandler, OfflineTask(d))
        /\ distributedConnectAbilityMap' = distributedConnectAbilityMap
        /\ online' = [online EXCEPT ![d] = TRUE]
    BY <1>5 DEF DeviceOnline, callerVars
  <2>2. e # d /\ ~online[e]
    BY <2>1 DEF TypeInv, TypeOK, WorldTypes
  <2>3. OfflineTask(e) # OfflineTask(d)
    BY <2>2, TaskKinds
  <2>4. Queued(dmsAdapterHandler, OfflineTask(e)) => Queued(dmsAdapterHandler', OfflineTask(e))
    BY <1>1, <2>1, <2>3, RemoveQueued
  <2> QED
    BY <1>2, <1>3, <2>1, <2>2, <2>4
<1>6. CASE UNCHANGED <<online, raced>>
  <2>1. ~online[e]
    BY <1>6
  <2>2. CASE UNCHANGED watch
    BY <1>2, <1>3, <2>1, <2>2 DEF watch
  <2>3. ASSUME NEW t \in Threads, ConnectSucceeds(t) PROVE Goal
    <3>1. t \in Actors /\ job[t].c \in Connects /\ job[t].d \in Devices /\ job[t].kind = "connect"
      BY <2>3, JobFacts DEF ConnectSucceeds, Actors, KindInv, KindOK
    <3>2. PICK x \in Connects, d \in Devices : x = job[t].c /\ d = job[t].d
      BY <3>1
    <3>3. dmsAdapterHandler' = dmsAdapterHandler /\ RemoteConnectAbilityMappingLocked(x, d)
      BY <2>3, <3>2 DEF ConnectSucceeds
    <3>4. e \in distributedConnectAbilityMap[c] \/ (c = x /\ e = d)
      BY <3>3 DEF RemoteConnectAbilityMappingLocked, TypeInv, TypeOK, CallerTypes
    <3>5. c = x /\ e = d => <<c, e>> \in raced
      BY <2>1, <3>1, <3>2 DEF RacedInv
    <3> QED
      BY <1>2, <1>3, <2>1, <3>3, <3>4, <3>5
  <2>4. ASSUME NEW t \in Threads, NEW x \in Connects, DisconnectRemoteAbility(t, x) PROVE Goal
    <3>1. e \in distributedConnectAbilityMap[c] /\ dmsAdapterHandler' = dmsAdapterHandler
      BY <2>4 DEF DisconnectRemoteAbility, TypeInv, TypeOK, CallerTypes
    <3> QED
      BY <1>2, <1>3, <2>1, <3>1
  <2>5. ASSUME NEW d \in Devices, ProcessDeviceOffline(d) PROVE Goal
    <3>1. e \in distributedConnectAbilityMap[c] /\ e # d
      BY <2>5 DEF ProcessDeviceOffline, ConnectedTo
    <3>2. /\ dmsAdapterHandler # << >> /\ Head(dmsAdapterHandler) = OfflineTask(d)
          /\ dmsAdapterHandler' = Tail(dmsAdapterHandler)
      BY <2>5 DEF ProcessDeviceOffline, NextTask
    <3>3. OfflineTask(e) # OfflineTask(d)
      BY <3>1, TaskKinds
    <3>4. Queued(dmsAdapterHandler, OfflineTask(e)) => Queued(dmsAdapterHandler', OfflineTask(e))
      BY <1>1, <3>2, <3>3, TailQueued
    <3> QED
      BY <1>2, <1>3, <2>1, <3>1, <3>4
  <2>6. ASSUME NEW x \in Connects, ProcessConnectDied(x) PROVE Goal
    <3>1. e \in distributedConnectAbilityMap[c]
      BY <2>6 DEF ProcessConnectDied, callerVars
    <3>2. /\ dmsAdapterHandler # << >> /\ Head(dmsAdapterHandler) = DiedTask(x)
          /\ dmsAdapterHandler' = Tail(dmsAdapterHandler)
      BY <2>6 DEF ProcessConnectDied, NextTask
    <3>3. OfflineTask(e) # DiedTask(x)
      BY TaskKinds
    <3>4. Queued(dmsAdapterHandler, OfflineTask(e)) => Queued(dmsAdapterHandler', OfflineTask(e))
      BY <1>1, <3>2, <3>3, TailQueued
    <3> QED
      BY <1>2, <1>3, <2>1, <3>1, <3>4
  <2>7. ASSUME NEW x \in Connects, OnRemoteDied(x) PROVE Goal
    <3>1. /\ e \in distributedConnectAbilityMap[c]
          /\ dmsAdapterHandler' = Append(dmsAdapterHandler, DiedTask(x)) /\ DiedTask(x) \in Tasks
      BY <2>7, TaskKinds DEF OnRemoteDied
    <3>2. Queued(dmsAdapterHandler, OfflineTask(e)) => Queued(dmsAdapterHandler', OfflineTask(e))
      BY <1>1, <3>1, AppendQueued
    <3> QED
      BY <1>2, <1>3, <2>1, <3>1, <3>2
  <2> QED
    BY <1>4, <1>5, <2>2, <2>3, <2>4, <2>5, <2>6, <2>7, WatchSteps
<1> QED
  BY <1>4, <1>5, <1>6, NetworkSteps

(* The steps that touch a device's connectAbilityMap_ or its pending clean-up. *)
LEMMA RecordSteps ==
  ASSUME [Next]_vars
  PROVE  \/ UNCHANGED <<connectAbilityMap, remoteOfflineTask>>
         \/ \E a \in Actors : /\ \/ ConnectAbilityFromRemoteRecords(a)
                                 \/ DisconnectAbilityFromRemote(a)
                                 \/ NotifyProcessDiedFromRemote(a)
                              /\ remoteOfflineTask' = remoteOfflineTask
         \/ \E d \in Devices :
               RemoteProcessDeviceOffline(d) \/ DeviceOffline(d) \/ DeviceOnline(d)
<1> USE DEF WorldUnchanged, worldVars, calleeVars
<1>1. CASE \E t \in Threads, c \in Connects :
              \/ DisconnectRemoteAbility(t, c)
              \/ \E d \in Devices : ConnectRemoteAbility(t, c, d)
  BY <1>1 DEF ConnectRemoteAbility, DisconnectRemoteAbility
<1>2. CASE \E t \in Threads : ConnectStep(t)
  BY <1>2 DEF ConnectStep, SendConnect, SendConnectFails, ConnectSucceeds, ConnectRefused,
     ConnectGivesUp
<1>3. CASE \E a \in Actors : CallsStep(a)
  BY <1>3 DEF CallsStep, CallNextDevice, SkipOfflineDevice, CallReturns, CallsDone
<1>4. ASSUME NEW a \in Actors, CalleeStep(a)
      PROVE  /\ remoteOfflineTask' = remoteOfflineTask
             /\ \/ connectAbilityMap' = connectAbilityMap
                \/ ConnectAbilityFromRemoteRecords(a) \/ DisconnectAbilityFromRemote(a)
                \/ NotifyProcessDiedFromRemote(a)
  <2>1. CASE CheckDPermissionDenies(a) \/ ConnectAbilityFromRemoteFinds(a) \/ AmsConnectAbility(a)
             \/ AmsRefuses(a) \/ AmsDisconnectAbility(a)
    BY <2>1 DEF CheckDPermissionDenies, ConnectAbilityFromRemoteFinds, AmsConnectAbility,
       AmsRefuses, AmsDisconnectAbility
  <2>2. CASE ConnectAbilityFromRemoteRecords(a)
    BY <2>2 DEF ConnectAbilityFromRemoteRecords
  <2>3. CASE DisconnectAbilityFromRemote(a)
    BY <2>3 DEF DisconnectAbilityFromRemote
  <2>4. CASE NotifyProcessDiedFromRemote(a)
    BY <2>4 DEF NotifyProcessDiedFromRemote
  <2> QED
    BY <1>4, <2>1, <2>2, <2>3, <2>4 DEF CalleeStep
<1>5. CASE \E a \in Actors : RemoteCallFails(a)
  BY <1>5 DEF RemoteCallFails
<1>6. CASE HandlerStep
  BY <1>6 DEF HandlerStep, ProcessDeviceOffline, ProcessConnectDied
<1>7. CASE \E p \in Processes : ProcessDies(p)
  BY <1>7 DEF ProcessDies
<1>8. CASE \E c \in Connects : OnRemoteDied(c)
  BY <1>8 DEF OnRemoteDied
<1>9. CASE UNCHANGED vars
  BY <1>9 DEF vars
<1> QED
  BY <1>1, <1>2, <1>3, <1>4, <1>5, <1>6, <1>7, <1>8, <1>9 DEF Next

(* Recording the wrapper w for c on d, if there is none, is what changes the table. *)
LEMMA RecordsOne ==
  ASSUME TypeInv, NEW a \in Actors, ConnectAbilityFromRemoteRecords(a),
         NEW c \in Connects, NEW d \in Devices
  PROVE  \/ connectAbilityMap'[d][c] = connectAbilityMap[d][c]
         \/ /\ c = job[a].c /\ d = job[a].d /\ ~job[a].seen
            /\ connectAbilityMap[d][c] = 0 /\ connectAbilityMap'[d][c] = job[a].w
<1>1. CASE job[a].seen
  BY <1>1 DEF ConnectAbilityFromRemoteRecords
<1>2. CASE ~job[a].seen
  <2>1. PICK x \in Connects, e \in Devices : x = job[a].c /\ e = job[a].d
    BY JobFacts DEF ConnectAbilityFromRemoteRecords
  <2>2. PICK w : w = IF connectAbilityMap[e][x] = 0 THEN job[a].w ELSE connectAbilityMap[e][x]
    OBVIOUS
  <2>3. connectAbilityMap' = [connectAbilityMap EXCEPT ![e][x] = w]
    BY <1>2, <2>1, <2>2 DEF ConnectAbilityFromRemoteRecords
  <2>4. connectAbilityMap'[d][c] = IF d = e /\ c = x THEN w ELSE connectAbilityMap[d][c]
    BY <2>3 DEF TypeInv, TypeOK, CalleeTypes
  <2> QED
    BY <1>2, <2>1, <2>2, <2>4
<1> QED
  BY <1>1, <1>2

(* Forgetting wrappers leaves every other entry as it is. *)
LEMMA ErasesSome ==
  ASSUME TypeInv, NEW e \in Devices, NEW C \in SUBSET Connects, EraseOnDevice(e, C),
         NEW c \in Connects, NEW d \in Devices
  PROVE  connectAbilityMap'[d][c] = IF d = e /\ c \in C THEN 0 ELSE connectAbilityMap[d][c]
<1>1. PICK row : row = [x \in Connects |-> IF x \in C THEN 0 ELSE connectAbilityMap[e][x]]
  OBVIOUS
<1>2. connectAbilityMap' = [connectAbilityMap EXCEPT ![e] = row]
  BY <1>1 DEF EraseOnDevice
<1>3. connectAbilityMap'[d] = IF d = e THEN row ELSE connectAbilityMap[d]
  BY <1>2 DEF TypeInv, TypeOK, CalleeTypes
<1> QED
  BY <1>1, <1>3

LEMMA DisconnectsOne ==
  ASSUME TypeInv, NEW a \in Actors, DisconnectAbilityFromRemote(a),
         NEW c \in Connects, NEW d \in Devices
  PROVE  connectAbilityMap'[d][c] = IF c = job[a].c /\ d = job[a].d THEN 0
                                                                   ELSE connectAbilityMap[d][c]
<1>1. PICK x \in Connects, e \in Devices : x = job[a].c /\ e = job[a].d
  BY JobFacts DEF DisconnectAbilityFromRemote
<1>2. CASE x \in Recorded(e)
  <2>1. connectAbilityMap' = [connectAbilityMap EXCEPT ![e][x] = 0]
    BY <1>1, <1>2 DEF DisconnectAbilityFromRemote
  <2> QED
    BY <1>1, <2>1 DEF TypeInv, TypeOK, CalleeTypes
<1>3. CASE x \notin Recorded(e)
  <2>1. connectAbilityMap' = connectAbilityMap /\ connectAbilityMap[e][x] = 0
    BY <1>1, <1>3 DEF DisconnectAbilityFromRemote, Recorded
  <2> QED
    BY <1>1, <2>1
<1> QED
  BY <1>2, <1>3

LEMMA NextRecordInv ==
  ASSUME TypeInv, KindInv, RacedInv, RecordInv, [Next]_vars
  PROVE  RecordInv'
<1> SUFFICES ASSUME NEW c \in Connects, NEW e \in Devices,
                    connectAbilityMap'[e][c] # 0, ~online'[e]
             PROVE  <<c, e>> \in raced' \/ remoteOfflineTask'[e]
  BY DEF RecordInv
<1>1. connectAbilityMap[e][c] # 0 /\ ~online[e] => <<c, e>> \in raced \/ remoteOfflineTask[e]
  BY DEF RecordInv
<1>2. <<c, e>> \in raced /\ ~online[e] => <<c, e>> \in raced'
  BY RacedKept
<1>3. ASSUME NEW d \in Devices, DeviceOffline(d) \/ DeviceOnline(d)
      PROVE  <<c, e>> \in raced' \/ remoteOfflineTask'[e]
  <2>1. connectAbilityMap' = connectAbilityMap
    BY <1>3 DEF DeviceOffline, DeviceOnline, calleeVars
  <2>2. \/ DeviceOffline(d) /\ online' = [online EXCEPT ![d] = FALSE]
           /\ remoteOfflineTask' = [remoteOfflineTask EXCEPT ![d] = TRUE]
        \/ DeviceOnline(d) /\ online' = [online EXCEPT ![d] = TRUE]
           /\ remoteOfflineTask' = [remoteOfflineTask EXCEPT ![d] = FALSE]
    BY <1>3 DEF DeviceOffline, DeviceOnline
  <2>3. CASE e = d
    BY <2>2, <2>3 DEF TypeInv, TypeOK, WorldTypes
  <2>4. CASE e # d
    <3>1. ~online[e] /\ remoteOfflineTask'[e] = remoteOfflineTask[e]
      BY <2>2, <2>4 DEF TypeInv, TypeOK, WorldTypes
    <3> QED
      BY <1>1, <1>2, <2>1, <3>1
  <2> QED
    BY <2>3, <2>4
<1>4. CASE UNCHANGED <<online, raced>>
  <2>1. ~online[e]
    BY <1>4
  <2>2. CASE UNCHANGED <<connectAbilityMap, remoteOfflineTask>>
    BY <1>1, <1>4, <2>1, <2>2
  <2>3. ASSUME NEW a \in Actors, ConnectAbilityFromRemoteRecords(a),
               remoteOfflineTask' = remoteOfflineTask
        PROVE  <<c, e>> \in raced' \/ remoteOfflineTask'[e]
    <3>1. \/ connectAbilityMap'[e][c] = connectAbilityMap[e][c]
          \/ c = job[a].c /\ e = job[a].d
      BY <2>3, RecordsOne
    <3>2. c = job[a].c /\ e = job[a].d => <<c, e>> \in raced
      BY <2>1, <2>3 DEF ConnectAbilityFromRemoteRecords, KindInv, KindOK, RacedInv
    <3> QED
      BY <1>1, <1>4, <2>1, <2>3, <3>1, <3>2
  <2>4. ASSUME NEW a \in Actors, DisconnectAbilityFromRemote(a),
               remoteOfflineTask' = remoteOfflineTask
        PROVE  <<c, e>> \in raced' \/ remoteOfflineTask'[e]
    <3>1. connectAbilityMap'[e][c] = connectAbilityMap[e][c]
      BY <2>4, DisconnectsOne
    <3> QED
      BY <1>1, <1>4, <2>1, <2>4, <3>1
  <2>5. ASSUME NEW a \in Actors, NotifyProcessDiedFromRemote(a),
               remoteOfflineTask' = remoteOfflineTask
        PROVE  <<c, e>> \in raced' \/ remoteOfflineTask'[e]
    <3>1. /\ EraseOnDevice(job[a].d, SameCaller(job[a].c)) /\ job[a].d \in Devices
          /\ SameCaller(job[a].c) \in SUBSET Connects
      BY <2>5, JobFacts DEF NotifyProcessDiedFromRemote, SameCaller, ConnectsOf
    <3>2. connectAbilityMap'[e][c] = connectAbilityMap[e][c]
      BY <3>1, ErasesSome
    <3> QED
      BY <1>1, <1>4, <2>1, <2>5, <3>2
  <2>6. ASSUME NEW d \in Devices, RemoteProcessDeviceOffline(d)
        PROVE  <<c, e>> \in raced' \/ remoteOfflineTask'[e]
    <3>1. /\ EraseOnDevice(d, Connects) /\ Connects \in SUBSET Connects
          /\ remoteOfflineTask' = [remoteOfflineTask EXCEPT ![d] = FALSE]
      BY <2>6 DEF RemoteProcessDeviceOffline
    <3>2. e # d /\ connectAbilityMap'[e][c] = connectAbilityMap[e][c]
      BY <3>1, ErasesSome
    <3>3. remoteOfflineTask'[e] = remoteOfflineTask[e]
      BY <3>1, <3>2 DEF TypeInv, TypeOK, WorldTypes
    <3> QED
      BY <1>1, <1>4, <2>1, <3>2, <3>3
  <2> QED
    BY <1>3, <2>2, <2>3, <2>4, <2>5, <2>6, RecordSteps
<1> QED
  BY <1>3, <1>4, NetworkSteps

LEMMA InitLostInv == Init => LostInv
<1> SUFFICES ASSUME Init PROVE LostInv
  OBVIOUS
<1>1. \A a \in Actors : act[a] = Idle /\ job[a] = NoJob
  BY DEF Init
<1>2. NoJob.st = "none" /\ NoJob.kind = "none" /\ ~NoJob.awaited
  BY DEF NoJob
<1>3. KindInv /\ RacedInv
  <2> HIDE DEF NoJob
  <2> QED
    BY <1>1, <1>2 DEF KindInv, KindOK, RacedInv
<1>4. SessionInv /\ RecordInv
  BY DEF Init, SessionInv, RecordInv
<1> QED
  BY <1>3, <1>4 DEF LostInv

(* Once both devices have done with the loss of the link and nothing is under way,   *)
(* neither distributedConnectAbilityMap_ nor the other device's connectAbilityMap_   *)
(* holds anything of the lost session, except what was being connected at the moment *)
(* of the loss: the two clean-ups, which know nothing of each other, suffice.        *)
THEOREM OfflineCorrect == Spec => []OfflineLeavesNothing
<1>1. TypeInv /\ LostInv /\ [Next]_vars => LostInv'
  BY NextKindInv, NextRacedInv, NextSessionInv, NextRecordInv DEF LostInv
<1>2. LostInv => OfflineLeavesNothing
  <2> SUFFICES ASSUME LostInv, Quiet, NEW d \in Devices, ~online[d], NEW c \in Connects,
                      <<c, d>> \notin raced
               PROVE  d \notin distributedConnectAbilityMap[c] /\ c \notin Recorded(d)
    BY DEF OfflineLeavesNothing
  <2>1. dmsAdapterHandler = << >> /\ ~remoteOfflineTask[d]
    BY DEF Quiet
  <2>2. ~Queued(dmsAdapterHandler, OfflineTask(d))
    <3>1. Len(dmsAdapterHandler) = 0
      BY <2>1, EmptySeq
    <3>2. 1..0 = {}
      OBVIOUS
    <3> QED
      BY <3>1, <3>2, Zenon DEF Queued
  <2>3. d \notin distributedConnectAbilityMap[c]
    BY <2>2 DEF LostInv, SessionInv
  <2>4. c \notin Recorded(d)
    BY <2>1 DEF LostInv, RecordInv, Recorded
  <2> QED
    BY <2>3, <2>4
<1> QED
  BY <1>1, <1>2, InitTypeInv, NextTypeInv, InitLostInv, PTL DEF Spec

-----------------------------------------------------------------------------
(* Every recorded wrapper is bound. *)

(* A handler between its two critical sections, with a wrapper of its own making. *)
HoldsNew(j) == j.st \in {"found", "bound"} /\ ~j.seen
SameWrapper(j, i) == i.c = j.c /\ i.d = j.d /\ i.w = j.w

(* No other handler has that wrapper; ... *)
NewApart ==
    \A a, b \in Actors : a # b /\ HoldsNew(job[a]) => ~SameWrapper(job[a], job[b])
(* ... neither it nor a wrapper about to be unbound is on record; ... *)
NotRecorded ==
    \A a \in Actors : HoldsNew(job[a]) \/ job[a].st = "erased" =>
        connectAbilityMap[job[a].d][job[a].c] # job[a].w
(* ... and no one unbinds it before it is recorded. *)
NewBound ==
    \A a \in Actors : job[a].st = "bound" /\ ~job[a].seen =>
        <<job[a].c, job[a].w>> \in amsConnections[job[a].d]

OwnInv == NewApart /\ NotRecorded /\ NewBound /\ RecordedIsBound

(* A handler that goes on holding what it held, and one that holds nothing. *)
Holds(j, i) == SameWrapper(j, i) /\ i.seen = j.seen /\ i.st = j.st
HoldsNothing(i) == i.w = 0 /\ i.st \notin {"found", "bound", "erased"}

LEMMA DoneHoldsNothing == \A a, ok : HoldsNothing(Done(a, ok))
<1> SUFFICES ASSUME NEW a, NEW ok PROVE HoldsNothing(Done(a, ok))
  OBVIOUS
<1>1. At(a, "replied", 0, FALSE, ok).w = 0 /\ At(a, "replied", 0, FALSE, ok).st = "replied"
  BY DEF At
<1>2. NoJob.w = 0 /\ NoJob.st = "none"
  BY DEF NoJob
<1>3. PICK i, j : i = At(a, "replied", 0, FALSE, ok) /\ j = NoJob
  OBVIOUS
<1>4. Done(a, ok) = i \/ Done(a, ok) = j
  BY <1>3 DEF Done
<1> QED
  BY <1>1, <1>2, <1>3, <1>4 DEF HoldsNothing

CallsHold == \A a \in Actors : HoldsNothing(job'[a]) \/ Holds(job[a], job'[a])

(* One job changes, the others do not. *)
LEMMA OneJob ==
  ASSUME TypeInv, NEW b \in Actors, NEW i, job' = [job EXCEPT ![b] = i], NEW a \in Actors
  PROVE  job'[a] = IF a = b THEN i ELSE job[a]
  BY DEF TypeInv, TypeOK, CallTypes

LEMMA OthersHold ==
  ASSUME TypeInv, NEW b \in Actors, NEW i, job' = [job EXCEPT ![b] = i],
         HoldsNothing(i) \/ Holds(job[b], i)
  PROVE  CallsHold
<1> SUFFICES ASSUME NEW a \in Actors PROVE HoldsNothing(job'[a]) \/ Holds(job[a], job'[a])
  BY DEF CallsHold
<1>1. job'[a] = IF a = b THEN i ELSE job[a]
  BY OneJob
<1> QED
  BY <1>1 DEF Holds, SameWrapper

(* The steps that neither take a wrapper in hand nor touch a device's tables. *)
OnlyCalls ==
    /\ UNCHANGED <<connectAbilityMap, amsConnections>>
    /\ CallsHold

LEMMA WrapperSteps ==
  ASSUME TypeInv, [Next]_vars
  PROVE  \/ OnlyCalls
         \/ \E a \in Actors :
               \/ ConnectAbilityFromRemoteFinds(a) \/ AmsConnectAbility(a)
               \/ ConnectAbilityFromRemoteRecords(a) \/ DisconnectAbilityFromRemote(a)
               \/ AmsDisconnectAbility(a) \/ NotifyProcessDiedFromRemote(a)
         \/ \E d \in Devices : RemoteProcessDeviceOffline(d)
<1> USE DEF calleeVars
<1>1. job' = job /\ UNCHANGED calleeVars => OnlyCalls
  BY DEF OnlyCalls, CallsHold, Holds, SameWrapper
<1>2. ASSUME NEW b \in Actors, NEW i, job' = [job EXCEPT ![b] = i], UNCHANGED calleeVars,
             HoldsNothing(i) \/ Holds(job[b], i)
      PROVE  OnlyCalls
  BY <1>2, OthersHold DEF OnlyCalls
<1>3. HoldsNothing(NoJob) /\ \A t \in Threads : t \in Actors
  BY DEF HoldsNothing, NoJob, Actors
<1>4. \A kind, c, d : HoldsNothing(Call(kind, c, d))
  BY DEF HoldsNothing, Call
<1>5. CASE \E t \in Threads, c \in Connects :
              \/ DisconnectRemoteAbility(t, c)
              \/ \E d \in Devices : ConnectRemoteAbility(t, c, d)
  BY <1>1, <1>5 DEF ConnectRemoteAbility, DisconnectRemoteAbility
<1>6. ASSUME NEW t \in Threads, ConnectStep(t) PROVE OnlyCalls
  <2>1. CASE SendConnect(t)
    <3>1. PICK d : job' = [job EXCEPT ![t] = Call("connect", act[t].c, d)]
      BY <2>1 DEF SendConnect
    <3> QED
      BY <1>2, <1>3, <1>4, <2>1, <3>1 DEF SendConnect
  <2>2. CASE SendConnectFails(t) \/ ConnectGivesUp(t)
    BY <1>1, <2>2 DEF SendConnectFails, ConnectGivesUp
  <2>3. CASE ConnectSucceeds(t) \/ ConnectRefused(t)
    BY <1>2, <1>3, <2>3 DEF ConnectSucceeds, ConnectRefused
  <2> QED
    BY <1>6, <2>1, <2>2, <2>3 DEF ConnectStep
<1>7. ASSUME NEW b \in Actors, CallsStep(b) PROVE OnlyCalls
  <2>1. CASE CallNextDevice(b)
    <3>0. PICK kind : kind = IF act[b].op = "notify" THEN "died" ELSE "disconnect"
      OBVIOUS
    <3>1. PICK d \in act[b].todo : job' = [job EXCEPT ![b] = Call(kind, act[b].c, d)]
      BY <2>1, <3>0 DEF CallNextDevice
    <3> QED
      BY <1>2, <1>4, <2>1, <3>1 DEF CallNextDevice
  <2>2. CASE SkipOfflineDevice(b) \/ CallsDone(b)
    BY <1>1, <2>2 DEF SkipOfflineDevice, CallsDone
  <2>3. CASE CallReturns(b)
    BY <1>2, <1>3, <2>3 DEF CallReturns
  <2> QED
    BY <1>7, <2>1, <2>2, <2>3 DEF CallsStep
<1>8. ASSUME NEW b \in Actors, CheckDPermissionDenies(b) \/ AmsRefuses(b) PROVE OnlyCalls
  BY <1>2, <1>8, DoneHoldsNothing DEF CheckDPermissionDenies, AmsRefuses, Advance
<1>9. ASSUME NEW b \in Actors, RemoteCallFails(b) PROVE OnlyCalls
  <2>1. PICK i : i = Abandoned(b)
    OBVIOUS
  <2>2. HoldsNothing(i) \/ Holds(job[b], i)
    <3>1. CASE job[b].st = "replied"
      BY <1>3, <2>1, <3>1 DEF Abandoned
    <3>2. CASE job[b].st # "replied"
      <4>1. i = Unawaited(job[b])
        BY <2>1, <3>2 DEF Abandoned
      <4> QED
        BY <4>1 DEF Unawaited, Holds, SameWrapper
    <3> QED
      BY <3>1, <3>2
  <2>3. job' = [job EXCEPT ![b] = i] /\ UNCHANGED calleeVars
    BY <1>9, <2>1 DEF RemoteCallFails
  <2> QED
    BY <1>2, <2>2, <2>3
<1>10. ASSUME \/ HandlerStep
              \/ \E p \in Processes : ProcessDies(p)
              \/ \E c \in Connects : OnRemoteDied(c)
              \/ \E d \in Devices : DeviceOffline(d) \/ DeviceOnline(d)
              \/ UNCHANGED vars
       PROVE  OnlyCalls
  BY <1>1, <1>10 DEF HandlerStep, ProcessDeviceOffline, ProcessConnectDied, ProcessDies,
     OnRemoteDied, DeviceOffline, DeviceOnline, vars
<1> QED
  BY <1>5, <1>6, <1>7, <1>8, <1>9, <1>10 DEF Next, CalleeStep

(* What a handler that holds a wrapper has in hand. *)
LEMMA HeldWrapper ==
  ASSUME TypeInv, NEW a \in Actors, job[a].st \in {"found", "bound", "erased"}
  PROVE  job[a].c \in Connects /\ job[a].d \in Devices /\ job[a].w \in Wrappers /\ job[a].w # 0
  BY JobFacts, ConnectAssumption DEF Wrappers

(* A handler that holds a wrapper held it before. *)
LEMMA HeldBefore ==
  ASSUME CallsHold, NEW a \in Actors, job'[a].st \in {"found", "bound", "erased"}
  PROVE  Holds(job[a], job'[a]) /\ job[a].st \in {"found", "bound", "erased"}
  BY DEF CallsHold, HoldsNothing, Holds

LEMMA CallsHoldApart ==
  ASSUME TypeInv, NewApart, CallsHold
  PROVE  NewApart'
<1> SUFFICES ASSUME NEW a \in Actors, NEW b \in Actors, a # b, HoldsNew(job'[a])
             PROVE  ~SameWrapper(job'[a], job'[b])
  BY DEF NewApart, HoldsNew, SameWrapper
<1>1. Holds(job[a], job'[a]) /\ HoldsNew(job[a])
  BY HeldBefore DEF Holds, HoldsNew
<1>2. job[a].w # 0 /\ ~SameWrapper(job[a], job[b])
  BY <1>1, HeldWrapper DEF NewApart, HoldsNew
<1>3. HoldsNothing(job'[b]) \/ Holds(job[b], job'[b])
  BY DEF CallsHold
<1> QED
  BY <1>1, <1>2, <1>3 DEF Holds, HoldsNothing, SameWrapper

LEMMA OnlyCallsOwn ==
  ASSUME TypeInv, OwnInv, OnlyCalls
  PROVE  OwnInv'
<1>1. CallsHold /\ connectAbilityMap' = connectAbilityMap /\ amsConnections' = amsConnections
  BY DEF OnlyCalls
<1>2. NewApart'
  BY <1>1, CallsHoldApart DEF OwnInv
<1>3. NotRecorded'
  <2> SUFFICES ASSUME NEW a \in Actors, HoldsNew(job'[a]) \/ job'[a].st = "erased"
               PROVE  connectAbilityMap'[job'[a].d][job'[a].c] # job'[a].w
    BY DEF NotRecorded, HoldsNew
  <2>1. Holds(job[a], job'[a])
    BY <1>1, HeldBefore DEF HoldsNew
  <2>2. connectAbilityMap[job[a].d][job[a].c] # job[a].w
    BY <2>1 DEF OwnInv, NotRecorded, Holds, HoldsNew
  <2> QED
    BY <1>1, <2>1, <2>2 DEF Holds, SameWrapper
<1>4. NewBound'
  <2> SUFFICES ASSUME NEW a \in Actors, job'[a].st = "bound", ~job'[a].seen
               PROVE  <<job'[a].c, job'[a].w>> \in amsConnections'[job'[a].d]
    BY DEF NewBound
  <2>1. Holds(job[a], job'[a])
    BY <1>1, HeldBefore
  <2>2. <<job[a].c, job[a].w>> \in amsConnections[job[a].d]
    BY <2>1 DEF Holds, OwnInv, NewBound
  <2> QED
    BY <1>1, <2>1, <2>2 DEF Holds, SameWrapper
<1>5. RecordedIsBound'
  BY <1>1 DEF OwnInv, RecordedIsBound, Recorded
<1> QED
  BY <1>2, <1>3, <1>4, <1>5 DEF OwnInv

(* Devices forget and unbind together. *)
LEMMA EraseOwn ==
  ASSUME TypeInv, OwnInv, NEW e \in Devices, NEW C \in SUBSET Connects, EraseOnDevice(e, C),
         CallsHold
  PROVE  OwnInv'
<1>1. \A d \in Devices, c \in Connects :
         connectAbilityMap'[d][c] = IF d = e /\ c \in C THEN 0 ELSE connectAbilityMap[d][c]
  BY ErasesSome
<1>2. \A b : \A d \in Devices : b \in amsConnections[d] =>
         b \in amsConnections'[d] \/ (d = e /\ \E c \in C : b = <<c, connectAbilityMap[d][c]>>)
  <2>1. PICK U : U = {<<c, connectAbilityMap[e][c]>> : c \in C}
    OBVIOUS
  <2>2. amsConnections' = [amsConnections EXCEPT ![e] = amsConnections[e] \ U]
    BY <2>1 DEF EraseOnDevice
  <2>3. \A d \in Devices : amsConnections'[d] = IF d = e THEN amsConnections[e] \ U
                                                         ELSE amsConnections[d]
    BY <2>2 DEF TypeInv, TypeOK, CalleeTypes
  <2> QED
    BY <2>1, <2>3
<1>3. NewApart'
  BY CallsHoldApart DEF OwnInv
<1>4. NotRecorded'
  <2> SUFFICES ASSUME NEW a \in Actors, HoldsNew(job'[a]) \/ job'[a].st = "erased"
               PROVE  connectAbilityMap'[job'[a].d][job'[a].c] # job'[a].w
    BY DEF NotRecorded, HoldsNew
  <2>1. Holds(job[a], job'[a]) /\ job[a].st \in {"found", "bound", "erased"}
    BY HeldBefore DEF HoldsNew
  <2>2. connectAbilityMap[job[a].d][job[a].c] # job[a].w
    BY <2>1 DEF OwnInv, NotRecorded, Holds, HoldsNew
  <2>3. job[a].c \in Connects /\ job[a].d \in Devices /\ job[a].w # 0
    BY <2>1, HeldWrapper
  <2> QED
    BY <1>1, <2>1, <2>2, <2>3 DEF Holds, SameWrapper
<1>5. NewBound'
  <2> SUFFICES ASSUME NEW a \in Actors, job'[a].st = "bound", ~job'[a].seen
               PROVE  <<job'[a].c, job'[a].w>> \in amsConnections'[job'[a].d]
    BY DEF NewBound
  <2>1. Holds(job[a], job'[a]) /\ job[a].st \in {"found", "bound", "erased"}
    BY HeldBefore
  <2>2. /\ <<job[a].c, job[a].w>> \in amsConnections[job[a].d]
        /\ connectAbilityMap[job[a].d][job[a].c] # job[a].w
    BY <2>1 DEF Holds, OwnInv, NewBound, NotRecorded, HoldsNew
  <2>3. job[a].d \in Devices
    BY <2>1, HeldWrapper
  <2>4. <<job[a].c, job[a].w>> \in amsConnections'[job[a].d]
    BY <1>2, <2>2, <2>3
  <2> QED
    BY <2>1, <2>4 DEF Holds, SameWrapper
<1>6. RecordedIsBound'
  <2> SUFFICES ASSUME NEW d \in Devices, NEW c \in Connects, connectAbilityMap'[d][c] # 0
               PROVE  <<c, connectAbilityMap'[d][c]>> \in amsConnections'[d]
    BY DEF RecordedIsBound, Recorded
  <2>1. connectAbilityMap'[d][c] = connectAbilityMap[d][c] /\ ~(d = e /\ c \in C)
    BY <1>1
  <2>2. <<c, connectAbilityMap[d][c]>> \in amsConnections[d]
    BY <2>1 DEF OwnInv, RecordedIsBound, Recorded
  <2> QED
    BY <1>2, <2>1, <2>2
<1> QED
  BY <1>3, <1>4, <1>5, <1>6 DEF OwnInv

LEMMA ApartAfter ==
  ASSUME \A a, x \in Actors : a # x /\ HoldsNew(job'[a]) => ~SameWrapper(job'[a], job'[x])
  PROVE  NewApart'
<1> SUFFICES ASSUME NEW a \in Actors, NEW x \in Actors, a # x, HoldsNew(job[a])'
             PROVE  ~SameWrapper(job[a], job[x])'
  BY DEF NewApart
<1>1. HoldsNew(job'[a])
  BY DEF HoldsNew
<1>2. ~SameWrapper(job'[a], job'[x])
  BY <1>1
<1> QED
  BY <1>2 DEF SameWrapper

(* A handler takes no wrapper, its own, or the one on record: new ones stay apart. *)
LEMMA ApartKept ==
  ASSUME TypeInv, OwnInv, NEW b \in Actors, NEW i, job' = [job EXCEPT ![b] = i],
         i.w = 0 \/ SameWrapper(job[b], i) \/ i.w = connectAbilityMap[i.d][i.c],
         HoldsNew(i) => HoldsNew(job[b]) /\ SameWrapper(job[b], i)
  PROVE  NewApart'
<1>1. \A a \in Actors : job'[a] = IF a = b THEN i ELSE job[a]
  BY OneJob
<1>2. \A y \in Actors, z \in Actors : y # z /\ HoldsNew(job[y]) => ~SameWrapper(job[y], job[z])
  BY DEF OwnInv, NewApart
<1>3. ASSUME NEW a \in Actors, NEW x \in Actors, a # x, HoldsNew(job'[a])
      PROVE  ~SameWrapper(job'[a], job'[x])
  <2>1. CASE a = b
    BY <1>1, <1>2, <1>3, <2>1 DEF SameWrapper
  <2>2. CASE a # b /\ x # b
    BY <1>1, <1>2, <1>3, <2>2
  <2>3. CASE x = b
    <3>1. HoldsNew(job[a]) /\ job'[a] = job[a] /\ job'[x] = i
      BY <1>1, <1>3, <2>3
    <3>2. ~SameWrapper(job[a], job[b]) /\ connectAbilityMap[job[a].d][job[a].c] # job[a].w
      BY <1>2, <1>3, <2>3, <3>1 DEF OwnInv, NotRecorded
    <3>3. job[a].w # 0
      BY <3>1, HeldWrapper DEF HoldsNew
    <3> QED
      BY <3>1, <3>2, <3>3 DEF SameWrapper
  <2> QED
    BY <2>1, <2>2, <2>3
<1> QED
  BY <1>3, ApartAfter

LEMMA FindsOwn ==
  ASSUME TypeInv, OwnInv, NEW b \in Actors, ConnectAbilityFromRemoteFinds(b)
  PROVE  OwnInv'
<1>1. PICK c \in Connects, d \in Devices : c = job[b].c /\ d = job[b].d
  BY JobFacts DEF ConnectAbilityFromRemoteFinds
<1>2. UNCHANGED <<connectAbilityMap, amsConnections>>
  BY DEF ConnectAbilityFromRemoteFinds, calleeVars
<1>3. PICK i : /\ job' = [job EXCEPT ![b] = i] /\ i.c = c /\ i.d = d /\ i.st = "found"
               /\ \/ i.seen /\ i.w = connectAbilityMap[d][c]
                  \/ ~i.seen /\ i.w \in FreshWrappers(c, d)
  <2>1. CASE c \in Recorded(d)
    <3>1. PICK i : i = At(b, "found", connectAbilityMap[d][c], TRUE, FALSE)
      OBVIOUS
    <3>2. i.c = c /\ i.d = d /\ i.st = "found" /\ i.seen /\ i.w = connectAbilityMap[d][c]
      BY <1>1, <3>1 DEF At
    <3>3. job' = [job EXCEPT ![b] = i]
      BY <1>1, <2>1, <3>1 DEF ConnectAbilityFromRemoteFinds, Advance
    <3> QED
      BY <3>2, <3>3
  <2>2. CASE c \notin Recorded(d)
    <3>1. PICK w : w = CHOOSE v \in FreshWrappers(c, d) : TRUE
      OBVIOUS
    <3>2. PICK i : i = At(b, "found", w, FALSE, FALSE)
      OBVIOUS
    <3>3. i.c = c /\ i.d = d /\ i.st = "found" /\ ~i.seen /\ i.w = w
      BY <1>1, <3>2 DEF At
    <3>4. job' = [job EXCEPT ![b] = i]
      BY <1>1, <2>2, <3>1, <3>2 DEF ConnectAbilityFromRemoteFinds, Advance
    <3>5. FreshWrappers(c, d) # {}
      BY <1>1, <2>2 DEF ConnectAbilityFromRemoteFinds
    <3>6. w \in FreshWrappers(c, d)
      BY <3>1, <3>5
    <3> QED
      BY <3>3, <3>4, <3>6
  <2> QED
    BY <2>1, <2>2
<1>4. \A a \in Actors : job'[a] = IF a = b THEN i ELSE job[a]
  BY <1>3, OneJob
<1>5. ~i.seen => /\ connectAbilityMap[d][c] # i.w
                 /\ \A a \in Actors : ~SameWrapper(i, job[a])
  BY <1>3 DEF FreshWrappers, SameWrapper
<1>6. NewApart'
  <2>1. CASE i.seen
    BY <1>3, <2>1, ApartKept DEF HoldsNew
  <2>2. CASE ~i.seen
    <3> SUFFICES ASSUME NEW a \in Actors, NEW x \in Actors, a # x, HoldsNew(job'[a])
                 PROVE  ~SameWrapper(job'[a], job'[x])
      BY ApartAfter
    <3>1. HoldsNew(job[a]) => ~SameWrapper(job[a], job[x])
      BY DEF OwnInv, NewApart
    <3> QED
      BY <1>4, <1>5, <2>2, <3>1 DEF SameWrapper
  <2> QED
    BY <2>1, <2>2
<1>7. NotRecorded'
  <2> SUFFICES ASSUME NEW a \in Actors, HoldsNew(job'[a]) \/ job'[a].st = "erased"
               PROVE  connectAbilityMap'[job'[a].d][job'[a].c] # job'[a].w
    BY DEF NotRecorded, HoldsNew
  <2>1. CASE a = b
    BY <1>2, <1>3, <1>4, <1>5, <2>1 DEF HoldsNew
  <2>2. CASE a # b
    BY <1>2, <1>4, <2>2 DEF OwnInv, NotRecorded
  <2> QED
    BY <2>1, <2>2
<1>8. NewBound'
  <2> SUFFICES ASSUME NEW a \in Actors, job'[a].st = "bound", ~job'[a].seen
               PROVE  <<job'[a].c, job'[a].w>> \in amsConnections'[job'[a].d]
    BY DEF NewBound
  <2>1. a # b /\ job'[a] = job[a]
    BY <1>3, <1>4
  <2> QED
    BY <1>2, <2>1 DEF OwnInv, NewBound
<1>9. RecordedIsBound'
  BY <1>2 DEF OwnInv, RecordedIsBound, Recorded
<1> QED
  BY <1>6, <1>7, <1>8, <1>9 DEF OwnInv

LEMMA AmsConnectOwn ==
  ASSUME TypeInv, OwnInv, NEW b \in Actors, AmsConnectAbility(b)
  PROVE  OwnInv'
<1>1. PICK c \in Connects, d \in Devices : c = job[b].c /\ d = job[b].d
  BY JobFacts DEF AmsConnectAbility
<1>2. PICK i : i = At(b, "bound", job[b].w, job[b].seen, FALSE)
  OBVIOUS
<1>3. i.c = c /\ i.d = d /\ i.st = "bound" /\ i.w = job[b].w /\ i.seen = job[b].seen
  BY <1>1, <1>2 DEF At
<1>4. job' = [job EXCEPT ![b] = i] /\ connectAbilityMap' = connectAbilityMap /\ job[b].st = "found"
  BY <1>2 DEF AmsConnectAbility, Advance
<1>5. \A e \in Devices : amsConnections'[e] =
         IF e = d THEN amsConnections[e] \cup {<<c, job[b].w>>} ELSE amsConnections[e]
  BY <1>1 DEF AmsConnectAbility, TypeInv, TypeOK, CalleeTypes
<1>6. \A a \in Actors : job'[a] = IF a = b THEN i ELSE job[a]
  BY <1>4, OneJob
<1>7. NewApart'
  BY <1>1, <1>3, <1>4, ApartKept DEF HoldsNew, SameWrapper
<1>8. NotRecorded'
  <2> SUFFICES ASSUME NEW a \in Actors, HoldsNew(job'[a]) \/ job'[a].st = "erased"
               PROVE  connectAbilityMap'[job'[a].d][job'[a].c] # job'[a].w
    BY DEF NotRecorded, HoldsNew
  <2>1. HoldsNew(job[a]) \/ job[a].st = "erased"
    BY <1>3, <1>4, <1>6 DEF HoldsNew
  <2>2. connectAbilityMap[job[a].d][job[a].c] # job[a].w
    BY <2>1 DEF OwnInv, NotRecorded
  <2> QED
    BY <1>1, <1>3, <1>4, <1>6, <2>2
<1>9. NewBound'
  <2> SUFFICES ASSUME NEW a \in Actors, job'[a].st = "bound", ~job'[a].seen
               PROVE  <<job'[a].c, job'[a].w>> \in amsConnections'[job'[a].d]
    BY DEF NewBound
  <2>1. CASE a = b
    BY <1>1, <1>3, <1>5, <1>6, <2>1
  <2>2. CASE a # b
    <3>1. job'[a] = job[a] /\ job[a].d \in Devices
      BY <1>6, <2>2, HeldWrapper
    <3>2. <<job[a].c, job[a].w>> \in amsConnections[job[a].d]
      BY <3>1 DEF OwnInv, NewBound
    <3> QED
      BY <1>5, <3>1, <3>2
  <2> QED
    BY <2>1, <2>2
<1>10. RecordedIsBound'
  <2> SUFFICES ASSUME NEW e \in Devices, NEW x \in Connects, connectAbilityMap'[e][x] # 0
               PROVE  <<x, connectAbilityMap'[e][x]>> \in amsConnections'[e]
    BY DEF RecordedIsBound, Recorded
  <2>1. <<x, connectAbilityMap[e][x]>> \in amsConnections[e]
    BY <1>4 DEF OwnInv, RecordedIsBound, Recorded
  <2> QED
    BY <1>4, <1>5, <2>1
<1> QED
  BY <1>7, <1>8, <1>9, <1>10 DEF OwnInv

LEMMA RecordsOwn ==
  ASSUME TypeInv, OwnInv, NEW b \in Actors, ConnectAbilityFromRemoteRecords(b)
  PROVE  OwnInv'
<1>1. PICK i : i = Done(b, TRUE)
  OBVIOUS
<1>2. HoldsNothing(i) /\ job' = [job EXCEPT ![b] = i] /\ amsConnections' = amsConnections
      /\ job[b].st = "bound"
  BY <1>1, DoneHoldsNothing DEF ConnectAbilityFromRemoteRecords, Advance
<1>3. \A a \in Actors : job'[a] = IF a = b THEN i ELSE job[a]
  BY <1>2, OneJob
<1>4. \A c \in Connects, d \in Devices :
         \/ connectAbilityMap'[d][c] = connectAbilityMap[d][c]
         \/ /\ c = job[b].c /\ d = job[b].d /\ HoldsNew(job[b])
            /\ connectAbilityMap'[d][c] = job[b].w
  BY <1>2, RecordsOne DEF HoldsNew
<1>5. NewApart'
  BY <1>2, ApartKept DEF HoldsNothing, HoldsNew
<1>6. ASSUME NEW a \in Actors, job'[a].st \in {"found", "bound", "erased"}
      PROVE  a # b /\ job'[a] = job[a] /\ job[a].c \in Connects /\ job[a].d \in Devices
  BY <1>2, <1>3, <1>6, HeldWrapper DEF HoldsNothing
<1>7. NotRecorded'
  <2> SUFFICES ASSUME NEW a \in Actors, HoldsNew(job'[a]) \/ job'[a].st = "erased"
               PROVE  connectAbilityMap'[job'[a].d][job'[a].c] # job'[a].w
    BY DEF NotRecorded, HoldsNew
  <2>1. a # b /\ job'[a] = job[a] /\ job[a].c \in Connects /\ job[a].d \in Devices
    BY <1>6 DEF HoldsNew
  <2>2. connectAbilityMap[job[a].d][job[a].c] # job[a].w
    BY <2>1 DEF OwnInv, NotRecorded
  <2>3. HoldsNew(job[b]) => ~SameWrapper(job[b], job[a])
    BY <2>1 DEF OwnInv, NewApart
  <2> QED
    BY <1>4, <2>1, <2>2, <2>3 DEF SameWrapper
<1>8. NewBound'
  <2> SUFFICES ASSUME NEW a \in Actors, job'[a].st = "bound", ~job'[a].seen
               PROVE  <<job'[a].c, job'[a].w>> \in amsConnections'[job'[a].d]
    BY DEF NewBound
  <2>1. job'[a] = job[a]
    BY <1>6
  <2> QED
    BY <1>2, <2>1 DEF OwnInv, NewBound
<1>9. RecordedIsBound'
  <2> SUFFICES ASSUME NEW e \in Devices, NEW x \in Connects, connectAbilityMap'[e][x] # 0
               PROVE  <<x, connectAbilityMap'[e][x]>> \in amsConnections'[e]
    BY DEF RecordedIsBound, Recorded
  <2>1. CASE connectAbilityMap'[e][x] = connectAbilityMap[e][x]
    BY <1>2, <2>1 DEF OwnInv, RecordedIsBound, Recorded
  <2>2. CASE /\ x = job[b].c /\ e = job[b].d /\ HoldsNew(job[b])
             /\ connectAbilityMap'[e][x] = job[b].w
    BY <1>2, <2>2 DEF OwnInv, NewBound, HoldsNew
  <2> QED
    BY <1>4, <2>1, <2>2
<1> QED
  BY <1>5, <1>7, <1>8, <1>9 DEF OwnInv

LEMMA DisconnectOwn ==
  ASSUME TypeInv, OwnInv, NEW b \in Actors, DisconnectAbilityFromRemote(b)
  PROVE  OwnInv'
<1>1. PICK c \in Connects, d \in Devices : c = job[b].c /\ d = job[b].d
  BY JobFacts DEF DisconnectAbilityFromRemote
<1>2. amsConnections' = amsConnections
  BY DEF DisconnectAbilityFromRemote
<1>3. CASE c \notin Recorded(d)
  <2>1. connectAbilityMap' = connectAbilityMap /\ job' = [job EXCEPT ![b] = Done(b, FALSE)]
    BY <1>1, <1>3 DEF DisconnectAbilityFromRemote, Advance
  <2>2. OnlyCalls
    BY <1>2, <2>1, DoneHoldsNothing, OthersHold DEF OnlyCalls
  <2> QED
    BY <2>2, OnlyCallsOwn
<1>4. CASE c \in Recorded(d)
  <2>1. PICK i : i = At(b, "erased", connectAbilityMap[d][c], FALSE, FALSE)
    OBVIOUS
  <2>2. i.c = c /\ i.d = d /\ i.st = "erased" /\ i.w = connectAbilityMap[d][c] /\ i.w # 0
    BY <1>1, <1>4, <2>1 DEF At, Recorded
  <2>3. job' = [job EXCEPT ![b] = i]
    BY <1>1, <1>4, <2>1 DEF DisconnectAbilityFromRemote, Advance
  <2>4. \A a \in Actors : job'[a] = IF a = b THEN i ELSE job[a]
    BY <2>3, OneJob
  <2>5. \A x \in Connects, e \in Devices :
           connectAbilityMap'[e][x] = IF x = c /\ e = d THEN 0 ELSE connectAbilityMap[e][x]
    BY <1>1, DisconnectsOne
  <2>6. NewApart'
    BY <2>2, <2>3, ApartKept DEF HoldsNew
  <2>7. NotRecorded'
    <3> SUFFICES ASSUME NEW a \in Actors, HoldsNew(job'[a]) \/ job'[a].st = "erased"
                 PROVE  connectAbilityMap'[job'[a].d][job'[a].c] # job'[a].w
      BY DEF NotRecorded, HoldsNew
    <3>1. CASE a = b
      BY <2>2, <2>4, <2>5, <3>1
    <3>2. CASE a # b
      <4>1. job'[a] = job[a]
        BY <2>4, <3>2
      <4>2. connectAbilityMap[job[a].d][job[a].c] # job[a].w
        BY <4>1 DEF OwnInv, NotRecorded
      <4>3. job[a].c \in Connects /\ job[a].d \in Devices /\ job[a].w # 0
        BY <4>1, HeldWrapper DEF HoldsNew
      <4> QED
        BY <2>5, <4>1, <4>2, <4>3
    <3> QED
      BY <3>1, <3>2
  <2>8. NewBound'
    <3> SUFFICES ASSUME NEW a \in Actors, job'[a].st = "bound", ~job'[a].seen
                 PROVE  <<job'[a].c, job'[a].w>> \in amsConnections'[job'[a].d]
      BY DEF NewBound
    <3>1. job'[a] = job[a]
      BY <2>2, <2>4
    <3> QED
      BY <1>2, <3>1 DEF OwnInv, NewBound
  <2>9. RecordedIsBound'
    <3> SUFFICES ASSUME NEW e \in Devices, NEW x \in Connects, connectAbilityMap'[e][x] # 0
                 PROVE  <<x, connectAbilityMap'[e][x]>> \in amsConnections'[e]
      BY DEF RecordedIsBound, Recorded
    <3>1. connectAbilityMap'[e][x] = connectAbilityMap[e][x]
      BY <2>5
    <3> QED
      BY <1>2, <3>1 DEF OwnInv, RecordedIsBound, Recorded
  <2> QED
    BY <2>6, <2>7, <2>8, <2>9 DEF OwnInv
<1> QED
  BY <1>3, <1>4

LEMMA AmsDisconnectOwn ==
  ASSUME TypeInv, OwnInv, NEW b \in Actors, AmsDisconnectAbility(b)
  PROVE  OwnInv'
<1>1. PICK i : i = Done(b, TRUE)
  OBVIOUS
<1>2. HoldsNothing(i) /\ job' = [job EXCEPT ![b] = i] /\ connectAbilityMap' = connectAbilityMap
      /\ job[b].st = "erased"
  BY <1>1, DoneHoldsNothing DEF AmsDisconnectAbility, Advance
<1>3. \A a \in Actors : job'[a] = IF a = b THEN i ELSE job[a]
  BY <1>2, OneJob
<1>4. \A e \in Devices : amsConnections'[e] =
         IF e = job[b].d THEN amsConnections[e] \ {<<job[b].c, job[b].w>>} ELSE amsConnections[e]
  BY DEF AmsDisconnectAbility, TypeInv, TypeOK, CalleeTypes
<1>5. NewApart'
  BY <1>2, ApartKept DEF HoldsNothing, HoldsNew
<1>6. NotRecorded'
  <2> SUFFICES ASSUME NEW a \in Actors, HoldsNew(job'[a]) \/ job'[a].st = "erased"
               PROVE  connectAbilityMap'[job'[a].d][job'[a].c] # job'[a].w
    BY DEF NotRecorded, HoldsNew
  <2>1. job'[a] = job[a]
    BY <1>2, <1>3 DEF HoldsNothing, HoldsNew
  <2> QED
    BY <1>2, <2>1 DEF OwnInv, NotRecorded
<1>7. NewBound'
  <2> SUFFICES ASSUME NEW a \in Actors, job'[a].st = "bound", ~job'[a].seen
               PROVE  <<job'[a].c, job'[a].w>> \in amsConnections'[job'[a].d]
    BY DEF NewBound
  <2>1. a # b /\ job'[a] = job[a]
    BY <1>2, <1>3 DEF HoldsNothing
  <2>2. HoldsNew(job[a]) /\ job[a].d \in Devices
    BY <2>1, HeldWrapper DEF HoldsNew
  <2>3. ~SameWrapper(job[a], job[b])
    BY <2>1, <2>2 DEF OwnInv, NewApart
  <2>4. <<job[a].c, job[a].w>> \in amsConnections[job[a].d]
    BY <2>1 DEF OwnInv, NewBound
  <2> QED
    BY <1>4, <2>1, <2>2, <2>3, <2>4 DEF SameWrapper
<1>8. RecordedIsBound'
  <2> SUFFICES ASSUME NEW e \in Devices, NEW x \in Connects, connectAbilityMap'[e][x] # 0
               PROVE  <<x, connectAbilityMap'[e][x]>> \in amsConnections'[e]
    BY DEF RecordedIsBound, Recorded
  <2>1. <<x, connectAbilityMap[e][x]>> \in amsConnections[e]
    BY <1>2 DEF OwnInv, RecordedIsBound, Recorded
  <2>2. connectAbilityMap[job[b].d][job[b].c] # job[b].w
    BY <1>2 DEF OwnInv, NotRecorded
  <2> QED
    BY <1>2, <1>4, <2>1, <2>2
<1> QED
  BY <1>5, <1>6, <1>7, <1>8 DEF OwnInv

LEMMA NextOwnInv == TypeInv /\ OwnInv /\ [Next]_vars => OwnInv'
<1> SUFFICES ASSUME TypeInv, OwnInv, [Next]_vars PROVE OwnInv'
  OBVIOUS
<1>1. ASSUME NEW a \in Actors, NotifyProcessDiedFromRemote(a) PROVE OwnInv'
  <2>1. /\ job[a].d \in Devices /\ SameCaller(job[a].c) \in SUBSET Connects
        /\ EraseOnDevice(job[a].d, SameCaller(job[a].c))
    BY <1>1, JobFacts DEF NotifyProcessDiedFromRemote, SameCaller, ConnectsOf
  <2>2. CallsHold
    BY <1>1, DoneHoldsNothing, OthersHold DEF NotifyProcessDiedFromRemote, Advance
  <2> QED
    BY <2>1, <2>2, EraseOwn
<1>2. ASSUME NEW d \in Devices, RemoteProcessDeviceOffline(d) PROVE OwnInv'
  <2>1. EraseOnDevice(d, Connects) /\ job' = job /\ Connects \in SUBSET Connects
    BY <1>2 DEF RemoteProcessDeviceOffline
  <2>2. CallsHold
    BY <2>1 DEF CallsHold, Holds, SameWrapper
  <2> QED
    BY <2>1, <2>2, EraseOwn
<1> QED
  BY <1>1, <1>2, OnlyCallsOwn, FindsOwn, AmsConnectOwn, RecordsOwn, DisconnectOwn,
     AmsDisconnectOwn, WrapperSteps

LEMMA InitOwnInv == Init => OwnInv
<1> SUFFICES ASSUME Init PROVE OwnInv
  OBVIOUS
<1>1. \A a \in Actors : job[a].st = "none"
  BY DEF Init, NoJob
<1> QED
  BY <1>1 DEF Init, OwnInv, NewApart, NotRecorded, NewBound, HoldsNew, RecordedIsBound, Recorded

(* Whatever connectAbilityMap_ records for a connect is bound with the AMS, although *)
(* connectLock_ is released around every call of the AMS: the wrapper that one       *)
(* handler is about to record is in no other handler's hands, and one that is being  *)
(* unbound is off the record already.                                                *)
THEOREM RecordedCorrect == Spec => []RecordedIsBound
<1>1. OwnInv => RecordedIsBound
  BY DEF OwnInv
<1> QED
  BY <1>1, InitTypeInv, NextTypeInv, InitOwnInv, NextOwnInv, PTL DEF Spec

-----------------------------------------------------------------------------
(* The two ends agree, where an application uses a connect in one call at a *)
(* time, remote calls do not time out and no device goes offline.           *)

(* What the thread a is making, the call x, is what its handler j serves, and *)
(* the handler's reply is awaited.                                            *)
Fits(x, j) ==
    /\ j.st # "none" => j.awaited
    /\ j.st # "none" /\ x.op = "connect" => j.kind = "connect"
    /\ j.st # "none" /\ x.op = "disconnect" => j.kind = "disconnect"
    /\ j.st # "none" /\ x.op = "notify" => j.kind = "died"
    /\ j.st \in {"found", "bound"} => x.op = "connect"
    /\ j.st = "erased" => x.op = "disconnect"
(* Only the handler thread tells of a death, and of nothing else. *)
Roles ==
    /\ act[Handler].op \in {"idle", "notify"}
    /\ \A t \in Threads : act[t].op # "notify"
Alone ==
    \A s, t \in Threads : s # t /\ act[s].op # "idle" /\ act[t].op # "idle" => act[s].c # act[t].c

(* No device goes offline: its clean-up is never begun. *)
NetworkInv ==
    /\ \A d \in Devices : online[d] /\ ~remoteOfflineTask[d]
    /\ \A d \in Devices : ~Queued(dmsAdapterHandler, OfflineTask(d))
(* Only the dead are told to be dead. *)
DeadInv ==
    /\ \A c \in Connects : Queued(dmsAdapterHandler, DiedTask(c)) => ~alive[Owner[c]]
    /\ act[Handler].op = "notify" => ~alive[Owner[act[Handler].c]]

SteadyInv ==
    /\ \A a \in Actors : Fits(act[a], job[a])
    /\ Roles /\ Alone
    /\ NetworkInv /\ DeadInv

(* The reply to a connect is on its way to the caller's table; ... *)
Answers(x, j, c, d) ==
    x.op = "connect" /\ j.st = "replied" /\ j.ok /\ j.c = c /\ j.d = d
(* ... a device has still to be told of a disconnect, ... *)
Releases(x, j, c, d) ==
    /\ x.op = "disconnect" /\ x.c = c /\ d \in x.todo
    /\ ~ (j.st \in {"erased", "replied"} /\ j.d = d)
(* ... or of a death. *)
Buries(x, j, c, d) ==
    /\ x.op = "notify" /\ Owner[x.c] = Owner[c] /\ d \in x.todo
    /\ ~ (j.st = "replied" /\ j.d = d)
Settles(x, j, c, d) == Answers(x, j, c, d) \/ Releases(x, j, c, d) \/ Buries(x, j, c, d)

(* A record has a session, or a call that will give it one or end it; ... *)
RecordHasSession ==
    \A c \in Connects, d \in Devices : c \in Recorded(d) =>
        \/ d \in distributedConnectAbilityMap[c]
        \/ \E a \in Actors : Settles(act[a], job[a], c, d)
(* ... and a session of a live process has a record. *)
SessionHasRecord ==
    \A c \in Connects, d \in Devices :
        d \in distributedConnectAbilityMap[c] /\ alive[Owner[c]] => c \in Recorded(d)

(* What a handler that connects knows of the table it is about to change. *)
Knows(x, j) ==
    /\ j.st \in {"found", "bound"} /\ j.seen /\ alive[Owner[j.c]]
          => connectAbilityMap[j.d][j.c] = j.w
    /\ j.st \in {"found", "bound"} /\ ~j.seen => j.c \notin Recorded(j.d)
    /\ x.op = "connect" /\ j.st = "replied" /\ j.ok /\ alive[Owner[j.c]] => j.c \in Recorded(j.d)
ConnectsKnow == \A a \in Actors : Knows(act[a], job[a])

(* Who disconnects has no session any more. *)
DisconnectedInv ==
    \A t \in Threads : act[t].op = "disconnect" => distributedConnectAbilityMap[act[t].c] = {}

(* The wrapper w of c is in the hands of a handler that will record or unbind it. *)
Keeps(j, c, d, w) ==
    /\ j.c = c /\ j.d = d /\ j.w = w
    /\ (j.st = "bound" /\ ~j.seen) \/ j.st = "erased"
(* A wrapper that is bound for a live process is on record, or about to be, or *)
(* about to be unbound.                                                        *)
BoundIsKnown ==
    \A c \in Connects, d \in Devices, w \in Wrappers :
        <<c, w>> \in amsConnections[d] /\ alive[Owner[c]] =>
            connectAbilityMap[d][c] = w \/ \E a \in Actors : Keeps(job[a], c, d, w)

EndsInv ==
    /\ RecordHasSession /\ SessionHasRecord /\ ConnectsKnow /\ DisconnectedInv
    /\ BoundIsKnown /\ CalleeReportsAgree

Steady == Serial /\ ~RpcTimeouts /\ MaxDowns = 0

(* What can happen without a device going offline. *)
LEMMA SteadySteps ==
  ASSUME Steady, TypeInv, NetworkInv, [Next]_vars
  PROVE  \/ UNCHANGED vars
         \/ \E t \in Threads, c \in Connects :
               \/ DisconnectRemoteAbility(t, c)
               \/ \E d \in Devices : ConnectRemoteAbility(t, c, d)
         \/ \E t \in Threads :
               SendConnect(t) \/ ConnectSucceeds(t) \/ ConnectRefused(t) \/ ConnectGivesUp(t)
         \/ \E a \in Actors :
               CallNextDevice(a) \/ CallReturns(a) \/ CallsDone(a) \/ CalleeStep(a)
         \/ \E c \in Connects : ProcessConnectDied(c) \/ OnRemoteDied(c)
         \/ \E p \in Processes : ProcessDies(p)
<1>1. \A a \in Actors : act[a] \in Activity /\ job[a] \in Job /\ CallOK(act[a], job[a])
  BY DEF TypeInv, TypeOK, CallTypes, CallsOK
<1>2. \A t \in Threads : t \in Actors /\ ~SendConnectFails(t)
  BY <1>1 DEF SendConnectFails, NetworkInv, Actors, Activity
<1>3. \A a \in Actors : ~SkipOfflineDevice(a)
  BY <1>1 DEF SkipOfflineDevice, NetworkInv, Activity
<1>4. \A a \in Actors : ~RemoteCallFails(a)
  BY <1>1 DEF RemoteCallFails, NetworkInv, CallOK, Steady
<1>5. \A d \in Devices : ~RemoteProcessDeviceOffline(d) /\ ~DeviceOnline(d)
  BY DEF RemoteProcessDeviceOffline, DeviceOnline, NetworkInv
<1>6. \A d \in Devices : ~DeviceOffline(d)
  BY DEF DeviceOffline, Steady, TypeInv, TypeOK, WorldTypes
<1>7. \A d \in Devices : ~ProcessDeviceOffline(d)
  <2> SUFFICES ASSUME NEW d \in Devices, ProcessDeviceOffline(d) PROVE FALSE
    OBVIOUS
  <2>1. dmsAdapterHandler \in Seq(Tasks) /\ dmsAdapterHandler # << >>
        /\ Head(dmsAdapterHandler) = OfflineTask(d)
    BY DEF ProcessDeviceOffline, NextTask, TypeInv, TypeOK
  <2>2. PICK n \in Nat : n = Len(dmsAdapterHandler)
    BY <2>1, LenProperties
  <2>3. n # 0
    BY <2>1, <2>2, EmptySeq
  <2>4. 1 \in 1..Len(dmsAdapterHandler) /\ dmsAdapterHandler[1] = OfflineTask(d)
    BY <2>1, <2>2, <2>3
  <2> QED
    BY <2>4 DEF NetworkInv, Queued
<1> QED
  BY <1>2, <1>3, <1>4, <1>5, <1>6, <1>7 DEF Next, ConnectStep, CallsStep, HandlerStep

(* One call goes on: as the call y, served by the handler i. *)
Moves(b, y, i) == act' = [act EXCEPT ![b] = y] /\ job' = [job EXCEPT ![b] = i]

LEMMA OneMoves ==
  ASSUME TypeInv, NEW b \in Actors, NEW y, NEW i, Moves(b, y, i), NEW a \in Actors
  PROVE  /\ act'[a] = IF a = b THEN y ELSE act[a]
         /\ job'[a] = IF a = b THEN i ELSE job[a]
  BY DEF Moves, TypeInv, TypeOK, CallTypes

LEMMA JobMoves ==
  ASSUME TypeInv, NEW b \in Actors, NEW i, act' = act, job' = [job EXCEPT ![b] = i]
  PROVE  Moves(b, act[b], i)
<1>1. act' = [act EXCEPT ![b] = act[b]]
  BY DEF TypeInv, TypeOK, CallTypes
<1> QED
  BY <1>1 DEF Moves

LEMMA ActMoves ==
  ASSUME TypeInv, NEW b \in Actors, NEW y, job' = job, act' = [act EXCEPT ![b] = y]
  PROVE  Moves(b, y, job[b])
<1>1. job' = [job EXCEPT ![b] = job[b]]
  BY DEF TypeInv, TypeOK, CallTypes
<1> QED
  BY <1>1 DEF Moves

(* A thread that makes no call has no handler at work. *)
LEMMA IdleHasNoHandler ==
  ASSUME TypeInv, SteadyInv, NEW a \in Actors, act[a].op = "idle"
  PROVE  job[a].st = "none"
<1>1. CallOK(act[a], job[a]) /\ Fits(act[a], job[a])
  BY DEF TypeInv, CallsOK, SteadyInv
<1> QED
  BY <1>1 DEF CallOK, Fits

(* A call that begins or goes on, for a connect no other thread is using, while *)
(* nothing else happens.                                                        *)
LEMMA SteadyKept ==
  ASSUME TypeInv, SteadyInv, NEW b \in Actors, NEW y, NEW i, Moves(b, y, i), Fits(y, i),
         UNCHANGED <<online, remoteOfflineTask, alive, dmsAdapterHandler>>,
         \/ y.op = "idle"
         \/ y.op = act[b].op /\ y.c = act[b].c
         \/ /\ b \in Threads /\ y.op \in {"connect", "disconnect"}
            /\ \A t \in Threads : act[t].op # "idle" => act[t].c # y.c
  PROVE  SteadyInv'
<1>1. \A a \in Actors : /\ act'[a] = IF a = b THEN y ELSE act[a]
                        /\ job'[a] = IF a = b THEN i ELSE job[a]
  BY OneMoves
<1>2. (\A t \in Threads : t \in Actors) /\ Handler \in Actors /\ Handler \notin Threads
  BY ConnectAssumption DEF Actors
<1>3. \A a \in Actors : Fits(act'[a], job'[a])
  BY <1>1 DEF SteadyInv
<1>4. Roles'
  BY <1>1, <1>2 DEF SteadyInv, Roles
<1>5. Alone'
  BY <1>1, <1>2 DEF SteadyInv, Roles, Alone
<1>6. NetworkInv'
  BY DEF SteadyInv, NetworkInv
<1>7. DeadInv'
  BY <1>1, <1>2 DEF SteadyInv, DeadInv
<1> QED
  BY <1>3, <1>4, <1>5, <1>6, <1>7 DEF SteadyInv, Fits

-----------------------------------------------------------------------------
(* Steps that change no table. *)

ends == <<distributedConnectAbilityMap, connectAbilityMap, amsConnections, calleeReports>>

(* The call of b goes on, for a connect no other thread is using; what it has to *)
(* settle it has still to settle, and no wrapper leaves its hands.               *)
TalksOn(b, y, i) ==
    /\ Moves(b, y, i)
    /\ UNCHANGED <<ends, online, remoteOfflineTask, alive, dmsAdapterHandler>>
    /\ Fits(y, i) /\ Knows(y, i)
    /\ \A c \in Connects, d \in Devices : Settles(act[b], job[b], c, d) => Settles(y, i, c, d)
    /\ job[b].st \notin {"bound", "erased"}
    /\ \/ y.op = "idle"
       \/ y.op = act[b].op /\ y.c = act[b].c
       \/ /\ b \in Threads /\ y.op = "connect"
          /\ \A t \in Threads : act[t].op # "idle" => act[t].c # y.c

LEMMA CallFits ==
  ASSUME TypeInv, SteadyInv, EndsInv, NEW a \in Actors
  PROVE  /\ act[a] \in Activity /\ job[a] \in Job
         /\ CallOK(act[a], job[a]) /\ Fits(act[a], job[a]) /\ Knows(act[a], job[a])
  BY DEF TypeInv, TypeOK, CallTypes, CallsOK, SteadyInv, EndsInv, ConnectsKnow

(* A call without a handler knows nothing, and settles what it is to tell. *)
LEMMA NoHandlerFits ==
  ASSUME NEW y, NEW i, i.st = "none"
  PROVE  /\ Fits(y, i) /\ Knows(y, i)
         /\ \A c, d : Settles(y, i, c, d) <=>
               d \in y.todo /\ \/ y.op = "disconnect" /\ y.c = c
                               \/ y.op = "notify" /\ Owner[y.c] = Owner[c]
  BY DEF Fits, Knows, Settles, Answers, Releases, Buries

LEMMA NoJobFields == NoJob.st = "none" /\ ~NoJob.awaited
  BY DEF NoJob

LEMMA IdleFields == Idle.op = "idle" /\ Idle.todo = {}
  BY DEF Idle

LEMMA ConnectRemoteAbilityTalks ==
  ASSUME Steady, TypeInv, SteadyInv, EndsInv,
         NEW t \in Threads, NEW c \in Connects, NEW d \in Devices, ConnectRemoteAbility(t, c, d)
  PROVE  \E b \in Actors : \E y, i : TalksOn(b, y, i)
<1>1. t \in Actors /\ act[t].op = "idle"
  BY DEF Actors, ConnectRemoteAbility, MayCall
<1>2. job[t].st = "none"
  BY <1>1, IdleHasNoHandler
<1>3. PICK y : y = [op |-> "connect", c |-> c, todo |-> {d}, tries |-> RetryTimes]
  OBVIOUS
<1>4. y.op = "connect" /\ y.c = c
  BY <1>3
<1>5. Moves(t, y, job[t])
  BY <1>1, <1>3, ActMoves DEF ConnectRemoteAbility
<1>6. \A s \in Threads : act[s].op # "idle" => act[s].c # c
  BY DEF ConnectRemoteAbility, MayCall, InUse, Steady
<1>7. UNCHANGED <<ends, online, remoteOfflineTask, alive, dmsAdapterHandler>>
  BY DEF ConnectRemoteAbility, ends, callerVars, calleeVars, WorldUnchanged, worldVars
<1>8. Fits(y, job[t]) /\ Knows(y, job[t])
  BY <1>2, NoHandlerFits
<1>9. \A x \in Connects, e \in Devices : ~Settles(act[t], job[t], x, e)
  BY <1>1, <1>2, NoHandlerFits
<1> QED
  BY <1>1, <1>2, <1>4, <1>5, <1>6, <1>7, <1>8, <1>9 DEF TalksOn

LEMMA SendConnectTalks ==
  ASSUME TypeInv, SteadyInv, EndsInv, NEW t \in Threads, SendConnect(t)
  PROVE  \E b \in Actors : \E y, i : TalksOn(b, y, i)
<1>1. t \in Actors /\ act[t].op = "connect" /\ job[t].st = "none"
  BY DEF Actors, SendConnect
<1>2. act[t] \in Activity
  BY <1>1, CallFits
<1>3. PICK y : y = [act[t] EXCEPT !.tries = @ - 1]
  OBVIOUS
<1>4. y.op = "connect" /\ y.c = act[t].c
  BY <1>1, <1>2, <1>3 DEF Activity
<1>5. PICK d \in act[t].todo : job' = [job EXCEPT ![t] = Call("connect", act[t].c, d)]
  BY DEF SendConnect
<1>6. PICK i : i = Call("connect", act[t].c, d)
  OBVIOUS
<1>7. i.st = "arrived" /\ i.kind = "connect" /\ i.awaited
  BY <1>6 DEF Call
<1>8. Moves(t, y, i)
  BY <1>3, <1>5, <1>6 DEF SendConnect, Moves
<1>9. UNCHANGED <<ends, online, remoteOfflineTask, alive, dmsAdapterHandler>>
  BY DEF SendConnect, ends, callerVars, calleeVars, WorldUnchanged, worldVars
<1>10. Fits(y, i) /\ Knows(y, i)
  BY <1>4, <1>7 DEF Fits, Knows
<1>11. \A x \in Connects, e \in Devices : ~Settles(act[t], job[t], x, e)
  BY <1>1, NoHandlerFits
<1> QED
  BY <1>1, <1>4, <1>8, <1>9, <1>10, <1>11 DEF TalksOn

LEMMA ConnectRefusedTalks ==
  ASSUME TypeInv, SteadyInv, EndsInv, NEW t \in Threads, ConnectRefused(t)
  PROVE  \E b \in Actors : \E y, i : TalksOn(b, y, i)
<1>1. t \in Actors /\ act[t].op = "connect" /\ job[t].st = "replied" /\ ~job[t].ok
  BY DEF Actors, ConnectRefused
<1>2. PICK i : i = NoJob
  OBVIOUS
<1>3. i.st = "none"
  BY <1>2, NoJobFields
<1>4. Moves(t, act[t], i)
  BY <1>1, <1>2, JobMoves DEF ConnectRefused
<1>5. UNCHANGED <<ends, online, remoteOfflineTask, alive, dmsAdapterHandler>>
  BY DEF ConnectRefused, ends, callerVars, calleeVars, WorldUnchanged, worldVars
<1>6. Fits(act[t], i) /\ Knows(act[t], i)
  BY <1>3, NoHandlerFits
<1>7. \A x \in Connects, e \in Devices : ~Settles(act[t], job[t], x, e)
  BY <1>1 DEF Settles, Answers, Releases, Buries
<1> QED
  BY <1>1, <1>4, <1>5, <1>6, <1>7 DEF TalksOn

LEMMA ConnectGivesUpTalks ==
  ASSUME TypeInv, SteadyInv, EndsInv, NEW t \in Threads, ConnectGivesUp(t)
  PROVE  \E b \in Actors : \E y, i : TalksOn(b, y, i)
<1>1. t \in Actors /\ act[t].op = "connect" /\ ~job[t].awaited
  BY DEF Actors, ConnectGivesUp
<1>2. job[t].st = "none"
  BY <1>1, CallFits DEF Fits
<1>3. PICK y : y = Idle
  OBVIOUS
<1>4. y.op = "idle"
  BY <1>3, IdleFields
<1>5. Moves(t, y, job[t])
  BY <1>1, <1>3, ActMoves DEF ConnectGivesUp
<1>6. UNCHANGED <<ends, online, remoteOfflineTask, alive, dmsAdapterHandler>>
  BY DEF ConnectGivesUp, ends, callerVars, calleeVars, WorldUnchanged, worldVars
<1>7. Fits(y, job[t]) /\ Knows(y, job[t])
  BY <1>2, NoHandlerFits
<1>8. \A x \in Connects, e \in Devices : ~Settles(act[t], job[t], x, e)
  BY <1>1, <1>2, NoHandlerFits
<1> QED
  BY <1>1, <1>2, <1>4, <1>5, <1>6, <1>7, <1>8 DEF TalksOn

LEMMA CallNextDeviceTalks ==
  ASSUME TypeInv, SteadyInv, EndsInv, NEW a \in Actors, CallNextDevice(a)
  PROVE  \E b \in Actors : \E y, i : TalksOn(b, y, i)
<1>1. act[a].op \in {"disconnect", "notify"} /\ job[a].st = "none"
  BY DEF CallNextDevice
<1>2. PICK kind : kind = IF act[a].op = "notify" THEN "died" ELSE "disconnect"
  OBVIOUS
<1>3. PICK d \in act[a].todo : job' = [job EXCEPT ![a] = Call(kind, act[a].c, d)]
  BY <1>2 DEF CallNextDevice
<1>4. PICK i : i = Call(kind, act[a].c, d)
  OBVIOUS
<1>5. i.st = "arrived" /\ i.kind = kind /\ i.awaited
  BY <1>4 DEF Call
<1>6. Moves(a, act[a], i)
  BY <1>3, <1>4, JobMoves DEF CallNextDevice
<1>7. UNCHANGED <<ends, online, remoteOfflineTask, alive, dmsAdapterHandler>>
  BY DEF CallNextDevice, ends, callerVars, calleeVars, WorldUnchanged, worldVars
<1>8. Fits(act[a], i) /\ Knows(act[a], i)
  BY <1>1, <1>2, <1>5 DEF Fits, Knows
<1>9. \A x \in Connects, e \in Devices :
         Settles(act[a], job[a], x, e) => Settles(act[a], i, x, e)
  BY <1>1, <1>5 DEF Settles, Answers, Releases, Buries
<1> QED
  BY <1>1, <1>6, <1>7, <1>8, <1>9 DEF TalksOn

LEMMA CallReturnsTalks ==
  ASSUME TypeInv, SteadyInv, EndsInv, NEW a \in Actors, CallReturns(a)
  PROVE  \E b \in Actors : \E y, i : TalksOn(b, y, i)
<1>1. act[a].op \in {"disconnect", "notify"} /\ job[a].st = "replied"
  BY DEF CallReturns
<1>2. act[a] \in Activity
  BY CallFits
<1>3. PICK y : y = [act[a] EXCEPT !.todo = @ \ {job[a].d}]
  OBVIOUS
<1>4. y.op = act[a].op /\ y.c = act[a].c /\ y.todo = act[a].todo \ {job[a].d}
  BY <1>2, <1>3 DEF Activity
<1>5. PICK i : i = NoJob
  OBVIOUS
<1>6. i.st = "none"
  BY <1>5, NoJobFields
<1>7. Moves(a, y, i)
  BY <1>3, <1>5 DEF CallReturns, Moves
<1>8. UNCHANGED <<ends, online, remoteOfflineTask, alive, dmsAdapterHandler>>
  BY DEF CallReturns, ends, callerVars, calleeVars, WorldUnchanged, worldVars
<1>9. Fits(y, i) /\ Knows(y, i)
  BY <1>6, NoHandlerFits
<1>10. \A x \in Connects, e \in Devices : Settles(act[a], job[a], x, e) => Settles(y, i, x, e)
  BY <1>1, <1>4, <1>6 DEF Settles, Answers, Releases, Buries
<1> QED
  BY <1>1, <1>4, <1>7, <1>8, <1>9, <1>10 DEF TalksOn

LEMMA CallsDoneTalks ==
  ASSUME TypeInv, SteadyInv, EndsInv, NEW a \in Actors, CallsDone(a)
  PROVE  \E b \in Actors : \E y, i : TalksOn(b, y, i)
<1>1. act[a].todo = {} /\ act[a].op # "connect"
  BY DEF CallsDone
<1>2. job[a].st = "none"
  BY <1>1, CallFits DEF Fits, CallOK
<1>3. PICK y : y = Idle
  OBVIOUS
<1>4. y.op = "idle"
  BY <1>3, IdleFields
<1>5. Moves(a, y, job[a])
  BY <1>3, ActMoves DEF CallsDone
<1>6. UNCHANGED <<ends, online, remoteOfflineTask, alive, dmsAdapterHandler>>
  BY DEF CallsDone, ends, callerVars, calleeVars, WorldUnchanged, worldVars
<1>7. Fits(y, job[a]) /\ Knows(y, job[a])
  BY <1>2, NoHandlerFits
<1>8. \A x \in Connects, e \in Devices : ~Settles(act[a], job[a], x, e)
  BY <1>1, <1>2, NoHandlerFits
<1> QED
  BY <1>2, <1>4, <1>5, <1>6, <1>7, <1>8 DEF TalksOn

(* A handler that is done answers. *)
LEMMA DoneAnswers ==
  ASSUME NEW a \in Actors, NEW ok, job[a].awaited
  PROVE  Done(a, ok) = At(a, "replied", 0, FALSE, ok)
  BY DEF Done

LEMMA RefusalTalks ==
  ASSUME TypeInv, SteadyInv, EndsInv, NEW a \in Actors,
         CheckDPermissionDenies(a) \/ AmsRefuses(a)
  PROVE  \E b \in Actors : \E y, i : TalksOn(b, y, i)
<1>1. job[a].st \in {"arrived", "found"} /\ (job[a].st = "found" \/ job[a].kind = "connect")
  BY DEF CheckDPermissionDenies, AmsRefuses
<1>2. CallOK(act[a], job[a]) /\ Fits(act[a], job[a]) /\ act[a] \in Activity
  BY CallFits
<1>3. act[a].op = "connect" /\ job[a].awaited
  BY <1>1, <1>2 DEF CallOK, Fits, Activity
<1>4. PICK i : i = At(a, "replied", 0, FALSE, FALSE)
  OBVIOUS
<1>5. i.st = "replied" /\ i.kind = job[a].kind /\ i.ok = FALSE /\ i.awaited = job[a].awaited
  BY <1>4 DEF At
<1>6. Moves(a, act[a], i)
  BY <1>3, <1>4, DoneAnswers, JobMoves DEF CheckDPermissionDenies, AmsRefuses, Advance
<1>7. UNCHANGED <<ends, online, remoteOfflineTask, alive, dmsAdapterHandler>>
  BY DEF CheckDPermissionDenies, AmsRefuses, ends, callerVars, calleeVars, WorldUnchanged, worldVars
<1>8. Fits(act[a], i) /\ Knows(act[a], i)
  BY <1>1, <1>2, <1>3, <1>5 DEF Fits, Knows
<1>9. \A x \in Connects, e \in Devices : ~Settles(act[a], job[a], x, e)
  BY <1>1, <1>3 DEF Settles, Answers, Releases, Buries
<1> QED
  BY <1>1, <1>6, <1>7, <1>8, <1>9 DEF TalksOn

LEMMA ConnectAbilityFromRemoteFindsTalks ==
  ASSUME TypeInv, SteadyInv, EndsInv, NEW a \in Actors, ConnectAbilityFromRemoteFinds(a)
  PROVE  \E b \in Actors : \E y, i : TalksOn(b, y, i)
<1>1. job[a].st = "arrived" /\ job[a].kind = "connect"
  BY DEF ConnectAbilityFromRemoteFinds
<1>2. CallOK(act[a], job[a]) /\ Fits(act[a], job[a]) /\ act[a] \in Activity
  BY CallFits
<1>3. act[a].op = "connect" /\ job[a].awaited
  BY <1>1, <1>2 DEF CallOK, Fits, Activity
<1>4. PICK i, w, seen :
         /\ i = At(a, "found", w, seen, FALSE) /\ seen \in BOOLEAN
         /\ job' = [job EXCEPT ![a] = i]
         /\ \/ /\ seen = TRUE /\ job[a].c \in Recorded(job[a].d)
               /\ w = connectAbilityMap[job[a].d][job[a].c]
            \/ seen = FALSE /\ job[a].c \notin Recorded(job[a].d)
  BY DEF ConnectAbilityFromRemoteFinds, Advance
<1>5. i.st = "found" /\ i.kind = "connect" /\ i.c = job[a].c /\ i.d = job[a].d /\ i.w = w
      /\ i.seen = seen /\ i.awaited = job[a].awaited
  BY <1>1, <1>4 DEF At
<1>6. Moves(a, act[a], i)
  BY <1>4, JobMoves DEF ConnectAbilityFromRemoteFinds
<1>7. UNCHANGED <<ends, online, remoteOfflineTask, alive, dmsAdapterHandler>>
  BY DEF ConnectAbilityFromRemoteFinds, ends, callerVars, calleeVars, WorldUnchanged, worldVars
<1>8. Fits(act[a], i)
  BY <1>3, <1>5 DEF Fits
<1>9. Knows(act[a], i)
  BY <1>4, <1>5 DEF Knows
<1>10. \A x \in Connects, e \in Devices : ~Settles(act[a], job[a], x, e)
  BY <1>1, <1>3 DEF Settles, Answers, Releases, Buries
<1> QED
  BY <1>1, <1>6, <1>7, <1>8, <1>9, <1>10 DEF TalksOn

LEMMA TalksKept ==
  ASSUME TypeInv, SteadyInv, EndsInv, NEW b \in Actors, NEW y, NEW i, TalksOn(b, y, i)
  PROVE  SteadyInv' /\ EndsInv'
<1>1. \A a \in Actors : /\ act'[a] = IF a = b THEN y ELSE act[a]
                        /\ job'[a] = IF a = b THEN i ELSE job[a]
  BY OneMoves DEF TalksOn
<1>2. \A t \in Threads : t \in Actors
  BY DEF Actors
<1>3. SteadyInv'
  BY SteadyKept DEF TalksOn
<1>4. /\ distributedConnectAbilityMap' = distributedConnectAbilityMap
      /\ connectAbilityMap' = connectAbilityMap /\ amsConnections' = amsConnections
      /\ calleeReports' = calleeReports /\ alive' = alive
  BY DEF TalksOn, ends
<1>5. \A d : Recorded(d)' = Recorded(d)
  BY <1>4 DEF Recorded
<1>6. RecordHasSession'
  <2> SUFFICES ASSUME NEW c \in Connects, NEW d \in Devices, c \in Recorded(d)
               PROVE  \/ d \in distributedConnectAbilityMap'[c]
                      \/ \E a \in Actors : Settles(act'[a], job'[a], c, d)
    BY <1>5 DEF RecordHasSession, Settles, Answers, Releases, Buries
  <2>1. CASE d \in distributedConnectAbilityMap[c]
    BY <1>4, <2>1
  <2>2. ASSUME NEW a \in Actors, Settles(act[a], job[a], c, d)
        PROVE  Settles(act'[a], job'[a], c, d)
    <3>1. CASE a = b
      <4>1. act'[a] = y /\ job'[a] = i /\ Settles(y, i, c, d)
        BY <1>1, <2>2, <3>1 DEF TalksOn
      <4> QED
        BY <4>1
    <3>2. CASE a # b
      <4>1. act'[a] = act[a] /\ job'[a] = job[a]
        BY <1>1, <3>2
      <4> QED
        BY <2>2, <4>1
    <3> QED
      BY <3>1, <3>2
  <2> QED
    BY <2>1, <2>2 DEF EndsInv, RecordHasSession
<1>7. SessionHasRecord'
  BY <1>4, <1>5 DEF EndsInv, SessionHasRecord
<1>8. ConnectsKnow'
  <2> SUFFICES ASSUME NEW a \in Actors PROVE Knows(act[a], job[a])'
    BY DEF ConnectsKnow
  <2>1. CASE a = b
    <3>1. act'[a] = y /\ job'[a] = i /\ Knows(y, i)
      BY <1>1, <2>1 DEF TalksOn
    <3> QED
      BY <1>4, <1>5, <3>1 DEF Knows
  <2>2. CASE a # b
    <3>1. act'[a] = act[a] /\ job'[a] = job[a] /\ Knows(act[a], job[a])
      BY <1>1, <2>2, CallFits
    <3> QED
      BY <1>4, <1>5, <3>1 DEF Knows
  <2> QED
    BY <2>1, <2>2
<1>9. DisconnectedInv'
  BY <1>1, <1>2, <1>4 DEF TalksOn, EndsInv, DisconnectedInv
<1>10. BoundIsKnown'
  <2> SUFFICES ASSUME NEW c \in Connects, NEW d \in Devices, NEW w \in Wrappers,
                      <<c, w>> \in amsConnections[d], alive[Owner[c]], connectAbilityMap[d][c] # w
               PROVE  \E a \in Actors : Keeps(job'[a], c, d, w)
    BY <1>4 DEF BoundIsKnown, Keeps
  <2>1. PICK a \in Actors : Keeps(job[a], c, d, w)
    BY DEF EndsInv, BoundIsKnown
  <2>2. a # b
    BY <2>1 DEF Keeps, TalksOn
  <2>3. job'[a] = job[a]
    BY <1>1, <2>2
  <2> QED
    BY <2>1, <2>3
<1>11. CalleeReportsAgree'
  BY <1>4, <1>5 DEF EndsInv, CalleeReportsAgree
<1> QED
  BY <1>3, <1>6, <1>7, <1>8, <1>9, <1>10, <1>11 DEF EndsInv

-----------------------------------------------------------------------------
(* Steps that change the tables. *)

LEMMA SettlesKept ==
  ASSUME TypeInv, NEW b \in Actors, NEW y, NEW i, Moves(b, y, i),
         NEW c \in Connects, NEW d \in Devices,
         Settles(act[b], job[b], c, d) => Settles(y, i, c, d),
         \E a \in Actors : Settles(act[a], job[a], c, d)
  PROVE  \E a \in Actors : Settles(act'[a], job'[a], c, d)
<1>1. PICK a \in Actors : Settles(act[a], job[a], c, d)
  OBVIOUS
<1>2. CASE a = b
  <2>1. act'[a] = y /\ job'[a] = i /\ Settles(y, i, c, d)
    BY <1>1, <1>2, OneMoves
  <2> QED
    BY <2>1
<1>3. CASE a # b
  <2>1. act'[a] = act[a] /\ job'[a] = job[a]
    BY <1>3, OneMoves
  <2> QED
    BY <1>1, <2>1
<1> QED
  BY <1>2, <1>3

LEMMA KeepsKept ==
  ASSUME TypeInv, NEW b \in Actors, NEW y, NEW i, Moves(b, y, i),
         NEW c \in Connects, NEW d \in Devices, NEW w \in Wrappers,
         ~Keeps(job[b], c, d, w), \E a \in Actors : Keeps(job[a], c, d, w)
  PROVE  \E a \in Actors : Keeps(job'[a], c, d, w)
<1>1. PICK a \in Actors : Keeps(job[a], c, d, w)
  OBVIOUS
<1>2. a # b
  BY <1>1
<1>3. job'[a] = job[a]
  BY <1>2, OneMoves
<1> QED
  BY <1>1, <1>3

(* What the other handlers know stays true, when the entries of their connects *)
(* change only if the process is dead, and then are erased.                    *)
LEMMA KnowsKept ==
  ASSUME TypeInv, SteadyInv, EndsInv, NEW b \in Actors, NEW y, NEW i, Moves(b, y, i),
         alive' = alive, Knows(y, i)',
         \A a \in Actors \ {b} : act[a].op = "connect" /\ job[a].st # "none" =>
            \/ connectAbilityMap'[job[a].d][job[a].c] = connectAbilityMap[job[a].d][job[a].c]
            \/ ~alive[Owner[job[a].c]] /\ connectAbilityMap'[job[a].d][job[a].c] = 0
  PROVE  ConnectsKnow'
<1> SUFFICES ASSUME NEW a \in Actors PROVE Knows(act[a], job[a])'
  BY DEF ConnectsKnow
<1>1. CASE a = b
  <2>1. act'[a] = y /\ job'[a] = i
    BY <1>1, OneMoves
  <2> QED
    BY <2>1 DEF Knows, Recorded
<1>2. CASE a # b
  <2>1. act'[a] = act[a] /\ job'[a] = job[a]
    BY <1>2, OneMoves
  <2>2. CASE job[a].st = "none" \/ act[a].op # "connect"
    <3>1. job[a].st \notin {"found", "bound"} /\ (act[a].op = "connect" => job[a].st # "replied")
      BY <2>2, CallFits DEF Fits
    <3> QED
      BY <2>1, <3>1 DEF Knows
  <2>3. CASE job[a].st # "none" /\ act[a].op = "connect"
    <3>1. /\ Knows(act[a], job[a])
          /\ job[a].c \in Connects
      BY <2>3, CallFits DEF CallOK
    <3>2. PICK e, x : e = job[a].d /\ x = job[a].c
      OBVIOUS
    <3>3. \/ connectAbilityMap'[e][x] = connectAbilityMap[e][x]
          \/ ~alive[Owner[x]] /\ connectAbilityMap'[e][x] = 0
      BY <1>2, <2>3, <3>2
    <3>4. /\ x \in Recorded(e) <=> connectAbilityMap[e][x] # 0
          /\ x \in Recorded(e)' <=> connectAbilityMap'[e][x] # 0
      BY <3>1, <3>2 DEF Recorded
    <3> QED
      BY <2>1, <3>1, <3>2, <3>3, <3>4 DEF Knows
  <2> QED
    BY <2>2, <2>3
<1> QED
  BY <1>1, <1>2

(* Two calls of applications never are for the same connect. *)
LEMMA OtherConnect ==
  ASSUME TypeInv, SteadyInv, NEW a \in Actors, NEW b \in Actors, a # b,
         act[a].op \in {"connect", "disconnect"}, act[b].op \in {"connect", "disconnect"}
  PROVE  act[a].c # act[b].c
  BY DEF Actors, SteadyInv, Roles, Alone

(* The handler of a connect serves the connect and its device of that call. *)
LEMMA Serving ==
  ASSUME TypeInv, SteadyInv, EndsInv, NEW a \in Actors, job[a].st # "none"
  PROVE  /\ job[a].awaited /\ job[a].c = act[a].c /\ job[a].d \in act[a].todo
         /\ job[a].c \in Connects /\ job[a].d \in Devices
         /\ act[a].op \in {"connect", "disconnect", "notify"}
         /\ job[a].kind = "connect" => act[a].op = "connect"
         /\ job[a].kind = "disconnect" => act[a].op = "disconnect"
         /\ job[a].kind = "died" => act[a].op = "notify"
<1>1. act[a] \in Activity /\ CallOK(act[a], job[a]) /\ Fits(act[a], job[a])
  BY CallFits
<1>2. act[a].op \in {"connect", "disconnect", "notify"}
  BY <1>1 DEF CallOK, Fits, Activity
<1> QED
  BY <1>1, <1>2 DEF CallOK, Fits

LEMMA AmsConnectAbilityKept ==
  ASSUME TypeInv, SteadyInv, EndsInv, NEW a \in Actors, AmsConnectAbility(a)
  PROVE  SteadyInv' /\ EndsInv'
<1>1. job[a].st = "found"
  BY DEF AmsConnectAbility
<1>2. PICK x, e, w, seen : x = job[a].c /\ e = job[a].d /\ w = job[a].w /\ seen = job[a].seen
  OBVIOUS
<1>3. /\ Fits(act[a], job[a]) /\ Knows(act[a], job[a])
      /\ job[a].awaited /\ x \in Connects /\ e \in Devices /\ act[a].op = "connect"
  BY <1>1, <1>2, CallFits, Serving DEF Fits
<1>4. PICK i : i = At(a, "bound", w, seen, FALSE)
  OBVIOUS
<1>5. /\ i.st = "bound" /\ i.kind = job[a].kind /\ i.c = x /\ i.d = e /\ i.w = w
      /\ i.seen = seen /\ i.awaited = job[a].awaited
  BY <1>2, <1>4 DEF At
<1>6. Moves(a, act[a], i)
  BY <1>2, <1>4, JobMoves DEF AmsConnectAbility, Advance
<1>7. /\ UNCHANGED <<distributedConnectAbilityMap, connectAbilityMap, calleeReports, alive>>
      /\ UNCHANGED <<online, remoteOfflineTask, dmsAdapterHandler>>
  BY DEF AmsConnectAbility, callerVars, WorldUnchanged, worldVars
<1>8. Fits(act[a], i)
  BY <1>1, <1>3, <1>5 DEF Fits
<1>9. SteadyInv'
  BY <1>6, <1>7, <1>8, SteadyKept
<1>10. Knows(act[a], i)'
  <2>1. act'[a] = act[a]
    BY <1>6, OneMoves
  <2> QED
    BY <1>1, <1>2, <1>3, <1>5, <1>7, <2>1 DEF Knows, Recorded
<1>11. ConnectsKnow'
  <2>1. PICK y : y = act[a]
    OBVIOUS
  <2>2. act'[a] = y
    BY <1>6, <2>1, OneMoves
  <2>3. Knows(y, i)'
    BY <1>10, <2>2
  <2> QED
    BY <1>6, <1>7, <2>1, <2>3, KnowsKept
<1>12. RecordHasSession'
  <2> SUFFICES ASSUME NEW c \in Connects, NEW d \in Devices, c \in Recorded(d)'
               PROVE  \/ d \in distributedConnectAbilityMap'[c]
                      \/ \E b \in Actors : Settles(act'[b], job'[b], c, d)
    BY DEF RecordHasSession, Settles, Answers, Releases, Buries
  <2>1. c \in Recorded(d)
    BY <1>7 DEF Recorded
  <2>2. ~Settles(act[a], job[a], c, d)
    BY <1>1, <1>3 DEF Settles, Answers, Releases, Buries
  <2> QED
    BY <1>6, <1>7, <2>1, <2>2, SettlesKept DEF EndsInv, RecordHasSession
<1>13. SessionHasRecord' /\ CalleeReportsAgree'
  BY <1>7 DEF EndsInv, SessionHasRecord, CalleeReportsAgree, Recorded
<1>14. DisconnectedInv'
  <2>1. act' = act
    BY DEF AmsConnectAbility
  <2> QED
    BY <1>7, <2>1 DEF EndsInv, DisconnectedInv
<1>15. BoundIsKnown'
  <2> SUFFICES ASSUME NEW c \in Connects, NEW d \in Devices, NEW v \in Wrappers,
                      <<c, v>> \in amsConnections'[d], alive[Owner[c]], connectAbilityMap[d][c] # v
               PROVE  \E b \in Actors : Keeps(job'[b], c, d, v)
    BY <1>7 DEF BoundIsKnown, Keeps
  <2>1. CASE <<c, v>> \in amsConnections[d]
    <3>1. \E b \in Actors : Keeps(job[b], c, d, v)
      BY <2>1 DEF EndsInv, BoundIsKnown
    <3>2. ~Keeps(job[a], c, d, v)
      BY <1>1 DEF Keeps
    <3> QED
      BY <1>6, <3>1, <3>2, KeepsKept
  <2>2. CASE <<c, v>> \notin amsConnections[d]
    <3>1. amsConnections' = [amsConnections EXCEPT ![e] = @ \cup {<<x, w>>}]
      BY <1>2 DEF AmsConnectAbility
    <3>2. c = x /\ v = w /\ d = e
      BY <2>2, <3>1 DEF TypeInv, TypeOK, CalleeTypes
    <3>3. ~seen
      BY <1>1, <1>2, <1>3, <3>2 DEF Knows
    <3>4. job'[a] = i
      BY <1>6, OneMoves
    <3> QED
      BY <1>5, <3>2, <3>3, <3>4 DEF Keeps
  <2> QED
    BY <2>1, <2>2
<1> QED
  BY <1>9, <1>11, <1>12, <1>13, <1>14, <1>15 DEF EndsInv

(* The table of d gains, or loses, one entry. *)
LEMMA OneMore ==
  ASSUME NEW C \in SUBSET Connects, NEW c \in Connects, c \notin C
  PROVE  Cardinality(C \cup {c}) = Cardinality(C) + 1
  BY FiniteConnects, FS_AddElement

LEMMA OneLess ==
  ASSUME NEW C \in SUBSET Connects, NEW c \in C
  PROVE  Cardinality(C \ {c}) = Cardinality(C) - 1
  BY FiniteConnects, FS_RemoveElement

LEMMA ConnectAbilityFromRemoteRecordsKept ==
  ASSUME TypeInv, SteadyInv, EndsInv, NEW a \in Actors, ConnectAbilityFromRemoteRecords(a)
  PROVE  SteadyInv' /\ EndsInv'
<1>1. job[a].st = "bound"
  BY DEF ConnectAbilityFromRemoteRecords
<1>2. PICK x, e, w : x = job[a].c /\ e = job[a].d /\ w = job[a].w
  OBVIOUS
<1>3. /\ Fits(act[a], job[a]) /\ Knows(act[a], job[a])
      /\ job[a].awaited /\ x \in Connects /\ e \in Devices /\ act[a].op = "connect"
      /\ w \in Wrappers /\ x = act[a].c
  BY <1>1, <1>2, CallFits, Serving, JobFacts DEF Fits
<1>4. PICK i : i = At(a, "replied", 0, FALSE, TRUE)
  OBVIOUS
<1>5. /\ i.st = "replied" /\ i.kind = job[a].kind /\ i.c = x /\ i.d = e /\ i.ok = TRUE
      /\ i.awaited = job[a].awaited
  BY <1>2, <1>4 DEF At
<1>6. Moves(a, act[a], i)
  BY <1>3, <1>4, DoneAnswers, JobMoves DEF ConnectAbilityFromRemoteRecords, Advance
<1>7. /\ UNCHANGED <<distributedConnectAbilityMap, amsConnections, alive, act>>
      /\ UNCHANGED <<online, remoteOfflineTask, dmsAdapterHandler>>
  BY DEF ConnectAbilityFromRemoteRecords, callerVars, WorldUnchanged, worldVars
<1>8. SteadyInv'
  <2>1. Fits(act[a], i)
    BY <1>1, <1>3, <1>5 DEF Fits
  <2> QED
    BY <1>6, <1>7, <2>1, SteadyKept
<1>9. \A c \in Connects, d \in Devices :
         \/ connectAbilityMap'[d][c] = connectAbilityMap[d][c]
         \/ /\ c = x /\ d = e /\ ~job[a].seen
            /\ connectAbilityMap[d][c] = 0 /\ connectAbilityMap'[d][c] = w
  BY <1>2, RecordsOne
<1>10. ~job[a].seen => /\ connectAbilityMap[e][x] = 0
                       /\ connectAbilityMap'[e][x] = w
  <2> SUFFICES ASSUME ~job[a].seen
               PROVE  /\ connectAbilityMap[e][x] = 0
                      /\ connectAbilityMap'[e][x] = w
    OBVIOUS
  <2>1. connectAbilityMap[e][x] = 0
    BY <1>1, <1>2, <1>3 DEF Knows, Recorded
  <2>2. connectAbilityMap' = [connectAbilityMap EXCEPT ![e][x] = w]
    BY <1>2, <2>1 DEF ConnectAbilityFromRemoteRecords
  <2> QED
    BY <1>3, <2>1, <2>2 DEF TypeInv, TypeOK, CalleeTypes
<1>11. 0 \notin Wrappers
  BY DEF Wrappers
<1>12. ConnectsKnow'
  <2>1. PICK y : y = act[a]
    OBVIOUS
  <2>2. alive[Owner[x]] => x \in Recorded(e)'
    <3>1. job[a].seen \in BOOLEAN
      BY <1>1, JobFacts
    <3>2. CASE job[a].seen
      BY <1>1, <1>2, <1>3, <1>9, <1>11, <3>2 DEF Knows, Recorded
    <3>3. CASE ~job[a].seen
      BY <1>3, <1>10, <1>11, <3>3 DEF Recorded
    <3> QED
      BY <3>1, <3>2, <3>3
  <2>3. Knows(y, i)'
    BY <1>5, <1>7, <2>2 DEF Knows
  <2>4. ASSUME NEW b \in Actors \ {a}, act[b].op = "connect", job[b].st # "none"
        PROVE  connectAbilityMap'[job[b].d][job[b].c] = connectAbilityMap[job[b].d][job[b].c]
    <3>1. job[b].c # x /\ job[b].c \in Connects /\ job[b].d \in Devices
      BY <1>3, <2>4, OtherConnect, Serving
    <3> QED
      BY <1>9, <3>1
  <2> QED
    BY <1>6, <1>7, <2>1, <2>3, <2>4, KnowsKept
<1>13. RecordHasSession'
  <2> SUFFICES ASSUME NEW c \in Connects, NEW d \in Devices, c \in Recorded(d)'
               PROVE  \/ d \in distributedConnectAbilityMap'[c]
                      \/ \E b \in Actors : Settles(act'[b], job'[b], c, d)
    BY DEF RecordHasSession, Settles, Answers, Releases, Buries
  <2>1. CASE c = x /\ d = e
    <3>1. job'[a] = i /\ act'[a] = act[a]
      BY <1>6, OneMoves
    <3>2. Answers(act'[a], job'[a], c, d)
      BY <1>3, <1>5, <2>1, <3>1 DEF Answers
    <3> QED
      BY <3>2 DEF Settles
  <2>2. CASE ~(c = x /\ d = e)
    <3>1. c \in Recorded(d)
      BY <1>9, <2>2 DEF Recorded
    <3>2. ~Settles(act[a], job[a], c, d)
      BY <1>1, <1>3 DEF Settles, Answers, Releases, Buries
    <3> QED
      BY <1>6, <1>7, <3>1, <3>2, SettlesKept DEF EndsInv, RecordHasSession
  <2> QED
    BY <2>1, <2>2
<1>14. SessionHasRecord'
  <2> SUFFICES ASSUME NEW c \in Connects, NEW d \in Devices,
                      d \in distributedConnectAbilityMap[c], alive[Owner[c]]
               PROVE  connectAbilityMap'[d][c] # 0
    BY <1>7 DEF SessionHasRecord, Recorded
  <2>1. connectAbilityMap[d][c] # 0
    BY DEF EndsInv, SessionHasRecord, Recorded
  <2> QED
    BY <1>9, <2>1
<1>15. DisconnectedInv'
  BY <1>7 DEF EndsInv, DisconnectedInv
<1>16. BoundIsKnown'
  <2> SUFFICES ASSUME NEW c \in Connects, NEW d \in Devices, NEW v \in Wrappers,
                      <<c, v>> \in amsConnections[d], alive[Owner[c]], connectAbilityMap'[d][c] # v
               PROVE  \E b \in Actors : Keeps(job'[b], c, d, v)
    BY <1>7 DEF BoundIsKnown, Keeps
  <2>1. connectAbilityMap[d][c] # v
    BY <1>9, <1>11
  <2>2. ~Keeps(job[a], c, d, v)
    BY <1>1, <1>2, <1>10 DEF Keeps
  <2> QED
    BY <1>6, <2>1, <2>2, KeepsKept DEF EndsInv, BoundIsKnown
<1>17. CalleeReportsAgree'
  <2> SUFFICES ASSUME NEW d \in Devices PROVE calleeReports'[d] = Cardinality(Recorded(d)')
    BY DEF CalleeReportsAgree
  <2>1. calleeReports[d] = Cardinality(Recorded(d))
    BY DEF EndsInv, CalleeReportsAgree
  <2>2. CASE job[a].seen
    <3>1. calleeReports' = calleeReports /\ connectAbilityMap' = connectAbilityMap
      BY <2>2 DEF ConnectAbilityFromRemoteRecords
    <3>2. Recorded(d)' = Recorded(d)
      BY <3>1 DEF Recorded
    <3> QED
      BY <2>1, <3>1, <3>2
  <2>3. CASE ~job[a].seen /\ d # e
    <3>1. calleeReports' = [calleeReports EXCEPT ![e] = @ + 1]
      BY <1>2, <2>3 DEF ConnectAbilityFromRemoteRecords
    <3>2. calleeReports'[d] = calleeReports[d]
      BY <2>3, <3>1 DEF TypeInv, TypeOK, CalleeTypes
    <3>3. Recorded(d)' = Recorded(d)
      BY <1>9, <2>3 DEF Recorded
    <3> QED
      BY <2>1, <3>2, <3>3
  <2>4. CASE ~job[a].seen /\ d = e
    <3>1. calleeReports' = [calleeReports EXCEPT ![e] = @ + 1]
      BY <1>2, <2>4 DEF ConnectAbilityFromRemoteRecords
    <3>2. calleeReports'[d] = calleeReports[d] + 1
      BY <2>4, <3>1 DEF TypeInv, TypeOK, CalleeTypes
    <3>3. Recorded(d)' = Recorded(d) \cup {x}
      BY <1>3, <1>9, <1>10, <1>11, <2>4 DEF Recorded
    <3>4. x \notin Recorded(d) /\ Recorded(d) \in SUBSET Connects
      BY <1>10, <2>4 DEF Recorded
    <3>5. Cardinality(Recorded(d) \cup {x}) = Cardinality(Recorded(d)) + 1
      BY <1>3, <3>4, OneMore
    <3> QED
      BY <2>1, <3>2, <3>3, <3>5
  <2> QED
    BY <2>2, <2>3, <2>4
<1> QED
  BY <1>8, <1>12, <1>13, <1>14, <1>15, <1>16, <1>17 DEF EndsInv

LEMMA DisconnectAbilityFromRemoteKept ==
  ASSUME TypeInv, SteadyInv, EndsInv, NEW a \in Actors, DisconnectAbilityFromRemote(a)
  PROVE  SteadyInv' /\ EndsInv'
<1>1. job[a].st = "arrived" /\ job[a].kind = "disconnect"
  BY DEF DisconnectAbilityFromRemote
<1>2. PICK x, e, w : x = job[a].c /\ e = job[a].d /\ w = connectAbilityMap[e][x]
  OBVIOUS
<1>3. /\ job[a].awaited /\ x \in Connects /\ e \in Devices /\ act[a].op = "disconnect"
      /\ x = act[a].c /\ a \in Threads
  BY <1>1, <1>2, Serving DEF SteadyInv, Roles, Actors
<1>4. PICK i, st : /\ st \in {"erased", "replied"}
                   /\ st = "replied" => x \notin Recorded(e)
                   /\ i = At(a, st, IF st = "erased" THEN w ELSE 0, FALSE, FALSE)
                   /\ job' = [job EXCEPT ![a] = i]
  <2>1. CASE x \in Recorded(e)
    <3>1. job' = [job EXCEPT ![a] = At(a, "erased", w, FALSE, FALSE)]
      BY <1>2, <2>1 DEF DisconnectAbilityFromRemote, Advance
    <3> QED
      BY <3>1
  <2>2. CASE x \notin Recorded(e)
    <3>1. job' = [job EXCEPT ![a] = At(a, "replied", 0, FALSE, FALSE)]
      BY <1>2, <1>3, <2>2, DoneAnswers DEF DisconnectAbilityFromRemote, Advance
    <3> QED
      BY <2>2, <3>1
  <2> QED
    BY <2>1, <2>2
<1>5. /\ i.st = st /\ i.kind = job[a].kind /\ i.c = x /\ i.d = e
      /\ st = "erased" => i.w = w
      /\ i.awaited = job[a].awaited
  BY <1>2, <1>4 DEF At
<1>6. Moves(a, act[a], i)
  BY <1>4, JobMoves DEF DisconnectAbilityFromRemote
<1>7. /\ UNCHANGED <<distributedConnectAbilityMap, amsConnections, alive, act>>
      /\ UNCHANGED <<online, remoteOfflineTask, dmsAdapterHandler>>
  BY DEF DisconnectAbilityFromRemote, callerVars, WorldUnchanged, worldVars
<1>8. SteadyInv'
  <2>1. Fits(act[a], i)
    BY <1>1, <1>3, <1>4, <1>5 DEF Fits
  <2> QED
    BY <1>6, <1>7, <2>1, SteadyKept
<1>9. \A c \in Connects, d \in Devices :
         connectAbilityMap'[d][c] = IF c = x /\ d = e THEN 0 ELSE connectAbilityMap[d][c]
  BY <1>2, DisconnectsOne
<1>10. ConnectsKnow'
  <2>1. PICK y : y = act[a]
    OBVIOUS
  <2>2. Knows(y, i)'
    BY <1>3, <1>4, <1>5, <2>1 DEF Knows
  <2>3. ASSUME NEW b \in Actors \ {a}, act[b].op = "connect", job[b].st # "none"
        PROVE  connectAbilityMap'[job[b].d][job[b].c] = connectAbilityMap[job[b].d][job[b].c]
    <3>1. job[b].c # x /\ job[b].c \in Connects /\ job[b].d \in Devices
      BY <1>3, <2>3, OtherConnect, Serving
    <3> QED
      BY <1>9, <3>1
  <2> QED
    BY <1>6, <1>7, <2>1, <2>2, <2>3, KnowsKept
<1>11. RecordHasSession'
  <2> SUFFICES ASSUME NEW c \in Connects, NEW d \in Devices, c \in Recorded(d)'
               PROVE  \/ d \in distributedConnectAbilityMap'[c]
                      \/ \E b \in Actors : Settles(act'[b], job'[b], c, d)
    BY DEF RecordHasSession, Settles, Answers, Releases, Buries
  <2>1. c \in Recorded(d) /\ ~(c = x /\ d = e)
    BY <1>9 DEF Recorded
  <2>2. Settles(act[a], job[a], c, d) => Settles(act[a], i, c, d)
    BY <1>1, <1>3, <1>5, <2>1 DEF Settles, Answers, Releases, Buries
  <2> QED
    BY <1>6, <1>7, <2>1, <2>2, SettlesKept DEF EndsInv, RecordHasSession
<1>12. distributedConnectAbilityMap[x] = {}
  BY <1>3 DEF EndsInv, DisconnectedInv
<1>13. SessionHasRecord'
  <2> SUFFICES ASSUME NEW c \in Connects, NEW d \in Devices,
                      d \in distributedConnectAbilityMap[c], alive[Owner[c]]
               PROVE  connectAbilityMap'[d][c] # 0
    BY <1>7 DEF SessionHasRecord, Recorded
  <2>1. connectAbilityMap[d][c] # 0
    BY DEF EndsInv, SessionHasRecord, Recorded
  <2>2. c # x
    BY <1>12
  <2> QED
    BY <1>9, <2>1, <2>2
<1>14. DisconnectedInv'
  BY <1>7 DEF EndsInv, DisconnectedInv
<1>15. BoundIsKnown'
  <2> SUFFICES ASSUME NEW c \in Connects, NEW d \in Devices, NEW v \in Wrappers,
                      <<c, v>> \in amsConnections[d], alive[Owner[c]], connectAbilityMap'[d][c] # v
               PROVE  \E b \in Actors : Keeps(job'[b], c, d, v)
    BY <1>7 DEF BoundIsKnown, Keeps
  <2>1. CASE connectAbilityMap[d][c] # v
    <3>1. ~Keeps(job[a], c, d, v)
      BY <1>1 DEF Keeps
    <3> QED
      BY <1>6, <2>1, <3>1, KeepsKept DEF EndsInv, BoundIsKnown
  <2>2. CASE connectAbilityMap[d][c] = v
    <3>1. c = x /\ d = e /\ v = w
      BY <1>2, <1>9, <2>2
    <3>2. x \in Recorded(e)
      BY <1>3, <2>2, <3>1 DEF Recorded, Wrappers
    <3>3. st = "erased"
      BY <1>4, <3>2
    <3>4. job'[a] = i
      BY <1>6, OneMoves
    <3> QED
      BY <1>5, <3>1, <3>3, <3>4 DEF Keeps
  <2> QED
    BY <2>1, <2>2
<1>16. CalleeReportsAgree'
  <2> SUFFICES ASSUME NEW d \in Devices PROVE calleeReports'[d] = Cardinality(Recorded(d)')
    BY DEF CalleeReportsAgree
  <2>1. calleeReports[d] = Cardinality(Recorded(d))
    BY DEF EndsInv, CalleeReportsAgree
  <2>2. CASE x \notin Recorded(e)
    <3>1. calleeReports' = calleeReports /\ connectAbilityMap' = connectAbilityMap
      BY <1>2, <2>2 DEF DisconnectAbilityFromRemote
    <3>2. Recorded(d)' = Recorded(d)
      BY <3>1 DEF Recorded
    <3> QED
      BY <2>1, <3>1, <3>2
  <2>3. CASE x \in Recorded(e) /\ d # e
    <3>1. calleeReports' = [calleeReports EXCEPT ![e] = @ - 1]
      BY <1>2, <2>3 DEF DisconnectAbilityFromRemote
    <3>2. calleeReports'[d] = calleeReports[d]
      BY <2>3, <3>1 DEF TypeInv, TypeOK, CalleeTypes
    <3>3. Recorded(d)' = Recorded(d)
      BY <1>9, <2>3 DEF Recorded
    <3> QED
      BY <2>1, <3>2, <3>3
  <2>4. CASE x \in Recorded(e) /\ d = e
    <3>1. calleeReports' = [calleeReports EXCEPT ![e] = @ - 1]
      BY <1>2, <2>4 DEF DisconnectAbilityFromRemote
    <3>2. calleeReports'[d] = calleeReports[d] - 1
      BY <2>4, <3>1 DEF TypeInv, TypeOK, CalleeTypes
    <3>3. Recorded(d)' = Recorded(d) \ {x}
      BY <1>3, <1>9, <2>4 DEF Recorded
    <3>4. Recorded(d) \in SUBSET Connects
      BY DEF Recorded
    <3>5. Cardinality(Recorded(d) \ {x}) = Cardinality(Recorded(d)) - 1
      BY <2>4, <3>4, OneLess
    <3> QED
      BY <2>1, <3>2, <3>3, <3>5
  <2> QED
    BY <2>2, <2>3, <2>4
<1> QED
  BY <1>8, <1>10, <1>11, <1>13, <1>14, <1>15, <1>16 DEF EndsInv

LEMMA AmsDisconnectAbilityKept ==
  ASSUME TypeInv, SteadyInv, EndsInv, NEW a \in Actors, AmsDisconnectAbility(a)
  PROVE  SteadyInv' /\ EndsInv'
<1>1. job[a].st = "erased"
  BY DEF AmsDisconnectAbility
<1>2. PICK x, e, w : x = job[a].c /\ e = job[a].d /\ w = job[a].w
  OBVIOUS
<1>3. /\ Fits(act[a], job[a]) /\ job[a].awaited /\ x \in Connects /\ e \in Devices
      /\ act[a].op = "disconnect"
  BY <1>1, <1>2, CallFits, Serving DEF Fits
<1>4. PICK i : i = At(a, "replied", 0, FALSE, TRUE)
  OBVIOUS
<1>5. /\ i.st = "replied" /\ i.kind = job[a].kind /\ i.c = x /\ i.d = e
      /\ i.awaited = job[a].awaited
  BY <1>2, <1>4 DEF At
<1>6. Moves(a, act[a], i)
  BY <1>3, <1>4, DoneAnswers, JobMoves DEF AmsDisconnectAbility, Advance
<1>7. /\ UNCHANGED <<distributedConnectAbilityMap, connectAbilityMap, calleeReports, alive, act>>
      /\ UNCHANGED <<online, remoteOfflineTask, dmsAdapterHandler>>
  BY DEF AmsDisconnectAbility, callerVars, WorldUnchanged, worldVars
<1>8. SteadyInv'
  <2>1. Fits(act[a], i)
    BY <1>1, <1>3, <1>5 DEF Fits
  <2> QED
    BY <1>6, <1>7, <2>1, SteadyKept
<1>9. ConnectsKnow'
  <2>1. PICK y : y = act[a]
    OBVIOUS
  <2>2. Knows(y, i)'
    BY <1>3, <1>5, <2>1 DEF Knows
  <2> QED
    BY <1>6, <1>7, <2>1, <2>2, KnowsKept
<1>10. RecordHasSession'
  <2> SUFFICES ASSUME NEW c \in Connects, NEW d \in Devices, c \in Recorded(d)'
               PROVE  \/ d \in distributedConnectAbilityMap'[c]
                      \/ \E b \in Actors : Settles(act'[b], job'[b], c, d)
    BY DEF RecordHasSession, Settles, Answers, Releases, Buries
  <2>1. c \in Recorded(d)
    BY <1>7 DEF Recorded
  <2>2. Settles(act[a], job[a], c, d) => Settles(act[a], i, c, d)
    BY <1>1, <1>2, <1>3, <1>5 DEF Settles, Answers, Releases, Buries
  <2> QED
    BY <1>6, <1>7, <2>1, <2>2, SettlesKept DEF EndsInv, RecordHasSession
<1>11. SessionHasRecord' /\ CalleeReportsAgree'
  BY <1>7 DEF EndsInv, SessionHasRecord, CalleeReportsAgree, Recorded
<1>12. DisconnectedInv'
  BY <1>7 DEF EndsInv, DisconnectedInv
<1>13. BoundIsKnown'
  <2> SUFFICES ASSUME NEW c \in Connects, NEW d \in Devices, NEW v \in Wrappers,
                      <<c, v>> \in amsConnections'[d], alive[Owner[c]], connectAbilityMap[d][c] # v
               PROVE  \E b \in Actors : Keeps(job'[b], c, d, v)
    BY <1>7 DEF BoundIsKnown, Keeps
  <2>1. amsConnections' = [amsConnections EXCEPT ![e] = @ \ {<<x, w>>}]
    BY <1>2 DEF AmsDisconnectAbility
  <2>2. <<c, v>> \in amsConnections[d] /\ ~(c = x /\ d = e /\ v = w)
    BY <2>1 DEF TypeInv, TypeOK, CalleeTypes
  <2>3. ~Keeps(job[a], c, d, v)
    BY <1>2, <2>2 DEF Keeps
  <2> QED
    BY <1>6, <2>2, <2>3, KeepsKept DEF EndsInv, BoundIsKnown
<1> QED
  BY <1>8, <1>9, <1>10, <1>11, <1>12, <1>13 DEF EndsInv

LEMMA NotifyProcessDiedFromRemoteKept ==
  ASSUME TypeInv, SteadyInv, EndsInv, NEW a \in Actors, NotifyProcessDiedFromRemote(a)
  PROVE  SteadyInv' /\ EndsInv'
<1>1. job[a].st = "arrived" /\ job[a].kind = "died"
  BY DEF NotifyProcessDiedFromRemote
<1>2. PICK x, e : x = job[a].c /\ e = job[a].d
  OBVIOUS
<1>3. /\ Fits(act[a], job[a]) /\ job[a].awaited /\ x \in Connects /\ e \in Devices
      /\ act[a].op = "notify" /\ x = act[a].c
  BY <1>1, <1>2, CallFits, Serving
<1>4. PICK i : i = At(a, "replied", 0, FALSE, TRUE)
  OBVIOUS
<1>5. /\ i.st = "replied" /\ i.kind = job[a].kind /\ i.c = x /\ i.d = e
      /\ i.awaited = job[a].awaited
  BY <1>2, <1>4 DEF At
<1>6. Moves(a, act[a], i)
  BY <1>3, <1>4, DoneAnswers, JobMoves DEF NotifyProcessDiedFromRemote, Advance
<1>7. /\ UNCHANGED <<distributedConnectAbilityMap, alive, act>>
      /\ UNCHANGED <<online, remoteOfflineTask, dmsAdapterHandler>>
  BY DEF NotifyProcessDiedFromRemote, callerVars, WorldUnchanged, worldVars
<1>8. SteadyInv'
  <2>1. Fits(act[a], i)
    BY <1>1, <1>3, <1>5 DEF Fits
  <2> QED
    BY <1>6, <1>7, <2>1, SteadyKept
<1>9. ~alive[Owner[x]]
  <2>1. a = Handler
    BY <1>3 DEF SteadyInv, Roles, Actors
  <2> QED
    BY <1>3, <2>1 DEF SteadyInv, DeadInv
<1>10. PICK C \in SUBSET Connects : C = SameCaller(x) /\ EraseOnDevice(e, C)
  BY <1>2 DEF NotifyProcessDiedFromRemote, SameCaller, ConnectsOf
<1>11. \A c \in C : Owner[c] = Owner[x] /\ ~alive[Owner[c]]
  <2>1. C = {c \in Connects : Owner[c] = Owner[x]}
    BY <1>10 DEF SameCaller, ConnectsOf
  <2> QED
    BY <1>9, <2>1
<1>12. \A c \in Connects, d \in Devices :
          connectAbilityMap'[d][c] = IF d = e /\ c \in C THEN 0 ELSE connectAbilityMap[d][c]
  BY <1>3, <1>10, ErasesSome
<1>13. ConnectsKnow'
  <2>1. PICK y : y = act[a]
    OBVIOUS
  <2>2. Knows(y, i)'
    BY <1>3, <1>5, <2>1 DEF Knows
  <2>3. ASSUME NEW b \in Actors \ {a}, act[b].op = "connect", job[b].st # "none"
        PROVE  \/ connectAbilityMap'[job[b].d][job[b].c] = connectAbilityMap[job[b].d][job[b].c]
               \/ ~alive[Owner[job[b].c]] /\ connectAbilityMap'[job[b].d][job[b].c] = 0
    <3>1. job[b].c \in Connects /\ job[b].d \in Devices
      BY <2>3, Serving
    <3> QED
      BY <1>11, <1>12, <3>1
  <2> QED
    BY <1>6, <1>7, <2>1, <2>2, <2>3, KnowsKept
<1>14. RecordHasSession'
  <2> SUFFICES ASSUME NEW c \in Connects, NEW d \in Devices, c \in Recorded(d)'
               PROVE  \/ d \in distributedConnectAbilityMap'[c]
                      \/ \E b \in Actors : Settles(act'[b], job'[b], c, d)
    BY DEF RecordHasSession, Settles, Answers, Releases, Buries
  <2>1. c \in Recorded(d) /\ ~(d = e /\ c \in C)
    BY <1>12 DEF Recorded
  <2>2. d = e => Owner[x] # Owner[c]
    BY <1>10, <2>1 DEF SameCaller, ConnectsOf
  <2>3. Settles(act[a], job[a], c, d) => Settles(act[a], i, c, d)
    BY <1>1, <1>3, <1>5, <2>2 DEF Settles, Answers, Releases, Buries
  <2> QED
    BY <1>6, <1>7, <2>1, <2>3, SettlesKept DEF EndsInv, RecordHasSession
<1>15. SessionHasRecord'
  <2> SUFFICES ASSUME NEW c \in Connects, NEW d \in Devices,
                      d \in distributedConnectAbilityMap[c], alive[Owner[c]]
               PROVE  connectAbilityMap'[d][c] # 0
    BY <1>7 DEF SessionHasRecord, Recorded
  <2>1. connectAbilityMap[d][c] # 0
    BY DEF EndsInv, SessionHasRecord, Recorded
  <2> QED
    BY <1>11, <1>12, <2>1
<1>16. DisconnectedInv'
  BY <1>7 DEF EndsInv, DisconnectedInv
<1>17. BoundIsKnown'
  <2> SUFFICES ASSUME NEW c \in Connects, NEW d \in Devices, NEW v \in Wrappers,
                      <<c, v>> \in amsConnections'[d], alive[Owner[c]], connectAbilityMap'[d][c] # v
               PROVE  \E b \in Actors : Keeps(job'[b], c, d, v)
    BY <1>7 DEF BoundIsKnown, Keeps
  <2>1. connectAbilityMap[d][c] # v
    BY <1>11, <1>12
  <2>2. amsConnections'[d] \subseteq amsConnections[d]
    BY <1>10 DEF EraseOnDevice, TypeInv, TypeOK, CalleeTypes
  <2>3. ~Keeps(job[a], c, d, v)
    BY <1>1 DEF Keeps
  <2> QED
    BY <1>6, <2>1, <2>2, <2>3, KeepsKept DEF EndsInv, BoundIsKnown
<1>18. CalleeReportsAgree'
  <2> SUFFICES ASSUME NEW d \in Devices PROVE calleeReports'[d] = Cardinality(Recorded(d)')
    BY DEF CalleeReportsAgree
  <2>1. calleeReports[d] = Cardinality(Recorded(d))
    BY DEF EndsInv, CalleeReportsAgree
  <2>2. CASE d # e
    <3>1. calleeReports'[d] = calleeReports[d]
      BY <1>10, <2>2 DEF EraseOnDevice, TypeInv, TypeOK, CalleeTypes
    <3>2. Recorded(d)' = Recorded(d)
      BY <1>12, <2>2 DEF Recorded
    <3> QED
      BY <2>1, <3>1, <3>2
  <2>3. CASE d = e
    <3>1. calleeReports'[d] = calleeReports[d] - Cardinality(C \cap Recorded(d))
      BY <1>10, <2>3 DEF EraseOnDevice, TypeInv, TypeOK, CalleeTypes
    <3>2. Recorded(d)' = Recorded(d) \ (C \cap Recorded(d))
      BY <1>12, <2>3 DEF Recorded
    <3>3. Recorded(d) \in SUBSET Connects /\ C \cap Recorded(d) \in SUBSET Connects
      BY DEF Recorded
    <3>4. /\ IsFiniteSet(Recorded(d)) /\ Cardinality(Recorded(d)) \in Nat
          /\ Cardinality(C \cap Recorded(d)) \in Nat
      BY <3>3, FiniteConnects
    <3>5. Cardinality(Recorded(d) \ (C \cap Recorded(d)))
             = Cardinality(Recorded(d)) - Cardinality(Recorded(d) \cap (C \cap Recorded(d)))
      BY <3>4, FS_Difference
    <3>6. Recorded(d) \cap (C \cap Recorded(d)) = C \cap Recorded(d)
      OBVIOUS
    <3> QED
      BY <2>1, <3>1, <3>2, <3>5, <3>6
  <2> QED
    BY <2>2, <2>3
<1> QED
  BY <1>8, <1>13, <1>14, <1>15, <1>16, <1>17, <1>18 DEF EndsInv

LEMMA ConnectSucceedsKept ==
  ASSUME TypeInv, SteadyInv, EndsInv, NEW t \in Threads, ConnectSucceeds(t)
  PROVE  SteadyInv' /\ EndsInv'
<1>1. t \in Actors /\ act[t].op = "connect" /\ job[t].st = "replied" /\ job[t].ok
  BY DEF Actors, ConnectSucceeds
<1>2. PICK x, e : x = job[t].c /\ e = job[t].d
  OBVIOUS
<1>3. /\ Knows(act[t], job[t]) /\ x \in Connects /\ e \in Devices /\ x = act[t].c
  BY <1>1, <1>2, CallFits, Serving
<1>4. PICK y, i : y = Idle /\ i = NoJob
  OBVIOUS
<1>5. y.op = "idle" /\ i.st = "none"
  BY <1>4, IdleFields, NoJobFields
<1>6. Moves(t, y, i)
  BY <1>4 DEF ConnectSucceeds, Moves
<1>7. /\ UNCHANGED <<connectAbilityMap, amsConnections, calleeReports, alive>>
      /\ UNCHANGED <<online, remoteOfflineTask, dmsAdapterHandler>>
  BY DEF ConnectSucceeds, calleeVars, WorldUnchanged, worldVars
<1>8. SteadyInv'
  <2>1. Fits(y, i)
    BY <1>5, NoHandlerFits
  <2> QED
    BY <1>1, <1>5, <1>6, <1>7, <2>1, SteadyKept
<1>9. \A c \in Connects : distributedConnectAbilityMap'[c] =
         IF c = x THEN distributedConnectAbilityMap[c] \cup {e} ELSE distributedConnectAbilityMap[c]
  <2>1. distributedConnectAbilityMap' = [distributedConnectAbilityMap EXCEPT ![x] = @ \cup {e}]
    BY <1>2 DEF ConnectSucceeds, RemoteConnectAbilityMappingLocked
  <2> QED
    BY <2>1 DEF TypeInv, TypeOK, CallerTypes
<1>10. ConnectsKnow'
  <2>1. Knows(y, i)'
    BY <1>5 DEF Knows
  <2> QED
    BY <1>1, <1>6, <1>7, <2>1, KnowsKept
<1>11. RecordHasSession'
  <2> SUFFICES ASSUME NEW c \in Connects, NEW d \in Devices, c \in Recorded(d)',
                      d \notin distributedConnectAbilityMap'[c]
               PROVE  \E b \in Actors : Settles(act'[b], job'[b], c, d)
    BY DEF RecordHasSession, Settles, Answers, Releases, Buries
  <2>1. c \in Recorded(d) /\ ~(c = x /\ d = e) /\ d \notin distributedConnectAbilityMap[c]
    BY <1>7, <1>9 DEF Recorded
  <2>2. ~Settles(act[t], job[t], c, d)
    BY <1>1, <1>2, <2>1 DEF Settles, Answers, Releases, Buries
  <2> QED
    BY <1>1, <1>6, <2>1, <2>2, SettlesKept DEF EndsInv, RecordHasSession
<1>12. SessionHasRecord'
  <2> SUFFICES ASSUME NEW c \in Connects, NEW d \in Devices,
                      d \in distributedConnectAbilityMap'[c], alive[Owner[c]]
               PROVE  c \in Recorded(d)
    BY <1>7 DEF SessionHasRecord, Recorded
  <2>1. CASE c = x /\ d = e
    BY <1>1, <1>2, <1>3, <2>1 DEF Knows
  <2>2. CASE ~(c = x /\ d = e)
    BY <1>9, <2>2 DEF EndsInv, SessionHasRecord
  <2> QED
    BY <2>1, <2>2
<1>13. DisconnectedInv'
  <2> SUFFICES ASSUME NEW s \in Threads, act'[s].op = "disconnect"
               PROVE  distributedConnectAbilityMap'[act'[s].c] = {}
    BY DEF DisconnectedInv
  <2>1. s \in Actors /\ s # t /\ act'[s] = act[s]
    BY <1>1, <1>5, <1>6, OneMoves DEF Actors
  <2>2. act[s].c # x /\ act[s].c \in Connects
    BY <1>1, <1>3, <2>1, OtherConnect, CallFits DEF CallOK
  <2> QED
    BY <1>9, <2>1, <2>2 DEF EndsInv, DisconnectedInv
<1>14. BoundIsKnown'
  <2> SUFFICES ASSUME NEW c \in Connects, NEW d \in Devices, NEW v \in Wrappers,
                      <<c, v>> \in amsConnections[d], alive[Owner[c]], connectAbilityMap[d][c] # v
               PROVE  \E b \in Actors : Keeps(job'[b], c, d, v)
    BY <1>7 DEF BoundIsKnown, Keeps
  <2>1. ~Keeps(job[t], c, d, v)
    BY <1>1 DEF Keeps
  <2> QED
    BY <1>1, <1>6, <2>1, KeepsKept DEF EndsInv, BoundIsKnown
<1>15. CalleeReportsAgree'
  BY <1>7 DEF EndsInv, CalleeReportsAgree, Recorded
<1> QED
  BY <1>8, <1>10, <1>11, <1>12, <1>13, <1>14, <1>15 DEF EndsInv

LEMMA DisconnectRemoteAbilityKept ==
  ASSUME Steady, TypeInv, SteadyInv, EndsInv,
         NEW t \in Threads, NEW x \in Connects, DisconnectRemoteAbility(t, x)
  PROVE  SteadyInv' /\ EndsInv'
<1>1. t \in Actors /\ act[t].op = "idle"
  BY DEF Actors, DisconnectRemoteAbility, MayCall
<1>2. job[t].st = "none"
  BY <1>1, IdleHasNoHandler
<1>3. PICK y : y = [op |-> "disconnect", c |-> x, tries |-> 0,
                    todo |-> distributedConnectAbilityMap[x]]
  OBVIOUS
<1>4. y.op = "disconnect" /\ y.c = x /\ y.todo = distributedConnectAbilityMap[x]
  BY <1>3
<1>5. PICK i : i = job[t]
  OBVIOUS
<1>6. Moves(t, y, i)
  BY <1>1, <1>3, <1>5, ActMoves DEF DisconnectRemoteAbility
<1>7. /\ UNCHANGED <<connectAbilityMap, amsConnections, calleeReports, alive, job>>
      /\ UNCHANGED <<online, remoteOfflineTask, dmsAdapterHandler>>
  BY DEF DisconnectRemoteAbility, calleeVars, WorldUnchanged, worldVars
<1>8. \A s \in Threads : act[s].op # "idle" => act[s].c # x
  BY DEF DisconnectRemoteAbility, MayCall, InUse, Steady
<1>9. SteadyInv'
  <2>1. Fits(y, i)
    BY <1>2, <1>5, NoHandlerFits
  <2> QED
    BY <1>1, <1>4, <1>6, <1>7, <1>8, <2>1, SteadyKept
<1>10. \A c \in Connects : distributedConnectAbilityMap'[c] =
          IF c = x THEN {} ELSE distributedConnectAbilityMap[c]
  BY DEF DisconnectRemoteAbility, TypeInv, TypeOK, CallerTypes
<1>11. ConnectsKnow'
  <2>1. Knows(y, i)'
    BY <1>2, <1>5 DEF Knows
  <2> QED
    BY <1>1, <1>6, <1>7, <2>1, KnowsKept
<1>12. RecordHasSession'
  <2> SUFFICES ASSUME NEW c \in Connects, NEW d \in Devices, c \in Recorded(d)',
                      d \notin distributedConnectAbilityMap'[c]
               PROVE  \E b \in Actors : Settles(act'[b], job'[b], c, d)
    BY DEF RecordHasSession, Settles, Answers, Releases, Buries
  <2>1. c \in Recorded(d)
    BY <1>7 DEF Recorded
  <2>2. CASE d \in distributedConnectAbilityMap[c]
    <3>1. c = x
      BY <1>10, <2>2
    <3>2. act'[t] = y /\ job'[t] = i
      BY <1>1, <1>6, OneMoves
    <3>3. Settles(act'[t], job'[t], c, d)
      BY <1>2, <1>4, <1>5, <2>2, <3>1, <3>2 DEF Settles, Releases
    <3> QED
      BY <1>1, <3>3
  <2>3. CASE d \notin distributedConnectAbilityMap[c]
    <3>1. ~Settles(act[t], job[t], c, d)
      BY <1>1 DEF Settles, Answers, Releases, Buries
    <3> QED
      BY <1>1, <1>6, <2>1, <2>3, <3>1, SettlesKept DEF EndsInv, RecordHasSession
  <2> QED
    BY <2>2, <2>3
<1>13. SessionHasRecord'
  BY <1>7, <1>10 DEF EndsInv, SessionHasRecord, Recorded
<1>14. DisconnectedInv'
  <2> SUFFICES ASSUME NEW s \in Threads, act'[s].op = "disconnect"
               PROVE  distributedConnectAbilityMap'[act'[s].c] = {}
    BY DEF DisconnectedInv
  <2>1. s \in Actors
    BY DEF Actors
  <2>2. CASE s = t
    <3>1. act'[s] = y
      BY <2>1, <2>2, <1>6, OneMoves
    <3> QED
      BY <1>4, <1>10, <3>1
  <2>3. CASE s # t
    <3>1. act'[s] = act[s]
      BY <1>1, <1>6, <2>1, <2>3, OneMoves
    <3>2. act[s].c \in Connects
      BY <2>1, <3>1, CallFits DEF CallOK
    <3> QED
      BY <1>10, <3>1, <3>2 DEF EndsInv, DisconnectedInv
  <2> QED
    BY <2>2, <2>3
<1>15. BoundIsKnown' /\ CalleeReportsAgree'
  BY <1>7 DEF EndsInv, BoundIsKnown, Keeps, CalleeReportsAgree, Recorded
<1> QED
  BY <1>9, <1>11, <1>12, <1>13, <1>14, <1>15 DEF EndsInv

-----------------------------------------------------------------------------
(* Deaths. *)

(* A task is queued only by being posted. *)
LEMMA AppendOnly ==
  ASSUME NEW queue \in Seq(Tasks), NEW x \in Tasks, NEW task, Queued(Append(queue, x), task)
  PROVE  task = x \/ Queued(queue, task)
<1>1. PICK n \in Nat : n = Len(queue)
  BY LenProperties
<1>2. /\ Len(Append(queue, x)) = n + 1
      /\ \A i \in 1..n : Append(queue, x)[i] = queue[i]
      /\ Append(queue, x)[n + 1] = x
  BY <1>1, AppendProperties
<1>3. PICK i \in 1..(n + 1) : Append(queue, x)[i] = task
  BY <1>2 DEF Queued
<1>4. i = n + 1 \/ i \in 1..n
  OBVIOUS
<1> QED
  BY <1>1, <1>2, <1>3, <1>4 DEF Queued

LEMMA TailOnly ==
  ASSUME NEW queue \in Seq(Tasks), queue # << >>
  PROVE  /\ Queued(queue, Head(queue))
         /\ \A task : Queued(Tail(queue), task) => Queued(queue, task)
<1>1. PICK n \in Nat : n = Len(queue)
  BY LenProperties
<1>2. /\ Len(Tail(queue)) = n - 1
      /\ \A i \in 1..(n - 1) : Tail(queue)[i] = queue[i + 1]
  BY <1>1, HeadTailProperties
<1>3. n # 0 /\ queue[1] = Head(queue)
  BY <1>1, EmptySeq
<1>4. 1 \in 1..n /\ \A i \in 1..(n - 1) : i + 1 \in 1..n
  BY <1>3
<1> QED
  BY <1>1, <1>2, <1>3, <1>4 DEF Queued

LEMMA ProcessDiesKept ==
  ASSUME TypeInv, SteadyInv, EndsInv, NEW p \in Processes, ProcessDies(p)
  PROVE  SteadyInv' /\ EndsInv'
<1>1. /\ UNCHANGED <<distributedConnectAbilityMap, connectAbilityMap, amsConnections>>
      /\ UNCHANGED <<calleeReports, act, job, online, remoteOfflineTask, dmsAdapterHandler>>
  BY DEF ProcessDies, callerVars, calleeVars
<1>2. \A q \in Processes : alive'[q] => alive[q]
  BY DEF ProcessDies, TypeInv, TypeOK, WorldTypes
<1>3. \A c \in Connects : alive'[Owner[c]] => alive[Owner[c]]
  BY <1>2, UidType
<1>4. act[Handler].op = "notify" => act[Handler].c \in Connects
  BY CallFits DEF CallOK, Actors
<1>5. SteadyInv'
  <2>1. Roles' /\ Alone' /\ NetworkInv' /\ \A a \in Actors : Fits(act[a], job[a])'
    BY <1>1 DEF SteadyInv, Roles, Alone, NetworkInv, Fits
  <2>2. DeadInv'
    BY <1>1, <1>3, <1>4 DEF SteadyInv, DeadInv
  <2> QED
    BY <2>1, <2>2 DEF SteadyInv
<1>6. RecordHasSession' /\ DisconnectedInv' /\ CalleeReportsAgree'
  BY <1>1 DEF EndsInv, RecordHasSession, DisconnectedInv, CalleeReportsAgree, Recorded,
     Settles, Answers, Releases, Buries
<1>7. SessionHasRecord' /\ BoundIsKnown'
  BY <1>1, <1>3 DEF EndsInv, SessionHasRecord, BoundIsKnown, Recorded, Keeps
<1>8. ConnectsKnow'
  <2> SUFFICES ASSUME NEW a \in Actors PROVE Knows(act[a], job[a])'
    BY DEF ConnectsKnow
  <2>1. Knows(act[a], job[a]) /\ (job[a].st # "none" => job[a].c \in Connects)
    BY CallFits DEF CallOK
  <2>2. job[a].st # "none" /\ alive'[Owner[job[a].c]] => alive[Owner[job[a].c]]
    BY <1>3, <2>1
  <2> QED
    BY <1>1, <2>1, <2>2 DEF Knows, Recorded
<1> QED
  BY <1>5, <1>6, <1>7, <1>8 DEF EndsInv

(* A step that changes nothing but the queue. *)
LEMMA OnlyQueueKept ==
  ASSUME TypeInv, SteadyInv, EndsInv, UNCHANGED <<ends, online, remoteOfflineTask, alive, act, job>>,
         \A task : Queued(dmsAdapterHandler', task) =>
            \/ Queued(dmsAdapterHandler, task)
            \/ \E c \in Connects : task = DiedTask(c) /\ ~alive[Owner[c]]
  PROVE  SteadyInv' /\ EndsInv'
<1>1. NetworkInv'
  <2>1. \A d \in Devices : ~Queued(dmsAdapterHandler', OfflineTask(d))
    BY TaskKinds DEF SteadyInv, NetworkInv
  <2> QED
    BY <2>1 DEF SteadyInv, NetworkInv
<1>2. DeadInv'
  <2>1. \A c \in Connects : Queued(dmsAdapterHandler', DiedTask(c)) => ~alive[Owner[c]]
    BY TaskKinds DEF SteadyInv, DeadInv
  <2> QED
    BY <2>1 DEF SteadyInv, DeadInv
<1>3. SteadyInv'
  BY <1>1, <1>2 DEF SteadyInv, Roles, Alone, Fits
<1>4. EndsInv'
  BY DEF EndsInv, ends, RecordHasSession, SessionHasRecord, ConnectsKnow, DisconnectedInv,
     BoundIsKnown, CalleeReportsAgree, Recorded, Knows, Keeps, Settles, Answers, Releases, Buries
<1> QED
  BY <1>3, <1>4

LEMMA OnRemoteDiedKept ==
  ASSUME TypeInv, SteadyInv, EndsInv, NEW c \in Connects, OnRemoteDied(c)
  PROVE  SteadyInv' /\ EndsInv'
<1>1. UNCHANGED <<ends, online, remoteOfflineTask, alive, act, job>>
  BY DEF OnRemoteDied, ends, calleeVars, WorldUnchanged, worldVars
<1>2. dmsAdapterHandler \in Seq(Tasks) /\ DiedTask(c) \in Tasks
  BY TaskKinds DEF TypeInv, TypeOK
<1>3. dmsAdapterHandler' = Append(dmsAdapterHandler, DiedTask(c)) /\ ~alive[Owner[c]]
  BY DEF OnRemoteDied
<1>4. \A task : Queued(dmsAdapterHandler', task) =>
         task = DiedTask(c) \/ Queued(dmsAdapterHandler, task)
  BY <1>2, <1>3, AppendOnly
<1> QED
  BY <1>1, <1>3, <1>4, OnlyQueueKept

LEMMA ProcessConnectDiedKept ==
  ASSUME TypeInv, SteadyInv, EndsInv, NEW x \in Connects, ProcessConnectDied(x)
  PROVE  SteadyInv' /\ EndsInv'
<1>1. /\ UNCHANGED <<connectAbilityMap, amsConnections, calleeReports, alive, job>>
      /\ UNCHANGED <<online, remoteOfflineTask>>
  BY DEF ProcessConnectDied, calleeVars, WorldUnchanged, worldVars
<1>2. dmsAdapterHandler \in Seq(Tasks) /\ dmsAdapterHandler # << >>
      /\ Head(dmsAdapterHandler) = DiedTask(x) /\ dmsAdapterHandler' = Tail(dmsAdapterHandler)
  BY DEF ProcessConnectDied, NextTask, TypeInv, TypeOK
<1>3. \A task : Queued(dmsAdapterHandler', task) => Queued(dmsAdapterHandler, task)
  BY <1>2, TailOnly
<1>4. ~alive[Owner[x]]
  BY <1>2, TailOnly DEF SteadyInv, DeadInv
<1>5. CASE x \notin Registered
  <2>1. UNCHANGED <<ends, online, remoteOfflineTask, alive, act, job>>
    BY <1>1, <1>5 DEF ProcessConnectDied, callerVars, ends
  <2> QED
    BY <1>3, <2>1, OnlyQueueKept
<1>6. CASE x \in Registered
  <2> DEFINE dead == SameCaller(x) \cap Registered
  <2>1. PICK y : y = [op |-> "notify", c |-> x, tries |-> 0, todo |-> DevicesToTell(x, dead)]
    OBVIOUS
  <2>2. y.op = "notify" /\ y.c = x /\ y.todo = DevicesToTell(x, dead)
    BY <2>1
  <2>3. /\ act' = [act EXCEPT ![Handler] = y]
        /\ distributedConnectAbilityMap' = [c \in Connects |->
              IF c \in dead THEN {} ELSE distributedConnectAbilityMap[c]]
    BY <1>6, <2>1 DEF ProcessConnectDied
  <2>4. Handler \in Actors /\ act[Handler].op = "idle" /\ Handler \notin Threads
    BY ConnectAssumption DEF Actors, ProcessConnectDied, NextTask
  <2>5. job[Handler].st = "none"
    BY <2>4, IdleHasNoHandler
  <2>6. PICK i : i = job[Handler]
    OBVIOUS
  <2>7. Moves(Handler, y, i)
    BY <1>1, <2>3, <2>4, <2>6, ActMoves
  <2>8. \A a \in Actors : /\ act'[a] = IF a = Handler THEN y ELSE act[a]
                          /\ job'[a] = job[a]
    BY <1>1, <2>4, <2>7, OneMoves
  <2>9. \A t \in Threads : t \in Actors /\ act'[t] = act[t]
    BY <2>4, <2>8 DEF Actors
  <2>10. SteadyInv'
    <3>1. \A a \in Actors : Fits(act'[a], job'[a])
      BY <2>5, <2>6, <2>8, NoHandlerFits DEF SteadyInv
    <3>2. Roles'
      BY <2>2, <2>4, <2>8, <2>9 DEF SteadyInv, Roles
    <3>3. Alone'
      BY <2>9 DEF SteadyInv, Alone
    <3>4. NetworkInv'
      BY <1>1, <1>3 DEF SteadyInv, NetworkInv
    <3>5. DeadInv'
      BY <1>1, <1>3, <1>4, <2>2, <2>4, <2>8 DEF SteadyInv, DeadInv
    <3> QED
      BY <3>1, <3>2, <3>3, <3>4, <3>5 DEF SteadyInv, Fits
  <2>11. \A c \in Connects : c \in dead <=> /\ Owner[c] = Owner[x]
                                            /\ distributedConnectAbilityMap[c] # {}
    BY DEF SameCaller, ConnectsOf, Registered
  <2>12. \A c \in dead : distributedConnectAbilityMap[c] \subseteq y.todo
    BY <2>2 DEF DevicesToTell
  <2> HIDE DEF dead
  <2>13. \A c \in Connects : \/ distributedConnectAbilityMap'[c] = distributedConnectAbilityMap[c]
                             \/ c \in dead /\ distributedConnectAbilityMap'[c] = {}
    BY <2>3
  <2>14. ConnectsKnow'
    <3>1. Knows(y, i)'
      BY <2>5, <2>6 DEF Knows
    <3> QED
      BY <1>1, <2>4, <2>7, <3>1, KnowsKept
  <2>15. RecordHasSession'
    <3> SUFFICES ASSUME NEW c \in Connects, NEW d \in Devices, c \in Recorded(d)',
                        d \notin distributedConnectAbilityMap'[c]
                 PROVE  \E b \in Actors : Settles(act'[b], job'[b], c, d)
      BY DEF RecordHasSession, Settles, Answers, Releases, Buries
    <3>1. c \in Recorded(d)
      BY <1>1 DEF Recorded
    <3>2. CASE d \in distributedConnectAbilityMap[c]
      <4>1. c \in dead
        BY <2>13, <3>2
      <4>2. d \in y.todo /\ Owner[c] = Owner[x]
        BY <2>11, <2>12, <3>2, <4>1
      <4>3. act'[Handler] = y /\ job'[Handler] = i
        BY <2>4, <2>6, <2>8
      <4>4. Settles(act'[Handler], job'[Handler], c, d)
        BY <2>2, <2>5, <2>6, <4>2, <4>3 DEF Settles, Buries
      <4> QED
        BY <2>4, <4>4
    <3>3. CASE d \notin distributedConnectAbilityMap[c]
      <4>1. ~Settles(act[Handler], job[Handler], c, d)
        BY <2>4 DEF Settles, Answers, Releases, Buries
      <4> QED
        BY <2>4, <2>7, <3>1, <3>3, <4>1, SettlesKept DEF EndsInv, RecordHasSession
    <3> QED
      BY <3>2, <3>3
  <2>16. SessionHasRecord'
    BY <1>1, <2>13 DEF EndsInv, SessionHasRecord, Recorded
  <2>17. DisconnectedInv'
    <3> SUFFICES ASSUME NEW t \in Threads, act'[t].op = "disconnect"
                 PROVE  distributedConnectAbilityMap'[act'[t].c] = {}
      BY DEF DisconnectedInv
    <3>1. act'[t] = act[t] /\ act[t].c \in Connects
      BY <2>9, CallFits DEF CallOK
    <3> QED
      BY <2>13, <3>1 DEF EndsInv, DisconnectedInv
  <2>18. BoundIsKnown' /\ CalleeReportsAgree'
    BY <1>1 DEF EndsInv, BoundIsKnown, Keeps, CalleeReportsAgree, Recorded
  <2> QED
    BY <2>10, <2>14, <2>15, <2>16, <2>17, <2>18 DEF EndsInv
<1> QED
  BY <1>5, <1>6

-----------------------------------------------------------------------------

LEMMA NextEndsInv ==
  ASSUME Steady
  PROVE  TypeInv /\ SteadyInv /\ EndsInv /\ [Next]_vars => SteadyInv' /\ EndsInv'
<1> SUFFICES ASSUME TypeInv, SteadyInv, EndsInv, [Next]_vars
             PROVE  SteadyInv' /\ EndsInv'
  OBVIOUS
<1>1. CASE UNCHANGED vars
  <2>1. /\ UNCHANGED <<ends, online, remoteOfflineTask, alive, act, job>>
        /\ dmsAdapterHandler' = dmsAdapterHandler
    BY <1>1 DEF vars, callerVars, calleeVars, worldVars, ends
  <2> QED
    BY <2>1, OnlyQueueKept
<1>2. CASE \E t \in Threads, c \in Connects : DisconnectRemoteAbility(t, c)
  BY <1>2, DisconnectRemoteAbilityKept
<1>3. CASE \E t \in Threads, c \in Connects, d \in Devices : ConnectRemoteAbility(t, c, d)
  BY <1>3, ConnectRemoteAbilityTalks, TalksKept
<1>4. ASSUME NEW t \in Threads,
             SendConnect(t) \/ ConnectSucceeds(t) \/ ConnectRefused(t) \/ ConnectGivesUp(t)
      PROVE  SteadyInv' /\ EndsInv'
  <2>1. CASE ConnectSucceeds(t)
    BY <2>1, ConnectSucceedsKept
  <2>2. CASE SendConnect(t) \/ ConnectRefused(t) \/ ConnectGivesUp(t)
    BY <2>2, SendConnectTalks, ConnectRefusedTalks, ConnectGivesUpTalks, TalksKept
  <2> QED
    BY <1>4, <2>1, <2>2
<1>5. ASSUME NEW a \in Actors, CallNextDevice(a) \/ CallReturns(a) \/ CallsDone(a)
      PROVE  SteadyInv' /\ EndsInv'
  BY <1>5, CallNextDeviceTalks, CallReturnsTalks, CallsDoneTalks, TalksKept
<1>6. ASSUME NEW a \in Actors, CalleeStep(a) PROVE SteadyInv' /\ EndsInv'
  <2>1. CASE CheckDPermissionDenies(a) \/ AmsRefuses(a) \/ ConnectAbilityFromRemoteFinds(a)
    BY <2>1, RefusalTalks, ConnectAbilityFromRemoteFindsTalks, TalksKept
  <2>2. CASE \/ AmsConnectAbility(a) \/ ConnectAbilityFromRemoteRecords(a)
             \/ DisconnectAbilityFromRemote(a) \/ AmsDisconnectAbility(a)
             \/ NotifyProcessDiedFromRemote(a)
    BY <2>2, AmsConnectAbilityKept, ConnectAbilityFromRemoteRecordsKept,
       DisconnectAbilityFromRemoteKept, AmsDisconnectAbilityKept, NotifyProcessDiedFromRemoteKept
  <2> QED
    BY <1>6, <2>1, <2>2 DEF CalleeStep
<1>7. CASE \E c \in Connects : ProcessConnectDied(c) \/ OnRemoteDied(c)
  BY <1>7, ProcessConnectDiedKept, OnRemoteDiedKept
<1>8. CASE \E p \in Processes : ProcessDies(p)
  BY <1>8, ProcessDiesKept
<1> QED
  BY <1>1, <1>2, <1>3, <1>4, <1>5, <1>6, <1>7, <1>8, SteadySteps DEF SteadyInv

LEMMA InitEndsInv == Init => SteadyInv /\ EndsInv
<1> SUFFICES ASSUME Init PROVE SteadyInv /\ EndsInv
  OBVIOUS
<1>1. \A a \in Actors : act[a] = Idle /\ job[a] = NoJob
  BY DEF Init
<1>2. \A a \in Actors : act[a].op = "idle" /\ job[a].st = "none"
  BY <1>1, IdleFields, NoJobFields
<1>3. (\A t \in Threads : t \in Actors) /\ Handler \in Actors
  BY DEF Actors
<1>4. SteadyInv
  <2>1. \A a \in Actors : Fits(act[a], job[a])
    BY <1>2, NoHandlerFits
  <2>2. Roles /\ Alone
    BY <1>2, <1>3 DEF Roles, Alone
  <2>3. \A task : ~Queued(dmsAdapterHandler, task)
    BY DEF Init, Queued
  <2>4. NetworkInv
    BY <2>3 DEF Init, NetworkInv
  <2>5. DeadInv
    BY <1>2, <1>3, <2>3 DEF DeadInv
  <2> QED
    BY <2>1, <2>2, <2>4, <2>5 DEF SteadyInv
<1>5. \A d \in Devices : Recorded(d) = {} /\ amsConnections[d] = {} /\ calleeReports[d] = 0
  BY DEF Init, Recorded
<1>6. \A c \in Connects : distributedConnectAbilityMap[c] = {}
  BY DEF Init
<1>7. RecordHasSession /\ SessionHasRecord /\ BoundIsKnown
  BY <1>5, <1>6 DEF RecordHasSession, SessionHasRecord, BoundIsKnown
<1>8. ConnectsKnow
  BY <1>2, NoHandlerFits DEF ConnectsKnow
<1>9. DisconnectedInv
  BY <1>2, <1>3 DEF DisconnectedInv
<1>10. CalleeReportsAgree
  BY <1>5, FS_EmptySet DEF CalleeReportsAgree
<1> QED
  BY <1>4, <1>7, <1>8, <1>9, <1>10 DEF EndsInv

(* Where an application uses a connect in one call at a time, calls do not time   *)
(* out and devices stay online, the caller has a session exactly where the device *)
(* has a record, once nothing is under way: neither a death between two steps of  *)
(* a connect nor one before its recipient is added leaves a half of it behind.    *)
THEOREM EndsCorrect ==
    ASSUME Serial, ~RpcTimeouts, MaxDowns = 0
    PROVE  Spec => []TablesAgree
<1>1. Steady
  BY DEF Steady
<1>2. TypeInv /\ SteadyInv /\ EndsInv /\ EveryConnectWatched => TablesAgree
  <2> SUFFICES ASSUME TypeInv, SteadyInv, EndsInv, EveryConnectWatched, Quiet,
                      NEW c \in Connects, NEW d \in Devices
               PROVE  d \in distributedConnectAbilityMap[c] <=> c \in Recorded(d)
    BY DEF TablesAgree
  <2>1. \A a \in Actors : ~Settles(act[a], job[a], c, d)
    BY DEF Quiet, Settles, Answers, Releases, Buries
  <2>2. c \in Registered => alive[Owner[c]]
    <3>1. \A task : ~Queued(dmsAdapterHandler, task)
      BY DEF Quiet, Queued
    <3> QED
      BY <3>1 DEF Quiet, EveryConnectWatched, Queued
  <2>3. d \in distributedConnectAbilityMap[c] => c \in Registered
    BY DEF Registered
  <2> QED
    BY <2>1, <2>2, <2>3 DEF EndsInv, RecordHasSession, SessionHasRecord
<1>3. Init => EveryConnectWatched
  BY DEF Init, EveryConnectWatched, Registered
<1> QED
  BY <1>1, <1>2, <1>3, InitTypeInv, NextTypeInv, InitEndsInv, NextEndsInv, NextWatchInv, PTL DEF Spec

(* Under the same conditions what the callee told the resource scheduler adds up, *)
(* at every moment: ConnectAbilityFromRemote reports no addition without a new     *)
(* entry, and DisconnectAbilityFromRemote no removal without the loss of one.      *)
THEOREM CalleeReportsCorrect ==
    ASSUME Serial, ~RpcTimeouts, MaxDowns = 0
    PROVE  Spec => []CalleeReportsAgree
<1>1. Steady
  BY DEF Steady
<1>2. EndsInv => CalleeReportsAgree
  BY DEF EndsInv
<1> QED
  BY <1>1, <1>2, InitTypeInv, NextTypeInv, InitEndsInv, NextEndsInv, PTL DEF Spec

(* Under the same conditions, and until a process dies, no ability stays bound by *)
(* a wrapper that no table knows.                                                 *)
THEOREM NoOrphanCorrect ==
    ASSUME Serial, ~RpcTimeouts, MaxDowns = 0
    PROVE  Spec => []NoOrphanBinding
<1>1. Steady
  BY DEF Steady
<1>2. TypeInv /\ EndsInv => NoOrphanBinding
  <2> SUFFICES ASSUME TypeInv, EndsInv, Quiet, \A p \in Processes : alive[p],
                      NEW d \in Devices, NEW b \in amsConnections[d]
               PROVE  connectAbilityMap[d][b[1]] = b[2]
    BY DEF NoOrphanBinding
  <2>1. b \in Connects \X Wrappers
    BY DEF TypeInv, TypeOK, CalleeTypes
  <2>2. PICK c \in Connects, w \in Wrappers : b = <<c, w>>
    BY <2>1
  <2>3. alive[Owner[c]]
    BY UidType
  <2>4. \A a \in Actors : ~Keeps(job[a], c, d, w)
    BY DEF Quiet, Keeps
  <2> QED
    BY <2>2, <2>3, <2>4 DEF EndsInv, BoundIsKnown
<1> QED
  BY <1>1, <1>2, InitTypeInv, NextTypeInv, InitEndsInv, NextEndsInv, PTL DEF Spec
=============================================================================
