----------------------------- MODULE DmsCallProofs -----------------------------
(***************************************************************************)
(* What DmsCall promises for any devices, connects and threads, and for    *)
(* any bounds on wrappers, calls and failures of links.                    *)
(***************************************************************************)
EXTENDS DmsCall, SequenceTheorems, TLAPS

-----------------------------------------------------------------------------
(* Types.  A thread that is not idle names a call, and a handler that serves one knows   *)
(* its proxy, and the wrapper once it has found or forgotten one; the thread waits for   *)
(* it, or gave up.  A device that is away has failed less often than it may.             *)
CallPlaces == {"idle", "waiting", "gaveUp", "ok"}
JobPlaces == {"none", "start", "found", "started", "recorded", "release", "erased"}
CallSet == [pc : CallPlaces, op : {"none", "start", "release"},
            c : Connects \cup {None}, d : Devices \cup {None}]
JobSet == [pc : JobPlaces, k : Proxies \cup {None}, w : Wrappers \cup {0}]
Deaths == {"callerDied", "calleeDied"}

Good(x, j) ==
    /\ x \in CallSet /\ j \in JobSet
    /\ x.pc # "idle" => x.c \in Connects /\ x.d \in Devices
    /\ j.pc # "none" => x.pc \in {"waiting", "gaveUp"} /\ j.k \in Proxies
    /\ j.pc \notin {"none", "start", "release"} => j.w \in Wrappers

ThreadType ==
    /\ th \in [Threads -> CallSet] /\ job \in [Threads -> JobSet]
    /\ \A t \in Threads : Good(th[t], job[t])
WorldType ==
    /\ alive \in SUBSET Connects /\ online \in SUBSET Devices /\ offlineDue \in SUBSET Devices
    /\ epoch \in [Devices -> 0..MaxDowns]
    /\ \A d \in Devices \ online : epoch[d] < MaxDowns
CallerType ==
    /\ callerMap \in [Connects -> SUBSET Devices]
    /\ callerWatch \in SUBSET Connects /\ callerDied \in SUBSET Connects
CalleeType ==
    /\ calleeMap \in [Devices -> [Proxies -> Wrappers \cup {0}]]
    /\ calleeWatch \in [Devices -> SUBSET Proxies]
    /\ calleeTasks \in [Devices -> [Proxies -> Seq(Deaths)]]
    /\ handling \in [Devices -> (Proxies \X Wrappers) \cup {None}]
    /\ bound \in [Devices -> SUBSET (Proxies \X Wrappers)]

TypeInv == ThreadType /\ WorldType /\ CallerType /\ CalleeType

LEMMA IdleGood == Good(Idle, NoJob)
  BY DEF Good, Idle, NoJob, CallSet, CallPlaces, JobSet, JobPlaces

LEMMA NotCalls == Idle.pc = "idle" /\ Idle.c = None /\ NoJob.pc = "none"
  BY DEF Idle, NoJob

LEMMA ProxyType ==
    ASSUME WorldType, NEW c \in Connects, NEW d \in Devices
    PROVE  ProxyOf(c, d) \in Proxies
  BY DEF ProxyOf, Proxies, WorldType

LEMMA PairedType ==
    ASSUME ThreadType, NEW t \in Threads, NEW x, NEW j, Good(x, j),
           th' = [th EXCEPT ![t] = x], job' = [job EXCEPT ![t] = j]
    PROVE  ThreadType'
  BY DEF ThreadType, Good

LEMMA WithPlace ==
    ASSUME NEW x \in CallSet, NEW p \in CallPlaces
    PROVE  LET y == [x EXCEPT !.pc = p] IN
           y \in CallSet /\ y.pc = p /\ y.op = x.op /\ y.c = x.c /\ y.d = x.d
  BY DEF CallSet

LEMMA GoesType ==
    ASSUME ThreadType, NEW t \in Threads, NEW p \in JobPlaces, NEW w \in Wrappers,
           job[t].pc # "none", Goes(t, p, w), UNCHANGED th
    PROVE  ThreadType'
  <1>1. PICK j : j = [pc |-> p, k |-> job[t].k, w |-> w]
    OBVIOUS
  <1>2. Good(th[t], j)
    BY <1>1 DEF ThreadType, Good, JobSet
  <1>3. th' = [th EXCEPT ![t] = th[t]] /\ job' = [job EXCEPT ![t] = j]
    BY <1>1 DEF Goes, ThreadType
  <1>4. PICK x : x = th[t]
    OBVIOUS
  <1>5. QED
    BY <1>2, <1>3, <1>4, PairedType

LEMMA EndsType ==
    ASSUME ThreadType, NEW t \in Threads, job[t].pc # "none", Succeeds(t) \/ Fails(t)
    PROVE  ThreadType'
  <1>1. PICK y : y = [th[t] EXCEPT !.pc = "ok"]
    OBVIOUS
  <1>2. th[t] \in CallSet /\ th[t].pc \in {"waiting", "gaveUp"} /\ th[t].c \in Connects /\ th[t].d \in Devices
    BY DEF ThreadType, Good
  <1>3. Good(y, NoJob)
    BY <1>1, <1>2, WithPlace, IdleGood, NotCalls DEF Good, CallPlaces
  <1>4. PICK i, n : i = Idle /\ n = NoJob
    OBVIOUS
  <1>5. Good(i, n) /\ Good(y, n)
    BY <1>3, <1>4, IdleGood
  <1>6. job' = [job EXCEPT ![t] = n] /\ (th' = [th EXCEPT ![t] = i] \/ th' = [th EXCEPT ![t] = y])
    BY <1>1, <1>4 DEF Succeeds, Fails
  <1>7. QED
    BY <1>5, <1>6, PairedType

LEMMA InitType == Init => TypeInv
  <1>1. SUFFICES ASSUME Init PROVE TypeInv
    OBVIOUS
  <1>2. ThreadType
    BY <1>1, IdleGood DEF Init, ThreadType, Good
  <1>3. WorldType /\ CallerType
    BY <1>1, CallAssumption DEF Init, WorldType, CallerType
  <1>4. CalleeType
    BY <1>1 DEF Init, CalleeType
  <1>5. QED
    BY <1>2, <1>3, <1>4 DEF TypeInv

(* A call begins. *)
LEMMA CallsType ==
    ASSUME TypeInv, NEW t \in Threads, NEW c \in Connects, NEW d \in Devices,
           NEW op \in {"start", "release"}, Calls(t, c, d, op)
    PROVE  ThreadType' /\ UNCHANGED <<callerVars, calleeVars, linkVars>>
  <1>1. PICK x : x = [pc |-> "waiting", op |-> op, c |-> c, d |-> d]
    OBVIOUS
  <1>2. PICK j : j = [pc |-> op, k |-> ProxyOf(c, d), w |-> 0]
    OBVIOUS
  <1>3. ProxyOf(c, d) \in Proxies
    BY ProxyType DEF TypeInv
  <1>4. Good(x, j)
    BY <1>1, <1>2, <1>3 DEF Good, CallSet, CallPlaces, JobSet, JobPlaces
  <1>5. th' = [th EXCEPT ![t] = x] /\ job' = [job EXCEPT ![t] = j]
    BY <1>1, <1>2 DEF Calls
  <1>6. QED
    BY <1>4, <1>5, PairedType DEF TypeInv, Calls

(* The threads of the caller and the jobs. *)
LEMMA StepsThreadType ==
    ASSUME TypeInv, NEW t \in Threads, ThreadSteps(t) \/ JobSteps(t)
    PROVE  ThreadType'
  <1> DEFINE d == DeviceOf(t)
             k == job[t].k
  <1>1. Good(th[t], job[t])
    BY DEF TypeInv, ThreadType
  <1>2. CASE ThreadSteps(t)
    <2>1. th[t].pc = "ok" /\ th' = [th EXCEPT ![t] = Idle] /\ job' = job
      BY <1>2 DEF ThreadSteps, SaveCallerComponent, RemoveCallerComponent
    <2>2. PICK i, j : i = Idle /\ j = job[t]
      OBVIOUS
    <2>3. Good(i, j)
      BY <1>1, <2>1, <2>2, IdleGood, NotCalls DEF Good
    <2>4. th' = [th EXCEPT ![t] = i] /\ job' = [job EXCEPT ![t] = j]
      BY <2>1, <2>2 DEF TypeInv, ThreadType
    <2>5. QED
      BY <2>3, <2>4, PairedType DEF TypeInv
  <1>3. CASE JobSteps(t)
    <2>1. job[t].pc # "none" /\ d \in Devices /\ k \in Proxies
      BY <1>1, <1>3 DEF JobSteps, StartFinds, AmsStartAbilityByCall, StartRecords, StartWatches,
                        ReleaseForgets, AmsReleaseAbility, At, Good, DeviceOf
    <2>2. calleeMap[d][k] \in Wrappers \cup {0} /\ 0 \notin Wrappers
      BY <2>1 DEF TypeInv, CalleeType, Wrappers
    <2>3. job[t].pc \notin {"none", "start", "release"} => job[t].w \in Wrappers
      BY <1>1 DEF Good
    <2>4. \/ Succeeds(t) \/ Fails(t)
          \/ \E p \in JobPlaces, w \in Wrappers : Goes(t, p, w) /\ UNCHANGED th
      <3>1. CASE StartFinds(t)
        <4>1. FreshWrappers(k, d) # {} => (CHOOSE w \in FreshWrappers(k, d) : TRUE) \in Wrappers
          BY DEF FreshWrappers
        <4>2. QED
          BY <2>2, <3>1, <4>1 DEF StartFinds, JobPlaces
      <3>2. CASE AmsStartAbilityByCall(t) \/ StartRecords(t) \/ StartWatches(t)
        BY <2>3, <3>2 DEF AmsStartAbilityByCall, StartRecords, StartWatches, At, JobPlaces
      <3>3. CASE ReleaseForgets(t) \/ AmsReleaseAbility(t)
        BY <2>2, <3>3 DEF ReleaseForgets, AmsReleaseAbility, JobPlaces
      <3>4. QED
        BY <1>3, <3>1, <3>2, <3>3 DEF JobSteps
    <2>5. QED
      BY <2>1, <2>4, EndsType, GoesType DEF TypeInv
  <1>4. QED
    BY <1>2, <1>3

LEMMA LinkDownThreadType ==
    ASSUME TypeInv, NEW d \in Devices, LinkDown(d)
    PROVE  ThreadType'
  <1> DEFINE Y(t) == [th[t] EXCEPT !.pc = "gaveUp"]
             Hit(t) == th[t].pc = "waiting" /\ th[t].d = d
  <1>1. th' = [t \in Threads |-> IF Hit(t) THEN Y(t) ELSE th[t]] /\ job' = job
    BY DEF LinkDown
  <1>2. \A t \in Threads : Good(th[t], job[t])
    BY DEF TypeInv, ThreadType
  <1>3. ASSUME NEW t \in Threads, Hit(t) PROVE Good(Y(t), job[t])
    <2>1. th[t] \in CallSet
      BY <1>2 DEF Good
    <2>2. Y(t) \in CallSet /\ Y(t).pc = "gaveUp" /\ Y(t).c = th[t].c /\ Y(t).d = th[t].d
      BY <2>1, WithPlace DEF CallPlaces
    <2>3. Good(th[t], job[t])
      BY <1>2
    <2>4. QED
      BY <1>3, <2>2, <2>3 DEF Good
  <1> HIDE DEF Y, Hit
  <1>4. \A t \in Threads : Good(th'[t], job'[t])
    BY <1>1, <1>2, <1>3
  <1>5. th' \in [Threads -> CallSet]
    BY <1>1, <1>4 DEF Good
  <1>6. QED
    BY <1>1, <1>4, <1>5 DEF ThreadType, TypeInv

(* The tables of the callee. *)
LEMMA TaskAdded ==
    ASSUME NEW q \in Seq(Deaths), NEW e \in Deaths
    PROVE  Append(q, e) \in Seq(Deaths)
  OBVIOUS

LEMMA TaskTaken ==
    ASSUME NEW q \in Seq(Deaths), q # << >>
    PROVE  Tail(q) \in Seq(Deaths)
  OBVIOUS

LEMMA MapType ==
    ASSUME CalleeType, NEW d \in Devices, NEW k \in Proxies, NEW w \in Wrappers \cup {0},
           calleeMap' = [calleeMap EXCEPT ![d][k] = w]
    PROVE  calleeMap' \in [Devices -> [Proxies -> Wrappers \cup {0}]]
  BY DEF CalleeType

LEMMA TasksType ==
    ASSUME CalleeType, NEW d \in Devices, NEW k \in Proxies, NEW q \in Seq(Deaths),
           calleeTasks' = [calleeTasks EXCEPT ![d][k] = q]
    PROVE  calleeTasks' \in [Devices -> [Proxies -> Seq(Deaths)]]
  BY DEF CalleeType

LEMMA ProxiesDieType ==
    ASSUME CalleeType, NEW S, ProxiesDie(S)
    PROVE  /\ calleeWatch' \in [Devices -> SUBSET Proxies]
           /\ calleeTasks' \in [Devices -> [Proxies -> Seq(Deaths)]]
  <1>1. \A d \in Devices, k \in Proxies :
           calleeTasks[d][k] \in Seq(Deaths) /\ Append(calleeTasks[d][k], "callerDied") \in Seq(Deaths)
    BY TaskAdded DEF CalleeType, Deaths
  <1>2. QED
    BY <1>1 DEF ProxiesDie, CalleeType

LEMMA StepsCalleeType ==
    ASSUME TypeInv, NEW t \in Threads, ThreadSteps(t) \/ JobSteps(t)
    PROVE  CalleeType'
  <1> DEFINE d == DeviceOf(t)
             k == job[t].k
  <1>1. CASE ThreadSteps(t)
    BY <1>1 DEF ThreadSteps, SaveCallerComponent, RemoveCallerComponent, calleeVars, TypeInv, CalleeType
  <1>2. CASE JobSteps(t)
    <2>1. /\ d \in Devices /\ k \in Proxies
          /\ job[t].pc \notin {"none", "start", "release"} => job[t].w \in Wrappers
      <3>1. Good(th[t], job[t]) /\ job[t].pc # "none"
        BY <1>2 DEF JobSteps, StartFinds, AmsStartAbilityByCall, StartRecords, StartWatches,
                    ReleaseForgets, AmsReleaseAbility, At, TypeInv, ThreadType
      <3>2. QED
        BY <3>1 DEF Good, DeviceOf
    <2>2. PICK dd \in Devices, kk \in Proxies : dd = d /\ kk = k
      BY <2>1
    <2>3. CASE StartFinds(t)
      BY <2>3 DEF StartFinds, calleeVars, TypeInv, CalleeType
    <2>4. CASE AmsStartAbilityByCall(t)
      <3>1. <<kk, job[t].w>> \in Proxies \X Wrappers
        BY <2>1, <2>2, <2>4 DEF AmsStartAbilityByCall, At
      <3>2. bound' = bound \/ bound' = [bound EXCEPT ![dd] = bound[dd] \cup {<<kk, job[t].w>>}]
        BY <2>2, <2>4 DEF AmsStartAbilityByCall
      <3>3. PICK B \in SUBSET (Proxies \X Wrappers) : B = bound[dd] \cup {<<kk, job[t].w>>}
        BY <3>1 DEF TypeInv, CalleeType
      <3>4. bound' \in [Devices -> SUBSET (Proxies \X Wrappers)]
        BY <3>2, <3>3 DEF TypeInv, CalleeType
      <3>5. QED
        BY <2>4, <3>4 DEF AmsStartAbilityByCall, TypeInv, CalleeType
    <2>5. CASE StartRecords(t)
      <3>1. PICK w \in Wrappers : w = job[t].w
        BY <2>1, <2>5 DEF StartRecords, At
      <3>2. calleeMap' = calleeMap \/ calleeMap' = [calleeMap EXCEPT ![dd][kk] = w]
        BY <2>2, <2>5, <3>1 DEF StartRecords
      <3>3. calleeMap' \in [Devices -> [Proxies -> Wrappers \cup {0}]]
        BY <3>2, MapType DEF TypeInv, CalleeType
      <3>4. QED
        BY <2>5, <3>3 DEF StartRecords, TypeInv, CalleeType
    <2>6. CASE StartWatches(t)
      <3>1. \/ calleeWatch' = [calleeWatch EXCEPT ![dd] = calleeWatch[dd] \cup {kk}] /\ calleeTasks' = calleeTasks
            \/ /\ calleeTasks' = [calleeTasks EXCEPT ![dd][kk] = Append(calleeTasks[dd][kk], "callerDied")]
               /\ calleeWatch' = calleeWatch
        BY <2>2, <2>6 DEF StartWatches
      <3>2. PICK q \in Seq(Deaths) : q = Append(calleeTasks[dd][kk], "callerDied")
        BY TaskAdded DEF TypeInv, CalleeType, Deaths
      <3>3. calleeTasks' \in [Devices -> [Proxies -> Seq(Deaths)]]
        BY <3>1, <3>2, TasksType DEF TypeInv, CalleeType
      <3>4. PICK W \in SUBSET Proxies : W = calleeWatch[dd] \cup {kk}
        BY DEF TypeInv, CalleeType
      <3>5. calleeWatch' \in [Devices -> SUBSET Proxies]
        BY <3>1, <3>4 DEF TypeInv, CalleeType
      <3>6. QED
        BY <2>6, <3>3, <3>5 DEF StartWatches, TypeInv, CalleeType
    <2>7. CASE ReleaseForgets(t)
      <3>1. calleeMap' = calleeMap \/ calleeMap' = [calleeMap EXCEPT ![dd][kk] = 0]
        BY <2>2, <2>7 DEF ReleaseForgets, Forgets
      <3>2. calleeMap' \in [Devices -> [Proxies -> Wrappers \cup {0}]]
        BY <3>1, MapType DEF TypeInv, CalleeType
      <3>3. calleeWatch' = calleeWatch \/ calleeWatch' = [calleeWatch EXCEPT ![dd] = calleeWatch[dd] \ {kk}]
        BY <2>2, <2>7 DEF ReleaseForgets
      <3>4. calleeWatch' \in [Devices -> SUBSET Proxies]
        BY <3>3 DEF TypeInv, CalleeType
      <3>5. QED
        BY <2>7, <3>2, <3>4 DEF ReleaseForgets, TypeInv, CalleeType
    <2>8. CASE AmsReleaseAbility(t)
      BY <2>2, <2>8 DEF AmsReleaseAbility, TypeInv, CalleeType
    <2>9. QED
      BY <1>2, <2>3, <2>4, <2>5, <2>6, <2>7, <2>8 DEF JobSteps
  <1>3. QED
    BY <1>1, <1>2

LEMMA NextDeathType ==
    ASSUME CalleeType, NEW d \in Devices, NEW k \in Proxies, NEW kind, NextDeath(d, k, kind)
    PROVE  /\ calleeMap' \in [Devices -> [Proxies -> Wrappers \cup {0}]]
           /\ calleeTasks' \in [Devices -> [Proxies -> Seq(Deaths)]]
  <1>1. PICK q \in Seq(Deaths) : q = Tail(calleeTasks[d][k])
    BY TaskTaken DEF NextDeath, CalleeType
  <1>2. calleeTasks' = [calleeTasks EXCEPT ![d][k] = q]
    BY <1>1 DEF NextDeath
  <1>3. calleeMap' = [calleeMap EXCEPT ![d][k] = 0]
    BY DEF NextDeath, Forgets
  <1>4. QED
    BY <1>2, <1>3, MapType, TasksType

LEMMA HandlerCalleeType ==
    ASSUME TypeInv, NEW d \in Devices, HandlerSteps(d)
    PROVE  CalleeType'
  <1>1. CASE ProcessCalleeOffline(d)
    BY <1>1 DEF ProcessCalleeOffline, calleeVars, TypeInv, CalleeType
  <1>2. CASE HandlerReleases(d)
    BY <1>2 DEF HandlerReleases, TypeInv, CalleeType
  <1>3. ASSUME NEW k \in Proxies, ProcessCallerDied(d, k) PROVE CalleeType'
    <2>1. calleeMap[d][k] # 0 => <<k, calleeMap[d][k]>> \in Proxies \X Wrappers
      BY DEF TypeInv, CalleeType
    <2>2. handling' \in [Devices -> (Proxies \X Wrappers) \cup {None}]
      BY <1>3, <2>1 DEF ProcessCallerDied, TypeInv, CalleeType
    <2>3. QED
      BY <1>3, <2>2, NextDeathType DEF ProcessCallerDied, TypeInv, CalleeType
  <1>4. ASSUME NEW k \in Proxies, ProcessCalleeDied(d, k) PROVE CalleeType'
    BY <1>4, NextDeathType DEF ProcessCalleeDied, TypeInv, CalleeType
  <1>5. QED
    BY <1>1, <1>2, <1>3, <1>4 DEF HandlerSteps

(* The applications, the abilities and the links. *)
LEMMA WorldStepsType ==
    ASSUME TypeInv,
           \/ \E c \in Connects : HandleLocalCallerDied(c) \/ ApplicationDies(c)
           \/ \E d \in Devices : AbilityDies(d) \/ LinkDown(d) \/ LinkUp(d)
    PROVE  TypeInv'
  <1>1. ASSUME NEW c \in Connects, HandleLocalCallerDied(c) PROVE TypeInv'
    BY <1>1 DEF HandleLocalCallerDied, Erases, calleeVars, linkVars, TypeInv, ThreadType, WorldType,
                CallerType, CalleeType
  <1>2. ASSUME NEW c \in Connects, ApplicationDies(c) PROVE TypeInv'
    <2>1. CalleeType'
      BY <1>2, ProxiesDieType DEF ApplicationDies, TypeInv, CalleeType
    <2>2. QED
      BY <1>2, <2>1 DEF ApplicationDies, TypeInv, ThreadType, WorldType, CallerType
  <1>3. ASSUME NEW d \in Devices, AbilityDies(d) PROVE TypeInv'
    <2>1. \A k \in Proxies :
             calleeTasks[d][k] \in Seq(Deaths) /\ Append(calleeTasks[d][k], "calleeDied") \in Seq(Deaths)
      BY TaskAdded DEF TypeInv, CalleeType, Deaths
    <2>2. PICK T \in [Proxies -> Seq(Deaths)] : calleeTasks' = [calleeTasks EXCEPT ![d] = T]
      BY <1>3, <2>1 DEF AbilityDies
    <2>3. CalleeType'
      BY <1>3, <2>2 DEF AbilityDies, TypeInv, CalleeType
    <2>4. QED
      BY <1>3, <2>3 DEF AbilityDies, TypeInv, ThreadType, WorldType, CallerType, linkVars, callerVars
  <1>4. ASSUME NEW d \in Devices, LinkDown(d) PROVE TypeInv'
    <2>1. CalleeType'
      BY <1>4, ProxiesDieType DEF LinkDown, TypeInv, CalleeType
    <2>2. WorldType' /\ CallerType'
      BY <1>4 DEF LinkDown, TypeInv, WorldType, CallerType, callerVars
    <2>3. QED
      BY <1>4, <2>1, <2>2, LinkDownThreadType DEF TypeInv
  <1>5. ASSUME NEW d \in Devices, LinkUp(d) PROVE TypeInv'
    <2>1. epoch[d] \in 0..MaxDowns /\ epoch[d] < MaxDowns /\ MaxDowns \in Nat
      BY <1>5, CallAssumption DEF LinkUp, TypeInv, WorldType
    <2>2. epoch[d] + 1 \in 0..MaxDowns /\ epoch' = [epoch EXCEPT ![d] = epoch[d] + 1]
      BY <1>5, <2>1 DEF LinkUp
    <2>3. WorldType'
      BY <1>5, <2>2 DEF LinkUp, TypeInv, WorldType
    <2>4. QED
      BY <1>5, <2>3 DEF LinkUp, TypeInv, ThreadType, CallerType, CalleeType, callerVars, calleeVars
  <1>6. QED
    BY <1>1, <1>2, <1>3, <1>4, <1>5

LEMMA NextType == TypeInv /\ [Next]_vars => TypeInv'
  <1>1. SUFFICES ASSUME TypeInv, [Next]_vars PROVE TypeInv'
    OBVIOUS
  <1>2. CASE UNCHANGED vars
    BY <1>1, <1>2 DEF vars, callerVars, calleeVars, linkVars, TypeInv, ThreadType, WorldType, CallerType, CalleeType
  <1>3. ASSUME NEW t \in Threads, NEW c \in Connects, NEW d \in Devices,
               StartRemoteAbilityByCall(t, c, d) \/ ReleaseRemoteAbility(t, c, d)
        PROVE  TypeInv'
    <2>1. ThreadType' /\ UNCHANGED <<callerVars, calleeVars, linkVars>>
      BY <1>1, <1>3, CallsType DEF StartRemoteAbilityByCall, ReleaseRemoteAbility
    <2>2. QED
      BY <1>1, <2>1 DEF callerVars, calleeVars, linkVars, TypeInv, WorldType, CallerType, CalleeType
  <1>4. ASSUME NEW t \in Threads, ThreadSteps(t) \/ JobSteps(t) PROVE TypeInv'
    <2>1. WorldType'
      BY <1>1, <1>4 DEF ThreadSteps, SaveCallerComponent, RemoveCallerComponent, JobSteps, StartFinds,
           AmsStartAbilityByCall, StartRecords, StartWatches, ReleaseForgets, AmsReleaseAbility, linkVars,
           TypeInv, WorldType
    <2>2. CallerType'
      <3>1. CASE JobSteps(t)
        BY <1>1, <3>1 DEF JobSteps, StartFinds, AmsStartAbilityByCall, StartRecords, StartWatches,
             ReleaseForgets, AmsReleaseAbility, callerVars, TypeInv, CallerType
      <3>2. CASE ThreadSteps(t)
        <4>1. th[t].c \in Connects /\ th[t].d \in Devices
          BY <1>1, <3>2 DEF ThreadSteps, SaveCallerComponent, RemoveCallerComponent, TypeInv, ThreadType, Good
        <4>2. QED
          BY <1>1, <3>2, <4>1 DEF ThreadSteps, SaveCallerComponent, RemoveCallerComponent, Erases,
               TypeInv, CallerType
      <3>3. QED
        BY <1>4, <3>1, <3>2
    <2>3. QED
      BY <1>1, <1>4, <2>1, <2>2, StepsThreadType, StepsCalleeType DEF TypeInv
  <1>5. ASSUME NEW d \in Devices, HandlerSteps(d) PROVE TypeInv'
    <2>1. ThreadType' /\ WorldType'
      BY <1>1, <1>5 DEF HandlerSteps, ProcessCalleeOffline, HandlerReleases, ProcessCallerDied,
           ProcessCalleeDied, linkVars, TypeInv, ThreadType, WorldType
    <2>2. CallerType'
      BY <1>1, <1>5 DEF HandlerSteps, ProcessCalleeOffline, HandlerReleases, ProcessCallerDied,
           ProcessCalleeDied, callerVars, TypeInv, CallerType
    <2>3. QED
      BY <1>1, <1>5, <2>1, <2>2, HandlerCalleeType DEF TypeInv
  <1>6. QED
    BY <1>1, <1>2, <1>3, <1>4, <1>5, WorldStepsType DEF Next

LEMMA Typed == Spec => []TypeInv
  BY InitType, NextType, PTL DEF Spec

LEMMA TypeInvOK == TypeInv => TypeOK
  BY DEF TypeInv, ThreadType, WorldType, CallerType, CalleeType, CallSet, CallPlaces, JobSet, JobPlaces,
         Deaths, TypeOK

-----------------------------------------------------------------------------
(* The caller watches the application of every entry, or its death is queued; and it     *)
(* watches only applications that run.                                                   *)
CallerGuard == \A c \in Connects : callerMap[c] # {} => c \in callerWatch \cup callerDied
CallerAlive == callerWatch \subseteq alive

LEMMA NextCaller == TypeInv /\ CallerGuard /\ CallerAlive /\ [Next]_vars => (CallerGuard /\ CallerAlive)'
  <1>1. SUFFICES ASSUME TypeInv, CallerGuard, CallerAlive, [Next]_vars PROVE (CallerGuard /\ CallerAlive)'
    OBVIOUS
  <1>2. CASE UNCHANGED <<callerMap, callerWatch, callerDied, alive>>
    BY <1>1, <1>2 DEF CallerGuard, CallerAlive
  <1>3. ASSUME NEW t \in Threads, ThreadSteps(t) PROVE (CallerGuard /\ CallerAlive)'
    <2>1. th[t].c \in Connects /\ th[t].d \in Devices /\ alive' = alive
      BY <1>1, <1>3 DEF ThreadSteps, SaveCallerComponent, RemoveCallerComponent, linkVars,
                        TypeInv, ThreadType, Good
    <2>2. PICK c \in Connects, d \in Devices : c = th[t].c /\ d = th[t].d
      BY <2>1
    <2>3. \A x \in Connects : x # c => callerMap'[x] = callerMap[x]
      BY <1>1, <1>3, <2>2 DEF ThreadSteps, SaveCallerComponent, RemoveCallerComponent, Erases,
                              TypeInv, CallerType
    <2>4. CASE SaveCallerComponent(t)
      BY <1>1, <2>1, <2>2, <2>3, <2>4 DEF SaveCallerComponent, CallerGuard, CallerAlive, TypeInv, CallerType
    <2>5. CASE RemoveCallerComponent(t)
      BY <1>1, <2>1, <2>2, <2>3, <2>5 DEF RemoveCallerComponent, Erases, CallerGuard, CallerAlive,
                                          TypeInv, CallerType
    <2>6. QED
      BY <1>3, <2>4, <2>5 DEF ThreadSteps
  <1>4. ASSUME NEW c \in Connects, HandleLocalCallerDied(c) \/ ApplicationDies(c)
        PROVE  (CallerGuard /\ CallerAlive)'
    BY <1>1, <1>4 DEF HandleLocalCallerDied, ApplicationDies, Erases, linkVars, CallerGuard, CallerAlive,
                      TypeInv, CallerType
  <1>5. ASSUME NEW d \in Devices, ProcessCalleeOffline(d) PROVE (CallerGuard /\ CallerAlive)'
    BY <1>1, <1>5 DEF ProcessCalleeOffline, LastSessions, CallerGuard, CallerAlive, TypeInv, CallerType
  <1>6. ASSUME NEW d \in Devices, HandlerSteps(d) PROVE (CallerGuard /\ CallerAlive)'
    <2>1. CASE ~ProcessCalleeOffline(d)
      BY <1>2, <1>6, <2>1 DEF HandlerSteps, HandlerReleases, ProcessCallerDied, ProcessCalleeDied,
                              callerVars, linkVars
    <2>2. QED
      BY <1>5, <2>1
  <1>7. ASSUME NEW d \in Devices, AbilityDies(d) \/ LinkDown(d) \/ LinkUp(d)
        PROVE  (CallerGuard /\ CallerAlive)'
    BY <1>2, <1>7 DEF AbilityDies, LinkDown, LinkUp, callerVars, linkVars
  <1>8. ASSUME NEW t \in Threads, JobSteps(t) PROVE (CallerGuard /\ CallerAlive)'
    BY <1>2, <1>8 DEF JobSteps, StartFinds, AmsStartAbilityByCall, StartRecords, StartWatches,
                      ReleaseForgets, AmsReleaseAbility, callerVars, linkVars
  <1>9. ASSUME NEW t \in Threads, NEW c \in Connects, NEW d \in Devices,
               StartRemoteAbilityByCall(t, c, d) \/ ReleaseRemoteAbility(t, c, d)
        PROVE  (CallerGuard /\ CallerAlive)'
    BY <1>2, <1>9 DEF StartRemoteAbilityByCall, ReleaseRemoteAbility, Calls, callerVars, linkVars
  <1>10. CASE UNCHANGED vars
    BY <1>2, <1>10 DEF vars, callerVars, linkVars
  <1>11. QED
    BY <1>1, <1>3, <1>4, <1>6, <1>7, <1>8, <1>9, <1>10 DEF Next

-----------------------------------------------------------------------------
(* The callee watches only proxies that have not died. *)
CalleeAlive == \A d \in Devices : \A k \in calleeWatch[d] : Usable(k, d)

LEMMA NextCalleeAlive == TypeInv /\ CalleeAlive /\ [Next]_vars => CalleeAlive'
  <1>1. SUFFICES ASSUME TypeInv, CalleeAlive, [Next]_vars PROVE CalleeAlive'
    OBVIOUS
  <1>2. CASE UNCHANGED <<calleeWatch, alive, online, epoch>>
    BY <1>1, <1>2 DEF CalleeAlive, Usable
  <1>3. ASSUME NEW t \in Threads, JobSteps(t) PROVE CalleeAlive'
    <2>1. UNCHANGED <<alive, online, epoch>>
      BY <1>3 DEF JobSteps, StartFinds, AmsStartAbilityByCall, StartRecords, StartWatches,
                  ReleaseForgets, AmsReleaseAbility, linkVars
    <2>2. \A d \in Devices : \A k \in calleeWatch'[d] : k \in calleeWatch[d] \/ Usable(k, d)
      <3>1. CASE StartWatches(t)
        <4>1. PICK e, x : e = DeviceOf(t) /\ x = job[t].k
          OBVIOUS
        <4>2. \/ UNCHANGED calleeWatch
              \/ Usable(x, e) /\ calleeWatch' = [calleeWatch EXCEPT ![e] = calleeWatch[e] \cup {x}]
          BY <3>1, <4>1 DEF StartWatches
        <4>3. PICK W : W = calleeWatch[e] \cup {x}
          OBVIOUS
        <4>4. \/ UNCHANGED calleeWatch
              \/ Usable(x, e) /\ calleeWatch' = [calleeWatch EXCEPT ![e] = W]
          BY <4>2, <4>3
        <4>5. calleeWatch' = [calleeWatch EXCEPT ![e] = W] =>
                 \A d \in Devices : calleeWatch'[d] = IF d = e THEN W ELSE calleeWatch[d]
          BY <1>1 DEF TypeInv, CalleeType
        <4>6. CASE UNCHANGED calleeWatch
          BY <4>6
        <4>7. CASE Usable(x, e) /\ calleeWatch' = [calleeWatch EXCEPT ![e] = W]
          BY <4>3, <4>5, <4>7
        <4>8. QED
          BY <4>4, <4>6, <4>7
      <3>2. CASE ReleaseForgets(t)
        BY <1>1, <3>2 DEF ReleaseForgets, TypeInv, CalleeType
      <3>3. CASE StartFinds(t) \/ AmsStartAbilityByCall(t) \/ StartRecords(t) \/ AmsReleaseAbility(t)
        BY <3>3 DEF StartFinds, AmsStartAbilityByCall, StartRecords, AmsReleaseAbility, calleeVars
      <3>4. QED
        BY <1>3, <3>1, <3>2, <3>3 DEF JobSteps
    <2>3. QED
      BY <1>1, <2>1, <2>2 DEF CalleeAlive, Usable
  <1>4. ASSUME NEW c \in Connects, ApplicationDies(c) PROVE CalleeAlive'
    <2>1. \A d \in Devices, k \in Proxies :
             k \in calleeWatch'[d] => k \in calleeWatch[d] /\ <<d, k>> \notin {<<e, <<c, epoch[e]>>>> : e \in Devices}
      BY <1>4 DEF ApplicationDies, ProxiesDie
    <2>2. ASSUME NEW d \in Devices, NEW k \in Proxies, k \in calleeWatch'[d] PROVE Usable(k, d)'
      <3>1. Usable(k, d) /\ k # <<c, epoch[d]>>
        BY <1>1, <2>1, <2>2 DEF CalleeAlive
      <3>2. k = <<k[1], k[2]>>
        BY DEF Proxies
      <3>3. k[1] # c
        BY <3>1, <3>2 DEF Usable
      <3>4. QED
        BY <1>4, <3>1, <3>3 DEF ApplicationDies, Usable
    <2>3. CalleeType'
      BY <1>4, WorldStepsType, <1>1 DEF TypeInv
    <2>4. QED
      BY <2>2, <2>3 DEF CalleeAlive, CalleeType
  <1>5. ASSUME NEW e \in Devices, LinkDown(e) PROVE CalleeAlive'
    <2>1. \A d \in Devices, k \in Proxies :
             k \in calleeWatch'[d] => k \in calleeWatch[d] /\ <<d, k>> \notin {<<e, <<c, epoch[e]>>>> : c \in Connects}
      BY <1>5 DEF LinkDown, ProxiesDie
    <2>2. ASSUME NEW d \in Devices, NEW k \in Proxies, k \in calleeWatch'[d] PROVE Usable(k, d)'
      <3>1. Usable(k, d)
        BY <1>1, <2>1, <2>2 DEF CalleeAlive
      <3>2. k = <<k[1], k[2]>> /\ k[1] \in Connects
        BY DEF Proxies
      <3>3. d # e
        BY <2>1, <2>2, <3>1, <3>2 DEF Usable
      <3>4. QED
        BY <1>5, <3>1, <3>3 DEF LinkDown, Usable
    <2>3. CalleeType'
      BY <1>5, WorldStepsType, <1>1 DEF TypeInv
    <2>4. QED
      BY <2>2, <2>3 DEF CalleeAlive, CalleeType
  <1>6. ASSUME NEW d \in Devices, LinkUp(d) PROVE CalleeAlive'
    BY <1>1, <1>6 DEF LinkUp, calleeVars, CalleeAlive, Usable, TypeInv, WorldType
  <1>7. ASSUME NEW d \in Devices, HandlerSteps(d) \/ AbilityDies(d) PROVE CalleeAlive'
    BY <1>2, <1>7 DEF HandlerSteps, ProcessCalleeOffline, HandlerReleases, ProcessCallerDied,
                      ProcessCalleeDied, AbilityDies, linkVars, calleeVars
  <1>8. ASSUME NEW c \in Connects, HandleLocalCallerDied(c) PROVE CalleeAlive'
    BY <1>2, <1>8 DEF HandleLocalCallerDied, calleeVars, linkVars
  <1>9. ASSUME NEW t \in Threads, ThreadSteps(t) PROVE CalleeAlive'
    BY <1>2, <1>9 DEF ThreadSteps, SaveCallerComponent, RemoveCallerComponent, calleeVars, linkVars
  <1>10. ASSUME NEW t \in Threads, NEW c \in Connects, NEW d \in Devices,
               StartRemoteAbilityByCall(t, c, d) \/ ReleaseRemoteAbility(t, c, d)
        PROVE  CalleeAlive'
    BY <1>2, <1>10 DEF StartRemoteAbilityByCall, ReleaseRemoteAbility, Calls, calleeVars, linkVars
  <1>11. CASE UNCHANGED vars
    BY <1>2, <1>11 DEF vars, calleeVars, linkVars
  <1>12. QED
    BY <1>1, <1>3, <1>4, <1>5, <1>6, <1>7, <1>8, <1>9, <1>10, <1>11 DEF Next

-----------------------------------------------------------------------------
(* The callee watches the proxy of every entry, or its death is queued, or the handler   *)
(* that recorded it is about to.                                                         *)
Recording(d, k) == \E t \in Threads : At(t, "recorded") /\ th[t].d = d /\ job[t].k = k
CalleeGuarded(d, k) ==
    calleeMap[d][k] # 0 => k \in calleeWatch[d] \/ Queued(d, k) \/ Recording(d, k)
CalleeGuard == \A d \in Devices, k \in Proxies : CalleeGuarded(d, k)

HasDeath(q) == \E i \in 1..Len(q) : q[i] = "callerDied"

LEMMA DeathAdded ==
    ASSUME NEW q \in Seq(Deaths), NEW e \in Deaths
    PROVE  /\ HasDeath(q) => HasDeath(Append(q, e))
           /\ HasDeath(Append(q, "callerDied"))
  <1>1. PICK n \in Nat : n = Len(q)
    BY LenProperties
  <1>2. ASSUME NEW x \in Deaths
        PROVE  /\ Len(Append(q, x)) = n + 1 /\ Append(q, x)[n + 1] = x
               /\ \A i \in 1..n : Append(q, x)[i] = q[i]
    BY <1>1, AppendProperties
  <1>3. n + 1 \in 1..n + 1 /\ \A i \in 1..n : i \in 1..n + 1
    BY <1>1
  <1>4. "callerDied" \in Deaths
    BY DEF Deaths
  <1>5. QED
    BY <1>1, <1>2, <1>3, <1>4 DEF HasDeath

(* One entry, while another thing changes or nothing does. *)
LEMMA GuardKept ==
    ASSUME NEW d, NEW k, CalleeGuarded(d, k),
           calleeMap'[d][k] = calleeMap[d][k],
           k \in calleeWatch[d] => k \in calleeWatch'[d] \/ HasDeath(calleeTasks'[d][k]),
           HasDeath(calleeTasks[d][k]) => HasDeath(calleeTasks'[d][k]),
           Recording(d, k) => Recording(d, k)' \/ k \in calleeWatch'[d] \/ HasDeath(calleeTasks'[d][k])
    PROVE  CalleeGuarded(d, k)'
  BY DEF CalleeGuarded, Queued, HasDeath

(* A step of one thread ends no recording but its own. *)
LEMMA OthersRecord ==
    ASSUME TypeInv, NEW t \in Threads, \A x \in Threads : x # t => th'[x] = th[x] /\ job'[x] = job[x],
           ~At(t, "recorded")
    PROVE  \A d, k : Recording(d, k) => Recording(d, k)'
  BY DEF Recording, At

LEMMA OneThread ==
    ASSUME TypeInv, NEW t \in Threads, ThreadSteps(t) \/ JobSteps(t)
    PROVE  \A x \in Threads : x # t => th'[x] = th[x] /\ job'[x] = job[x]
  BY DEF ThreadSteps, SaveCallerComponent, RemoveCallerComponent, JobSteps, StartFinds,
         AmsStartAbilityByCall, StartRecords, StartWatches, ReleaseForgets, AmsReleaseAbility,
         Goes, Succeeds, Fails, TypeInv, ThreadType

(* Threads and handlers. *)
LEMMA StepsGuard ==
    ASSUME TypeInv, CalleeGuard, NEW t \in Threads, ThreadSteps(t) \/ JobSteps(t)
    PROVE  CalleeGuard'
  <1> SUFFICES ASSUME NEW d \in Devices, NEW k \in Proxies PROVE CalleeGuarded(d, k)'
    BY DEF CalleeGuard
  <1>1. CalleeGuarded(d, k) /\ calleeTasks[d][k] \in Seq(Deaths)
    BY DEF CalleeGuard, TypeInv, CalleeType
  <1>2. PICK e, x : e = th[t].d /\ x = job[t].k
    OBVIOUS
  <1>3. CASE ~StartRecords(t) /\ ~StartWatches(t) /\ ~ReleaseForgets(t)
    <2>1. UNCHANGED <<calleeMap, calleeWatch, calleeTasks>>
      BY <1>3 DEF ThreadSteps, SaveCallerComponent, RemoveCallerComponent, JobSteps, StartFinds,
                  AmsStartAbilityByCall, AmsReleaseAbility, calleeVars
    <2>2. ~At(t, "recorded")
      <3>1. Good(th[t], job[t])
        BY DEF TypeInv, ThreadType
      <3>2. QED
        BY <1>3, <3>1 DEF ThreadSteps, SaveCallerComponent, RemoveCallerComponent, JobSteps, StartFinds,
                          AmsStartAbilityByCall, AmsReleaseAbility, At, Good
    <2>3. Recording(d, k) => Recording(d, k)'
      BY <2>2, OneThread, OthersRecord
    <2>4. QED
      BY <1>1, <2>1, <2>3, GuardKept
  <1>4. CASE StartRecords(t)
    <2>1. UNCHANGED <<calleeWatch, calleeTasks, th>> /\ At(t, "started")
          /\ Goes(t, "recorded", job[t].w)
          /\ (UNCHANGED calleeMap \/ calleeMap' = [calleeMap EXCEPT ![e][x] = job[t].w])
      BY <1>2, <1>4 DEF StartRecords, DeviceOf
    <2>2. CASE d = e /\ k = x
      <3>1. At(t, "recorded")' /\ th'[t].d = e /\ job'[t].k = x
        BY <1>2, <2>1 DEF Goes, At, TypeInv, ThreadType
      <3>2. Recording(d, k)'
        BY <2>2, <3>1 DEF Recording
      <3>3. QED
        BY <3>2 DEF CalleeGuarded
    <2>3. CASE ~(d = e /\ k = x)
      <3>1. calleeMap'[d][k] = calleeMap[d][k]
        BY <2>1, <2>3 DEF TypeInv, CalleeType
      <3>2. Recording(d, k) => Recording(d, k)'
        <4>1. ~At(t, "recorded")
          BY <2>1 DEF At
        <4>2. QED
          BY <4>1, OneThread, OthersRecord
      <3>3. QED
        BY <1>1, <2>1, <3>1, <3>2, GuardKept
    <2>4. QED
      BY <2>2, <2>3
  <1>5. CASE StartWatches(t)
    <2>1. /\ UNCHANGED calleeMap /\ At(t, "recorded")
          /\ \/ calleeWatch' = [calleeWatch EXCEPT ![e] = calleeWatch[e] \cup {x}] /\ UNCHANGED calleeTasks
             \/ /\ calleeTasks' = [calleeTasks EXCEPT ![e][x] = Append(calleeTasks[e][x], "callerDied")]
                /\ UNCHANGED calleeWatch
      BY <1>2, <1>5 DEF StartWatches, DeviceOf
    <2>2. k \in calleeWatch[d] => k \in calleeWatch'[d]
      BY <2>1 DEF TypeInv, CalleeType
    <2>3. HasDeath(calleeTasks[d][k]) => HasDeath(calleeTasks'[d][k])
      <3>1. \/ calleeTasks'[d][k] = calleeTasks[d][k]
            \/ calleeTasks'[d][k] = Append(calleeTasks[d][k], "callerDied")
        <4>1. PICK q : q = Append(calleeTasks[e][x], "callerDied")
          OBVIOUS
        <4>2. UNCHANGED calleeTasks \/ calleeTasks' = [calleeTasks EXCEPT ![e][x] = q]
          BY <2>1, <4>1
        <4>3. calleeTasks'[d][k] = calleeTasks[d][k] \/ (d = e /\ k = x /\ calleeTasks'[d][k] = q)
          BY <4>2 DEF TypeInv, CalleeType
        <4>4. QED
          BY <4>1, <4>3
      <3>2. QED
        BY <1>1, <3>1, DeathAdded DEF Deaths
    <2>4. CASE d = e /\ k = x
      <3>1. k \in calleeWatch'[d] \/ calleeTasks'[d][k] = Append(calleeTasks[d][k], "callerDied")
        BY <2>1, <2>4 DEF TypeInv, CalleeType
      <3>2. HasDeath(Append(calleeTasks[d][k], "callerDied"))
        BY <1>1, DeathAdded DEF Deaths
      <3>3. k \in calleeWatch'[d] \/ HasDeath(calleeTasks'[d][k])
        BY <3>1, <3>2
      <3>4. QED
        BY <1>1, <2>1, <2>2, <2>3, <3>3, GuardKept
    <2>5. CASE ~(d = e /\ k = x)
      <3>1. Recording(d, k) => Recording(d, k)'
        BY <1>2, <2>5, OneThread DEF Recording, At
      <3>2. QED
        BY <1>1, <2>1, <2>2, <2>3, <3>1, GuardKept
    <2>6. QED
      BY <2>4, <2>5
  <1>6. CASE ReleaseForgets(t)
    <2>1. /\ UNCHANGED calleeTasks /\ At(t, "release")
          /\ \/ UNCHANGED <<calleeMap, calleeWatch>>
             \/ /\ calleeMap' = [calleeMap EXCEPT ![e][x] = 0]
                /\ calleeWatch' = [calleeWatch EXCEPT ![e] = calleeWatch[e] \ {x}]
      BY <1>2, <1>6 DEF ReleaseForgets, Forgets, DeviceOf
    <2>2. \/ calleeMap'[d][k] = calleeMap[d][k] /\ (k \in calleeWatch[d] => k \in calleeWatch'[d])
          \/ calleeMap'[d][k] = 0
      <3>1. PICK W : W = calleeWatch[e] \ {x}
        OBVIOUS
      <3>2. d # e \/ k # x => (k \in calleeWatch[d] => k \in calleeWatch'[d])
        BY <2>1, <3>1 DEF TypeInv, CalleeType
      <3>3. /\ d # e \/ k # x => calleeMap'[d][k] = calleeMap[d][k]
            /\ d = e /\ k = x => UNCHANGED <<calleeMap, calleeWatch>> \/ calleeMap'[d][k] = 0
        BY <2>1 DEF TypeInv, CalleeType
      <3>4. QED
        BY <3>2, <3>3
    <2>3. Recording(d, k) => Recording(d, k)'
      <3>1. ~At(t, "recorded")
        BY <2>1 DEF At
      <3>2. QED
        BY <3>1, OneThread, OthersRecord
    <2>4. CASE calleeMap'[d][k] = 0
      BY <2>4 DEF CalleeGuarded
    <2>5. QED
      BY <1>1, <2>1, <2>2, <2>3, <2>4, GuardKept
  <1>7. QED
    BY <1>3, <1>4, <1>5, <1>6

(* A death takes an entry away, whichever its kind; the other entries stay as they are. *)
LEMMA DeathGuard ==
    ASSUME TypeInv, CalleeGuard, NEW e \in Devices, NEW x \in Proxies, NEW kind, NextDeath(e, x, kind),
           UNCHANGED <<calleeWatch, th, job>>
    PROVE  CalleeGuard'
  <1> SUFFICES ASSUME NEW d \in Devices, NEW k \in Proxies PROVE CalleeGuarded(d, k)'
    BY DEF CalleeGuard
  <1>1. CalleeGuarded(d, k)
    BY DEF CalleeGuard
  <1>2. PICK q : q = Tail(calleeTasks[e][x])
    OBVIOUS
  <1>3. calleeTasks' = [calleeTasks EXCEPT ![e][x] = q] /\ calleeMap' = [calleeMap EXCEPT ![e][x] = 0]
    BY <1>2 DEF NextDeath, Forgets
  <1>4. CASE d = e /\ k = x
    <2>1. calleeMap'[d][k] = 0
      BY <1>3, <1>4 DEF TypeInv, CalleeType
    <2>2. QED
      BY <2>1 DEF CalleeGuarded
  <1>5. CASE ~(d = e /\ k = x)
    <2>1. calleeMap'[d][k] = calleeMap[d][k] /\ calleeTasks'[d][k] = calleeTasks[d][k]
      BY <1>3, <1>5 DEF TypeInv, CalleeType
    <2>2. Recording(d, k) => Recording(d, k)'
      BY DEF Recording, At
    <2>3. QED
      BY <1>1, <2>1, <2>2, GuardKept
  <1>6. QED
    BY <1>4, <1>5

(* The proxies of an application or a device die: those watched are reported. *)
LEMMA ProxiesDieGuard ==
    ASSUME TypeInv, CalleeGuard, NEW S, ProxiesDie(S), UNCHANGED <<calleeMap, job>>,
           \A t \in Threads : th'[t].d = th[t].d
    PROVE  CalleeGuard'
  <1> SUFFICES ASSUME NEW d \in Devices, NEW k \in Proxies PROVE CalleeGuarded(d, k)'
    BY DEF CalleeGuard
  <1>1. CalleeGuarded(d, k) /\ calleeTasks[d][k] \in Seq(Deaths)
    BY DEF CalleeGuard, TypeInv, CalleeType
  <1>2. Recording(d, k) => Recording(d, k)'
    BY DEF Recording, At
  <1>3. CASE <<d, k>> \in S /\ k \in calleeWatch[d]
    <2>1. calleeTasks'[d][k] = Append(calleeTasks[d][k], "callerDied")
      BY <1>3 DEF ProxiesDie
    <2>2. HasDeath(calleeTasks'[d][k])
      BY <1>1, <2>1, DeathAdded DEF Deaths
    <2>3. QED
      BY <2>2 DEF CalleeGuarded, Queued, HasDeath
  <1>4. CASE ~(<<d, k>> \in S /\ k \in calleeWatch[d])
    <2>1. calleeTasks'[d][k] = calleeTasks[d][k] /\ (k \in calleeWatch[d] => k \in calleeWatch'[d])
      BY <1>4 DEF ProxiesDie
    <2>2. QED
      BY <1>1, <1>2, <2>1, GuardKept
  <1>5. QED
    BY <1>3, <1>4

LEMMA NextGuard == TypeInv /\ CalleeGuard /\ [Next]_vars => CalleeGuard'
  <1>1. SUFFICES ASSUME TypeInv, CalleeGuard, [Next]_vars PROVE CalleeGuard'
    OBVIOUS
  <1>2. CASE UNCHANGED <<calleeMap, calleeWatch, calleeTasks, th, job>>
    BY <1>1, <1>2 DEF CalleeGuard, CalleeGuarded, Queued, Recording, At
  <1>3. ASSUME NEW t \in Threads, NEW c \in Connects, NEW e \in Devices,
               StartRemoteAbilityByCall(t, c, e) \/ ReleaseRemoteAbility(t, c, e)
        PROVE  CalleeGuard'
    <2>1. /\ UNCHANGED <<calleeMap, calleeWatch, calleeTasks>> /\ job[t].pc = "none"
          /\ \A x \in Threads : x # t => th'[x] = th[x] /\ job'[x] = job[x]
      BY <1>1, <1>3 DEF StartRemoteAbilityByCall, ReleaseRemoteAbility, Calls, MayCall, Free, calleeVars,
                        TypeInv, ThreadType
    <2>2. \A d, k : Recording(d, k) => Recording(d, k)'
      <3>1. ~At(t, "recorded")
        BY <2>1 DEF At
      <3>2. QED
        BY <1>1, <2>1, <3>1, OthersRecord
    <2>3. QED
      BY <1>1, <2>1, <2>2, GuardKept DEF CalleeGuard
  <1>4. ASSUME NEW e \in Devices, NEW x \in Proxies, ProcessCallerDied(e, x) \/ ProcessCalleeDied(e, x)
        PROVE  CalleeGuard'
    BY <1>1, <1>4, DeathGuard DEF ProcessCallerDied, ProcessCalleeDied
  <1>5. ASSUME NEW e \in Devices, HandlerSteps(e) PROVE CalleeGuard'
    <2>1. CASE ProcessCalleeOffline(e) \/ HandlerReleases(e)
      BY <1>2, <2>1 DEF ProcessCalleeOffline, HandlerReleases, calleeVars
    <2>2. QED
      BY <1>4, <1>5, <2>1 DEF HandlerSteps
  <1>6. ASSUME NEW c \in Connects, HandleLocalCallerDied(c) \/ ApplicationDies(c) PROVE CalleeGuard'
    <2>1. CASE HandleLocalCallerDied(c)
      BY <1>2, <2>1 DEF HandleLocalCallerDied, calleeVars
    <2>2. CASE ApplicationDies(c)
      BY <1>1, <2>2, ProxiesDieGuard DEF ApplicationDies
    <2>3. QED
      BY <1>6, <2>1, <2>2
  <1>7. ASSUME NEW e \in Devices, AbilityDies(e) PROVE CalleeGuard'
    <2> SUFFICES ASSUME NEW d \in Devices, NEW k \in Proxies PROVE CalleeGuarded(d, k)'
      BY DEF CalleeGuard
    <2>1. CalleeGuarded(d, k) /\ calleeTasks[d][k] \in Seq(Deaths)
      BY <1>1 DEF CalleeGuard, TypeInv, CalleeType
    <2>2. calleeTasks'[d][k] \in {calleeTasks[d][k], Append(calleeTasks[d][k], "calleeDied")}
      BY <1>1, <1>7 DEF AbilityDies, TypeInv, CalleeType
    <2>3. HasDeath(calleeTasks[d][k]) => HasDeath(calleeTasks'[d][k])
      BY <2>1, <2>2, DeathAdded DEF Deaths
    <2>4. Recording(d, k) => Recording(d, k)'
      BY <1>7 DEF AbilityDies, Recording, At
    <2>5. QED
      BY <1>7, <2>1, <2>3, <2>4, GuardKept DEF AbilityDies
  <1>8. ASSUME NEW e \in Devices, LinkDown(e) PROVE CalleeGuard'
    <2>1. \A t \in Threads : th'[t].d = th[t].d
      <3>1. ASSUME NEW t \in Threads PROVE th'[t].d = th[t].d
        <4>1. th[t] \in CallSet
          BY <1>1 DEF TypeInv, ThreadType
        <4>2. th'[t] = th[t] \/ th'[t] = [th[t] EXCEPT !.pc = "gaveUp"]
          BY <1>8 DEF LinkDown
        <4>3. [th[t] EXCEPT !.pc = "gaveUp"].d = th[t].d
          BY <4>1, WithPlace DEF CallPlaces
        <4>4. QED
          BY <4>2, <4>3
      <3>2. QED
        BY <3>1
    <2>2. QED
      BY <1>1, <1>8, <2>1, ProxiesDieGuard DEF LinkDown
  <1>9. ASSUME NEW e \in Devices, LinkUp(e) PROVE CalleeGuard'
    BY <1>2, <1>9 DEF LinkUp, calleeVars
  <1>10. CASE UNCHANGED vars
    BY <1>2, <1>10 DEF vars, calleeVars
  <1>11. QED
    BY <1>1, <1>3, <1>5, <1>6, <1>7, <1>8, <1>9, <1>10, StepsGuard DEF Next

-----------------------------------------------------------------------------
WatchInv == CallerGuard /\ CallerAlive /\ CalleeGuard /\ CalleeAlive

LEMMA Watched == Spec => [](TypeInv /\ WatchInv)
  <1>1. Init => WatchInv
    BY DEF Init, WatchInv, CallerGuard, CallerAlive, CalleeGuard, CalleeGuarded, CalleeAlive
  <1>2. TypeInv /\ WatchInv /\ [Next]_vars => (TypeInv /\ WatchInv)'
    BY NextType, NextCaller, NextGuard, NextCalleeAlive DEF WatchInv
  <1>3. QED
    BY <1>1, <1>2, InitType, PTL DEF Spec

(* No entry of callerMap_ or calleeMap_ is without a way to end with its application. *)
THEOREM WatchedCorrect == Spec => []EveryCallWatched
  <1>1. TypeInv /\ WatchInv => EveryCallWatched
    BY TypeInvOK DEF WatchInv, CallerGuard, CalleeGuard, CalleeGuarded, Recording, EveryCallWatched
  <1>2. QED
    BY <1>1, Watched, PTL

(* When nothing is under way, both ends have forgotten an application that died. *)
THEOREM ForgottenCorrect == Spec => []DeadCallerForgotten
  <1>1. TypeInv /\ WatchInv => DeadCallerForgotten
    <2>1. SUFFICES ASSUME TypeInv, WatchInv, Quiet, NEW c \in Connects \ alive
                   PROVE  /\ c \notin CallerComponents
                          /\ \A d \in Devices : \A k \in CalleeComponents(d) : k[1] # c
      BY DEF DeadCallerForgotten
    <2>2. c \notin CallerComponents
      BY <2>1 DEF Quiet, WatchInv, CallerGuard, CallerAlive, CallerComponents
    <2>3. ASSUME NEW d \in Devices, NEW k \in Proxies, calleeMap[d][k] # 0 PROVE k[1] # c
      <3>1. ~Queued(d, k)
        BY <2>1, EmptySeq DEF Quiet, Queued
      <3>2. ~Recording(d, k)
        BY <2>1, NotCalls DEF Quiet, Recording, At
      <3>3. k \in calleeWatch[d]
        BY <2>1, <2>3, <3>1, <3>2 DEF WatchInv, CalleeGuard, CalleeGuarded
      <3>4. QED
        BY <2>1, <3>3 DEF WatchInv, CalleeAlive, Usable
    <2>4. QED
      BY <2>2, <2>3 DEF CalleeComponents
  <1>2. QED
    BY <1>1, Watched, PTL

-----------------------------------------------------------------------------
(* The two ends agree.                                                                   *)

(* The device knows the connect by this proxy, as long as the link holds. *)
Current(k, d) == d \in online /\ k[2] = epoch[d]

(* A thread and its job are of one call; one that gave up has lost its link. *)
Fits(x, j) ==
    /\ x.pc = "idle" => x.c = None
    /\ x.pc \in {"waiting", "gaveUp"} => j.pc # "none"
    /\ j.pc # "none" => j.k[1] = x.c /\ j.k[2] <= epoch[x.d]
    /\ j.pc \in {"start", "found", "started", "recorded"} => x.op = "start"
    /\ j.pc \in {"release", "erased"} => x.op = "release"
    /\ x.pc = "gaveUp" => ~Current(j.k, x.d)
CallsFit == \A t \in Threads : Fits(th[t], job[t])

(* A device knows no proxy of a link to come, and cleans up only after those it has lost. *)
PastOf(d, k) ==
    /\ calleeMap[d][k] # 0 \/ calleeTasks[d][k] # << >> => k[2] <= epoch[d]
    /\ Queued(d, k) => ~Usable(k, d)
    /\ \A w \in Wrappers :
          /\ <<k, w>> \in bound[d] => k[2] <= epoch[d]
          /\ handling[d] = <<k, w>> => k[2] <= epoch[d] /\ ~Usable(k, d)
PastOnly ==
    /\ offlineDue \cap online = {} /\ callerDied \cap alive = {}
    /\ \A d \in Devices, k \in Proxies : PastOf(d, k)

(* Each side has reported what it holds, and the callee each repeated start besides. *)
CallerReports == callerAdds = [c \in Connects |-> IF callerMap[c] # {} THEN 1 ELSE 0]
CalleeReports ==
    /\ repeats \in [Devices -> [Proxies -> Nat]]
    /\ calleeAdds \in [Devices -> [Proxies -> Nat]]
    /\ \A d \in Devices, k \in Proxies :
          calleeAdds[d][k] = repeats[d][k] + IF calleeMap[d][k] # 0 THEN 1 ELSE 0

(* What follows is of a connect c that was not used in two ways at once.  The entry of   *)
(* its current proxy is there, or its loss is known; or there is none.                   *)
Reaches(c, d) ==
    \/ <<c, d>> \in flapped
    \/ d \in online /\ <<c, d>> \in lost
    \/ d \in online /\ \A k \in Proxies : k[1] = c /\ k[2] = epoch[d] => calleeMap[d][k] # 0
Unknown(c, d) == \A k \in Proxies : k[1] = c /\ Current(k, d) => calleeMap[d][k] = 0

Released(x, j) == j.pc = "erased" \/ (x.pc = "ok" /\ x.op = "release")
Started(x, j) == j.pc = "recorded" \/ (x.pc = "ok" /\ x.op = "start")

(* What the call x of c, served by j, knows of the tables. *)
Knows(c, x, j) ==
    /\ j.pc # "none" /\ ~Current(j.k, x.d) => <<c, x.d>> \in flapped /\ Unknown(c, x.d)
    /\ j.pc \in {"found", "started"} => calleeMap[x.d][j.k] \in {0, j.w}
    /\ j.pc = "started" /\ Usable(j.k, x.d) => <<j.k, j.w>> \in bound[x.d]
    /\ j.pc = "erased" => calleeMap[x.d][j.k] = 0
    /\ j.pc = "erased" /\ c \in alive =>
          <<j.k, j.w>> \in bound[x.d] \/ <<c, x.d>> \in lost \/ <<c, x.d>> \in flapped
    /\ Released(x, j) => Unknown(c, x.d)
    /\ Started(x, j) /\ c \in alive => Reaches(c, x.d)

(* A session has an entry, unless it is being released. *)
SessionKnown(c, d, x, j) ==
    d \in callerMap[c] /\ c \in alive => Reaches(c, d) \/ (x.d = d /\ Released(x, j))
(* An entry has a session, unless it is being started, and its ability is bound. *)
EntryKnown(c, d, k, x, j) ==
    c \in alive /\ Current(k, d) /\ calleeMap[d][k] # 0 =>
        /\ d \in callerMap[c] \/ <<c, d>> \in dropped \/ (x.d = d /\ Started(x, j))
        /\ <<k, calleeMap[d][k]>> \in bound[d] \/ <<c, d>> \in lost \/ <<c, d>> \in flapped
(* A binding is in an entry, or the handler or the call is about to record or release it. *)
Carries(x, j, d, k, w) == x.d = d /\ j.k = k /\ j.w = w /\ j.pc \in {"started", "erased"}
BindingKnown(d, k, w, x, j) ==
    <<k, w>> \in bound[d] =>
        calleeMap[d][k] = w \/ handling[d] = <<k, w>> \/ Carries(x, j, d, k, w)
(* The death of an ability is no other's: nothing of its proxy is under way or bound. *)
AbilityDied(q) == \E i \in 1..Len(q) : q[i] = "calleeDied"
LossKnown(c, d, k, j) ==
    AbilityDied(calleeTasks[d][k]) =>
        /\ \A w \in Wrappers : <<k, w>> \notin bound[d]
        /\ j.pc # "none" => j.k # k
        /\ c \in alive /\ Current(k, d) => <<c, d>> \in lost \/ <<c, d>> \in flapped

SettledFor(c, d, k, x, j) ==
    /\ EntryKnown(c, d, k, x, j)
    /\ \A w \in Wrappers : BindingKnown(d, k, w, x, j)
    /\ LossKnown(c, d, k, j)
Settled(c, d, x, j) ==
    /\ SessionKnown(c, d, x, j)
    /\ \A k \in Proxies : k[1] = c => SettledFor(c, d, k, x, j)
Agrees(c, x, j) == Knows(c, x, j) /\ \A d \in Devices : Settled(c, d, x, j)

OneCall(c) == \A s, t \in Threads : th[s].c = c /\ th[t].c = c => s = t
EndsOf(c) ==
    /\ OneCall(c)
    /\ \A t \in Threads : th[t].c = c => Agrees(c, th[t], job[t])
    /\ (\A t \in Threads : th[t].c # c) => Agrees(c, Idle, NoJob)
EndsInv == \A c \in Connects \ raced : EndsOf(c)

Moves(t, y, i) == th' = [th EXCEPT ![t] = y] /\ job' = [job EXCEPT ![t] = i]

(* A call that moves to new values of its thread and its job.                           *)
LEMMA MovesTo ==
    ASSUME TypeInv, NEW t \in Threads, NEW y, NEW i, Moves(t, y, i)
    PROVE  /\ th'[t] = y /\ job'[t] = i
           /\ \A s \in Threads : s # t => th'[s] = th[s] /\ job'[s] = job[s]
  BY DEF Moves, TypeInv, ThreadType

(* How a job goes on, and how a call ends. *)
LEMMA GoesMoves ==
    ASSUME TypeInv, NEW t \in Threads, NEW p, NEW w, Goes(t, p, w), UNCHANGED th
    PROVE  \E i : Moves(t, th[t], i) /\ i.pc = p /\ i.k = job[t].k /\ i.w = w
  <1>1. PICK i : i = [pc |-> p, k |-> job[t].k, w |-> w]
    OBVIOUS
  <1>2. Moves(t, th[t], i)
    BY <1>1 DEF Goes, Moves, TypeInv, ThreadType
  <1>3. QED
    BY <1>1, <1>2

(* What EndsOf asks after a step of one call, when that call is of c and when it is not. *)
LEMMA EndsMoves ==
    ASSUME TypeInv, NEW t \in Threads, Succeeds(t) \/ Fails(t)
    PROVE  \E y, i : Moves(t, y, i) /\ i = NoJob
              /\ \/ y = Idle /\ (Fails(t) \/ th[t].pc # "waiting")
                 \/ /\ Succeeds(t) /\ th[t].pc = "waiting"
                    /\ y.pc = "ok" /\ y.op = th[t].op /\ y.c = th[t].c /\ y.d = th[t].d
  <1>1. PICK z : z = [th[t] EXCEPT !.pc = "ok"]
    OBVIOUS
  <1>2. th[t] \in CallSet
    BY DEF TypeInv, ThreadType
  <1>3. z.pc = "ok" /\ z.op = th[t].op /\ z.c = th[t].c /\ z.d = th[t].d
    BY <1>1, <1>2, WithPlace DEF CallPlaces
  <1>4. PICK n, m : n = NoJob /\ m = Idle
    OBVIOUS
  <1>5. CASE Fails(t)
    <2>1. Moves(t, m, n)
      BY <1>4, <1>5 DEF Fails, Moves
    <2>2. QED
      BY <1>4, <1>5, <2>1
  <1>6. CASE Succeeds(t) /\ th[t].pc = "waiting"
    <2>1. Moves(t, z, n)
      BY <1>1, <1>4, <1>6 DEF Succeeds, Moves
    <2>2. QED
      BY <1>3, <1>4, <1>6, <2>1
  <1>7. CASE Succeeds(t) /\ th[t].pc # "waiting"
    <2>1. Moves(t, m, n)
      BY <1>4, <1>7 DEF Succeeds, Moves
    <2>2. QED
      BY <1>4, <1>7, <2>1
  <1>8. QED
    BY <1>5, <1>6, <1>7

(* The links stay as they are. *)
LEMMA FitMoves ==
    ASSUME TypeInv, CallsFit, NEW t \in Threads, NEW y, NEW i, Moves(t, y, i), Fits(y, i),
           UNCHANGED <<online, epoch>>
    PROVE  CallsFit'
  <1> SUFFICES ASSUME NEW s \in Threads PROVE Fits(th[s], job[s])'
    BY DEF CallsFit
  <1>1. CASE s = t
    <2>1. th'[s] = y /\ job'[s] = i
      BY <1>1, MovesTo
    <2>2. QED
      BY <2>1 DEF Fits, Current
  <1>2. CASE s # t
    <2>1. th'[s] = th[s] /\ job'[s] = job[s]
      BY <1>2, MovesTo
    <2>2. QED
      BY <2>1 DEF CallsFit, Fits, Current
  <1>3. QED
    BY <1>1, <1>2

LEMMA NoCallFits == Fits(Idle, NoJob)
  BY DEF Fits, Idle, NoJob

LEMMA CallsFits ==
    ASSUME TypeInv, CallsFit, NEW t \in Threads, NEW c \in Connects, NEW d \in Devices,
           NEW op \in {"start", "release"}, Calls(t, c, d, op)
    PROVE  CallsFit'
  <1>1. PICK x : x = [pc |-> "waiting", op |-> op, c |-> c, d |-> d]
    OBVIOUS
  <1>2. PICK k : k = <<c, epoch[d]>>
    OBVIOUS
  <1>3. PICK j : j = [pc |-> op, k |-> k, w |-> 0]
    OBVIOUS
  <1>4. Moves(t, x, j) /\ UNCHANGED <<online, epoch>>
    BY <1>1, <1>2, <1>3 DEF Calls, Moves, ProxyOf, linkVars
  <1>5. epoch[d] \in Int
    BY CallAssumption DEF TypeInv, WorldType
  <1>6. Fits(x, j)
    BY <1>1, <1>2, <1>3, <1>5 DEF Fits
  <1>7. QED
    BY <1>4, <1>6, FitMoves

(* Each step of a thread or of a handler leaves a call that fits.                       *)
LEMMA StepsFit ==
    ASSUME TypeInv, CallsFit, NEW t \in Threads, ThreadSteps(t) \/ JobSteps(t)
    PROVE  CallsFit'
  <1>1. UNCHANGED <<online, epoch>>
    BY DEF ThreadSteps, SaveCallerComponent, RemoveCallerComponent, JobSteps, StartFinds,
           AmsStartAbilityByCall, StartRecords, StartWatches, ReleaseForgets, AmsReleaseAbility, linkVars
  <1>2. Fits(th[t], job[t]) /\ Good(th[t], job[t])
    BY DEF CallsFit, TypeInv, ThreadType
  <1>3. CASE ThreadSteps(t)
    <2>1. PICK i : i = Idle
      OBVIOUS
    <2>2. Moves(t, i, job[t]) /\ th[t].pc = "ok"
      BY <1>3, <2>1 DEF ThreadSteps, SaveCallerComponent, RemoveCallerComponent, Moves, TypeInv, ThreadType
    <2>3. Fits(i, job[t])
      BY <1>2, <2>1, <2>2, NotCalls DEF Fits, Good
    <2>4. QED
      BY <1>1, <2>2, <2>3, FitMoves
  <1>4. CASE Succeeds(t) \/ Fails(t)
    <2>1. PICK y, i : /\ Moves(t, y, i) /\ i = NoJob
                      /\ y = Idle \/ y.pc = "ok"
      BY <1>4, EndsMoves
    <2>2. Fits(y, i)
      BY <2>1, NoCallFits, NotCalls DEF Fits
    <2>3. QED
      BY <1>1, <2>1, <2>2, FitMoves
  <1>5. ASSUME NEW p, NEW w, Goes(t, p, w), UNCHANGED th, job[t].pc # "none",
               \/ job[t].pc \in {"start", "found", "started", "recorded"} /\ p \in {"found", "started", "recorded"}
               \/ job[t].pc = "release" /\ p = "erased"
        PROVE CallsFit'
    <2>1. PICK i : Moves(t, th[t], i) /\ i.pc = p /\ i.k = job[t].k /\ i.w = w
      BY <1>5, GoesMoves
    <2>2. Fits(th[t], i)
      BY <1>2, <1>5, <2>1 DEF Fits
    <2>3. QED
      BY <1>1, <2>1, <2>2, FitMoves
  <1>6. CASE JobSteps(t)
    <2>1. CASE StartFinds(t)
      BY <1>4, <1>5, <2>1 DEF StartFinds, At
    <2>2. CASE AmsStartAbilityByCall(t)
      BY <1>4, <1>5, <2>2 DEF AmsStartAbilityByCall, At
    <2>3. CASE StartRecords(t)
      BY <1>5, <2>3 DEF StartRecords, At
    <2>4. CASE StartWatches(t) \/ AmsReleaseAbility(t)
      BY <1>4, <2>4 DEF StartWatches, AmsReleaseAbility
    <2>5. CASE ReleaseForgets(t)
      BY <1>4, <1>5, <2>5 DEF ReleaseForgets, At
    <2>6. QED
      BY <1>6, <2>1, <2>2, <2>3, <2>4, <2>5 DEF JobSteps
  <1>7. QED
    BY <1>3, <1>6

LEMMA WorldFits ==
    ASSUME TypeInv, CallsFit, NEW d \in Devices, LinkDown(d) \/ LinkUp(d)
    PROVE  CallsFit'
  <1> SUFFICES ASSUME NEW t \in Threads PROVE Fits(th[t], job[t])'
    BY DEF CallsFit
  <1>1. Fits(th[t], job[t]) /\ Good(th[t], job[t]) /\ th[t] \in CallSet /\ job' = job
    BY DEF CallsFit, TypeInv, ThreadType, LinkDown, LinkUp
  <1>2. CASE LinkDown(d)
    <2>1. epoch' = epoch /\ online' = online \ {d}
      BY <1>2 DEF LinkDown
    <2>2. PICK y : y = [th[t] EXCEPT !.pc = "gaveUp"]
      OBVIOUS
    <2>3. y.pc = "gaveUp" /\ y.op = th[t].op /\ y.c = th[t].c /\ y.d = th[t].d
      BY <1>1, <2>2, WithPlace DEF CallPlaces
    <2>4. th'[t] = th[t] \/ (th'[t] = y /\ th[t].pc = "waiting" /\ th[t].d = d)
      BY <1>2, <2>2 DEF LinkDown
    <2>5. Fits(th[t], job[t])'
      BY <1>1, <2>1, <2>3, <2>4 DEF Fits, Current
    <2>6. QED
      BY <2>5
  <1>3. CASE LinkUp(d)
    <2>1. /\ th' = th /\ online' = online \cup {d} /\ d \notin online
          /\ epoch' = [epoch EXCEPT ![d] = epoch[d] + 1]
      BY <1>3 DEF LinkUp
    <2>2. \A e \in Devices : epoch[e] \in Nat /\ epoch'[e] = IF e = d THEN epoch[e] + 1 ELSE epoch[e]
      BY <2>1, CallAssumption DEF TypeInv, WorldType
    <2>3. job[t].pc # "none" => th[t].d \in Devices /\ job[t].k \in Proxies /\ job[t].k[2] \in Nat
      BY <1>1, CallAssumption DEF Good, Proxies
    <2>4. Fits(th[t], job[t])'
      BY <1>1, <2>1, <2>2, <2>3 DEF Fits, Current
    <2>5. QED
      BY <1>1, <2>4
  <1>4. QED
    BY <1>2, <1>3

LEMMA NextFits == TypeInv /\ CallsFit /\ [Next]_vars => CallsFit'
  <1>1. SUFFICES ASSUME TypeInv, CallsFit, [Next]_vars PROVE CallsFit'
    OBVIOUS
  <1>2. CASE UNCHANGED <<th, job, online, epoch>>
    BY <1>1, <1>2 DEF CallsFit, Fits, Current
  <1>3. ASSUME NEW t \in Threads, NEW c \in Connects, NEW d \in Devices,
               StartRemoteAbilityByCall(t, c, d) \/ ReleaseRemoteAbility(t, c, d)
        PROVE  CallsFit'
    BY <1>1, <1>3, CallsFits DEF StartRemoteAbilityByCall, ReleaseRemoteAbility
  <1>4. ASSUME NEW c \in Connects, HandleLocalCallerDied(c) \/ ApplicationDies(c) PROVE CallsFit'
    BY <1>2, <1>4 DEF HandleLocalCallerDied, ApplicationDies, linkVars
  <1>5. ASSUME NEW d \in Devices, HandlerSteps(d) \/ AbilityDies(d) PROVE CallsFit'
    BY <1>2, <1>5 DEF HandlerSteps, ProcessCalleeOffline, HandlerReleases, ProcessCallerDied,
                      ProcessCalleeDied, AbilityDies, linkVars
  <1>6. CASE UNCHANGED vars
    BY <1>2, <1>6 DEF vars, linkVars
  <1>7. QED
    BY <1>1, <1>3, <1>4, <1>5, <1>6, StepsFit, WorldFits DEF Next

-----------------------------------------------------------------------------
(* The deaths in a queue. *)
DeathIn(q, kind) == \E i \in 1..Len(q) : q[i] = kind

LEMMA DeathAppended ==
    ASSUME NEW q \in Seq(Deaths), NEW e \in Deaths, NEW kind, DeathIn(Append(q, e), kind)
    PROVE  DeathIn(q, kind) \/ e = kind
  <1>1. PICK n \in Nat : n = Len(q)
    BY LenProperties
  <1>2. PICK i \in 1..Len(Append(q, e)) : Append(q, e)[i] = kind
    BY DEF DeathIn
  <1>3. Len(Append(q, e)) = n + 1 /\ Append(q, e)[n + 1] = e /\ \A m \in 1..n : Append(q, e)[m] = q[m]
    BY <1>1, AppendProperties
  <1>4. i = n + 1 \/ i \in 1..n
    BY <1>2, <1>3
  <1>5. QED
    BY <1>1, <1>2, <1>3, <1>4 DEF DeathIn

(* What a queue of deaths holds after one is queued, or one is taken.                   *)
LEMMA DeathTaken ==
    ASSUME NEW q \in Seq(Deaths), q # << >>
    PROVE  /\ DeathIn(q, Head(q))
           /\ \A kind : DeathIn(Tail(q), kind) => DeathIn(q, kind)
  <1>1. PICK n \in Nat : n = Len(q)
    BY LenProperties
  <1>2. n > 0
    BY <1>1, EmptySeq
  <1>3. Head(q) = q[1] /\ Len(Tail(q)) = n - 1 /\ \A i \in 1..n - 1 : Tail(q)[i] = q[i + 1]
    BY <1>1, <1>2, HeadTailProperties
  <1>4. 1 \in 1..n /\ \A i \in 1..n - 1 : i + 1 \in 1..n
    BY <1>2
  <1>5. QED
    BY <1>1, <1>3, <1>4 DEF DeathIn

LEMMA DeathSomewhere ==
    ASSUME NEW q, NEW kind, DeathIn(q, kind)
    PROVE  q # << >>
  BY EmptySeq DEF DeathIn

-----------------------------------------------------------------------------
(* What a step does to the tables of a device, entry by entry. *)
LEMMA ProxiesDieAt ==
    ASSUME TypeInv, NEW S, ProxiesDie(S), NEW d \in Devices, NEW k \in Proxies
    PROVE  \/ calleeTasks'[d][k] = calleeTasks[d][k]
           \/ /\ calleeTasks'[d][k] = Append(calleeTasks[d][k], "callerDied")
              /\ <<d, k>> \in S /\ k \in calleeWatch[d]
  BY DEF ProxiesDie

(* Each step of a handler, at each device and proxy: the EXCEPTs of the model, by points. *)
LEMMA StartsAt ==
    ASSUME TypeInv, NEW t \in Threads, AmsStartAbilityByCall(t)
    PROVE  \/ Fails(t) /\ UNCHANGED bound
           \/ /\ Goes(t, "started", job[t].w) /\ UNCHANGED th
              /\ \A d \in Devices : \A b :
                    b \in bound'[d] <=> b \in bound[d] \/ (d = th[t].d /\ b = <<job[t].k, job[t].w>>)
  <1>1. PICK e, n : e = th[t].d /\ n = <<job[t].k, job[t].w>>
    OBVIOUS
  <1>2. PICK B : B = bound[e] \cup {n}
    OBVIOUS
  <1>3. \/ Fails(t) /\ UNCHANGED bound
        \/ bound' = [bound EXCEPT ![e] = B] /\ Goes(t, "started", job[t].w) /\ UNCHANGED th
    BY <1>1, <1>2 DEF AmsStartAbilityByCall, DeviceOf
  <1>4. bound' = [bound EXCEPT ![e] = B] => \A d \in Devices : bound'[d] = IF d = e THEN B ELSE bound[d]
    BY DEF TypeInv, CalleeType
  <1>5. QED
    BY <1>1, <1>2, <1>3, <1>4

LEMMA ReleasesAt ==
    ASSUME TypeInv, NEW t \in Threads, AmsReleaseAbility(t)
    PROVE  \A d \in Devices : \A b :
              b \in bound'[d] <=> b \in bound[d] /\ ~(d = th[t].d /\ b = <<job[t].k, job[t].w>>)
  <1>1. PICK e, n : e = th[t].d /\ n = <<job[t].k, job[t].w>>
    OBVIOUS
  <1>2. PICK B : B = bound[e] \ {n}
    OBVIOUS
  <1>3. bound' = [bound EXCEPT ![e] = B]
    BY <1>1, <1>2 DEF AmsReleaseAbility, DeviceOf
  <1>4. \A d \in Devices : bound'[d] = IF d = e THEN B ELSE bound[d]
    BY <1>3 DEF TypeInv, CalleeType
  <1>5. QED
    BY <1>1, <1>2, <1>4

LEMMA WatchesAt ==
    ASSUME TypeInv, NEW t \in Threads, StartWatches(t), NEW d \in Devices, NEW k \in Proxies
    PROVE  \/ calleeTasks'[d][k] = calleeTasks[d][k]
           \/ /\ calleeTasks'[d][k] = Append(calleeTasks[d][k], "callerDied")
              /\ d = th[t].d /\ k = job[t].k /\ ~Usable(k, d)
  <1>1. PICK e, x : e = th[t].d /\ x = job[t].k
    OBVIOUS
  <1>2. PICK q : q = Append(calleeTasks[e][x], "callerDied")
    OBVIOUS
  <1>3. \/ UNCHANGED calleeTasks
        \/ ~Usable(x, e) /\ calleeTasks' = [calleeTasks EXCEPT ![e][x] = q]
    BY <1>1, <1>2 DEF StartWatches, DeviceOf
  <1>4. CASE UNCHANGED calleeTasks
    BY <1>4
  <1>5. CASE ~Usable(x, e) /\ calleeTasks' = [calleeTasks EXCEPT ![e][x] = q]
    <2>1. calleeTasks'[d][k] = IF d = e /\ k = x THEN q ELSE calleeTasks[d][k]
      BY <1>5 DEF TypeInv, CalleeType
    <2>2. QED
      BY <1>1, <1>2, <1>5, <2>1
  <1>6. QED
    BY <1>3, <1>4, <1>5

LEMMA RecordsAt ==
    ASSUME TypeInv, NEW t \in Threads, StartRecords(t), NEW d \in Devices, NEW k \in Proxies
    PROVE  calleeMap'[d][k] = IF d = th[t].d /\ k = job[t].k /\ calleeMap[d][k] = 0
                              THEN job[t].w ELSE calleeMap[d][k]
  <1>1. PICK e, x : e = th[t].d /\ x = job[t].k
    OBVIOUS
  <1>2. CASE calleeMap[e][x] = 0
    <2>1. calleeMap' = [calleeMap EXCEPT ![e][x] = job[t].w]
      BY <1>1, <1>2 DEF StartRecords, DeviceOf
    <2>2. calleeMap'[d][k] = IF d = e /\ k = x THEN job[t].w ELSE calleeMap[d][k]
      BY <2>1 DEF TypeInv, CalleeType
    <2>3. QED
      BY <1>1, <1>2, <2>2
  <1>3. CASE calleeMap[e][x] # 0
    <2>1. calleeMap' = calleeMap
      BY <1>1, <1>3 DEF StartRecords, DeviceOf
    <2>2. QED
      BY <1>1, <1>3, <2>1
  <1>4. QED
    BY <1>2, <1>3

LEMMA ForgetsAt ==
    ASSUME TypeInv, NEW t \in Threads, ReleaseForgets(t)
    PROVE  \/ Fails(t) /\ UNCHANGED calleeMap
           \/ /\ Goes(t, "erased", calleeMap[th[t].d][job[t].k]) /\ UNCHANGED th
              /\ calleeMap[th[t].d][job[t].k] # 0
              /\ \A d \in Devices, k \in Proxies :
                    calleeMap'[d][k] = IF d = th[t].d /\ k = job[t].k THEN 0 ELSE calleeMap[d][k]
  <1>1. PICK e, x : e = th[t].d /\ x = job[t].k
    OBVIOUS
  <1>2. \/ Fails(t) /\ UNCHANGED calleeMap
        \/ /\ Goes(t, "erased", calleeMap[e][x]) /\ UNCHANGED th /\ calleeMap[e][x] # 0
           /\ calleeMap' = [calleeMap EXCEPT ![e][x] = 0]
    BY <1>1 DEF ReleaseForgets, Forgets, DeviceOf
  <1>3. calleeMap' = [calleeMap EXCEPT ![e][x] = 0] => \A d \in Devices, k \in Proxies :
           calleeMap'[d][k] = IF d = e /\ k = x THEN 0 ELSE calleeMap[d][k]
    BY DEF TypeInv, CalleeType
  <1>4. QED
    BY <1>1, <1>2, <1>3

(* The next death of a proxy is taken, and its entry goes. *)
LEMMA DeathAt ==
    ASSUME TypeInv, NEW e \in Devices, NEW x \in Proxies, NEW kind, NextDeath(e, x, kind)
    PROVE  /\ DeathIn(calleeTasks[e][x], kind)
           /\ \A d \in Devices, k \in Proxies :
                 /\ calleeMap'[d][k] = IF d = e /\ k = x THEN 0 ELSE calleeMap[d][k]
                 /\ calleeTasks'[d][k] # << >> => calleeTasks[d][k] # << >>
                 /\ \A o : DeathIn(calleeTasks'[d][k], o) => DeathIn(calleeTasks[d][k], o)
  <1>1. PICK q : q = Tail(calleeTasks[e][x])
    OBVIOUS
  <1>2. calleeTasks' = [calleeTasks EXCEPT ![e][x] = q] /\ calleeMap' = [calleeMap EXCEPT ![e][x] = 0]
    BY <1>1 DEF NextDeath, Forgets
  <1>3. calleeTasks[e][x] \in Seq(Deaths) /\ calleeTasks[e][x] # << >> /\ Head(calleeTasks[e][x]) = kind
    BY DEF NextDeath, TypeInv, CalleeType
  <1>4. /\ DeathIn(calleeTasks[e][x], kind)
        /\ \A o : DeathIn(q, o) => DeathIn(calleeTasks[e][x], o)
    BY <1>1, <1>3, DeathTaken
  <1>5. ASSUME NEW d \in Devices, NEW k \in Proxies
        PROVE  /\ calleeMap'[d][k] = IF d = e /\ k = x THEN 0 ELSE calleeMap[d][k]
               /\ calleeTasks'[d][k] = IF d = e /\ k = x THEN q ELSE calleeTasks[d][k]
    BY <1>2 DEF TypeInv, CalleeType
  <1>6. ASSUME NEW d \in Devices, NEW k \in Proxies
        PROVE  /\ calleeMap'[d][k] = IF d = e /\ k = x THEN 0 ELSE calleeMap[d][k]
               /\ calleeTasks'[d][k] # << >> => calleeTasks[d][k] # << >>
               /\ \A o : DeathIn(calleeTasks'[d][k], o) => DeathIn(calleeTasks[d][k], o)
    <2>1. CASE d = e /\ k = x
      BY <1>3, <1>4, <1>5, <2>1
    <2>2. CASE ~(d = e /\ k = x)
      BY <1>5, <2>2
    <2>3. QED
      BY <2>1, <2>2
  <1>7. QED
    BY <1>4, <1>6

LEMMA AbilityDiesAt ==
    ASSUME TypeInv, NEW e \in Devices, AbilityDies(e), NEW d \in Devices, NEW k \in Proxies
    PROVE  /\ \A b : b \in bound'[d] <=> b \in bound[d] /\ d # e
           /\ \/ calleeTasks'[d][k] = calleeTasks[d][k]
              \/ /\ calleeTasks'[d][k] = Append(calleeTasks[d][k], "calleeDied")
                 /\ d = e /\ \E w \in Wrappers : <<k, w>> \in bound[d]
  <1>1. \A x \in Devices : bound'[x] = IF x = e THEN {} ELSE bound[x]
    BY DEF AbilityDies, TypeInv, CalleeType
  <1>2. k \in {b[1] : b \in bound[e]} => \E w \in Wrappers : <<k, w>> \in bound[e]
    <2>1. \A b \in bound[e] : b = <<b[1], b[2]>> /\ b[2] \in Wrappers
      BY DEF TypeInv, CalleeType
    <2>2. QED
      BY <2>1
  <1>3. \/ calleeTasks'[d][k] = calleeTasks[d][k]
        \/ /\ calleeTasks'[d][k] = Append(calleeTasks[d][k], "calleeDied")
           /\ d = e /\ k \in {b[1] : b \in bound[e]}
    BY DEF AbilityDies, TypeInv, CalleeType
  <1>4. QED
    BY <1>1, <1>2, <1>3

-----------------------------------------------------------------------------
(* No proxy of a link to come. *)
LEMMA PastKept ==
    ASSUME NEW d, NEW k, PastOf(d, k), epoch'[d] = epoch[d], Usable(k, d)' => Usable(k, d),
           calleeMap'[d][k] # 0 => calleeMap[d][k] # 0 \/ k[2] <= epoch[d],
           calleeTasks'[d][k] # << >> => calleeTasks[d][k] # << >> \/ k[2] <= epoch[d],
           DeathIn(calleeTasks'[d][k], "callerDied") =>
               DeathIn(calleeTasks[d][k], "callerDied") \/ ~Usable(k, d)',
           \A w \in Wrappers :
               /\ <<k, w>> \in bound'[d] => <<k, w>> \in bound[d] \/ k[2] <= epoch[d]
               /\ handling'[d] = <<k, w>> =>
                     handling[d] = <<k, w>> \/ (k[2] <= epoch[d] /\ ~Usable(k, d))
    PROVE  PastOf(d, k)'
  BY DEF PastOf, Queued, DeathIn

(* The wrapper of a job that is somewhere. *)
LEMMA JobHas ==
    ASSUME TypeInv, CallsFit, NEW t \in Threads, job[t].pc # "none"
    PROVE  /\ th[t].d \in Devices /\ job[t].k \in Proxies /\ th[t].c \in Connects
           /\ job[t].k[1] = th[t].c /\ job[t].k[2] <= epoch[th[t].d]
           /\ job[t].pc \notin {"start", "release"} => job[t].w \in Wrappers
  BY DEF TypeInv, ThreadType, Good, CallsFit, Fits

(* PastOnly is kept: a proxy of a link to come is nowhere, and a handler cleans up lost ones. *)
LEMMA StepsPast ==
    ASSUME TypeInv, CallsFit, PastOnly, NEW t \in Threads, ThreadSteps(t) \/ JobSteps(t)
    PROVE  PastOnly'
  <1>1. UNCHANGED <<alive, online, epoch, offlineDue, handling>>
    BY DEF ThreadSteps, SaveCallerComponent, RemoveCallerComponent, JobSteps, StartFinds,
           AmsStartAbilityByCall, StartRecords, StartWatches, ReleaseForgets, AmsReleaseAbility,
           linkVars, calleeVars
  <1>2. callerDied' \cap alive = {}
    BY DEF ThreadSteps, SaveCallerComponent, RemoveCallerComponent, JobSteps, StartFinds,
           AmsStartAbilityByCall, StartRecords, StartWatches, ReleaseForgets, AmsReleaseAbility,
           callerVars, PastOnly
  <1>3. ASSUME NEW d \in Devices, NEW k \in Proxies PROVE PastOf(d, k)'
    <2>1. PastOf(d, k) /\ calleeTasks[d][k] \in Seq(Deaths) /\ Usable(k, d)' = Usable(k, d)
      BY <1>1 DEF PastOnly, TypeInv, CalleeType, Usable
    <2>2. CASE ThreadSteps(t) \/ StartFinds(t)
      BY <1>1, <2>1, <2>2, PastKept DEF ThreadSteps, SaveCallerComponent, RemoveCallerComponent,
         StartFinds, calleeVars
    <2>3. CASE AmsStartAbilityByCall(t)
      <3>1. job[t].k[2] <= epoch[th[t].d]
        BY <2>3, JobHas DEF AmsStartAbilityByCall, At
      <3>2. \A w \in Wrappers : <<k, w>> \in bound'[d] => <<k, w>> \in bound[d] \/ k[2] <= epoch[d]
        BY <2>3, <3>1, StartsAt
      <3>3. UNCHANGED <<calleeMap, calleeTasks>>
        BY <2>3 DEF AmsStartAbilityByCall
      <3>4. QED
        BY <1>1, <2>1, <3>2, <3>3, PastKept
    <2>4. CASE StartRecords(t)
      <3>1. job[t].k[2] <= epoch[th[t].d]
        BY <2>4, JobHas DEF StartRecords, At
      <3>2. calleeMap'[d][k] # 0 => calleeMap[d][k] # 0 \/ k[2] <= epoch[d]
        BY <2>4, <3>1, RecordsAt
      <3>3. UNCHANGED <<calleeTasks, bound>>
        BY <2>4 DEF StartRecords
      <3>4. QED
        BY <1>1, <2>1, <3>2, <3>3, PastKept
    <2>5. CASE StartWatches(t)
      <3>1. job[t].k[2] <= epoch[th[t].d]
        BY <2>5, JobHas DEF StartWatches, At
      <3>2. calleeTasks'[d][k] # << >> => calleeTasks[d][k] # << >> \/ k[2] <= epoch[d]
        BY <2>5, <3>1, WatchesAt
      <3>3. DeathIn(calleeTasks'[d][k], "callerDied") =>
               DeathIn(calleeTasks[d][k], "callerDied") \/ ~Usable(k, d)'
        BY <2>1, <2>5, WatchesAt
      <3>4. UNCHANGED <<calleeMap, bound>>
        BY <2>5 DEF StartWatches
      <3>5. QED
        BY <1>1, <2>1, <3>2, <3>3, <3>4, PastKept
    <2>6. CASE ReleaseForgets(t)
      <3>1. calleeMap'[d][k] # 0 => calleeMap[d][k] # 0
        BY <2>6, ForgetsAt
      <3>2. UNCHANGED <<calleeTasks, bound>>
        BY <2>6 DEF ReleaseForgets
      <3>3. QED
        BY <1>1, <2>1, <3>1, <3>2, PastKept
    <2>7. CASE AmsReleaseAbility(t)
      <3>1. \A w \in Wrappers : <<k, w>> \in bound'[d] => <<k, w>> \in bound[d]
        BY <2>7, ReleasesAt
      <3>2. UNCHANGED <<calleeMap, calleeTasks>>
        BY <2>7 DEF AmsReleaseAbility
      <3>3. QED
        BY <1>1, <2>1, <3>1, <3>2, PastKept
    <2>8. QED
      BY <2>2, <2>3, <2>4, <2>5, <2>6, <2>7 DEF JobSteps
  <1>4. QED
    BY <1>1, <1>2, <1>3 DEF PastOnly

LEMMA HandlerPast ==
    ASSUME TypeInv, PastOnly, NEW e \in Devices, HandlerSteps(e)
    PROVE  PastOnly'
  <1>1. UNCHANGED <<alive, online, epoch, callerDied>> /\ offlineDue' \subseteq offlineDue
    BY DEF HandlerSteps, ProcessCalleeOffline, HandlerReleases, ProcessCallerDied, ProcessCalleeDied,
           linkVars, callerVars
  <1>2. ASSUME NEW d \in Devices, NEW k \in Proxies PROVE PastOf(d, k)'
    <2>1. PastOf(d, k) /\ Usable(k, d)' = Usable(k, d)
      BY <1>1 DEF PastOnly, Usable
    <2>2. CASE ProcessCalleeOffline(e)
      BY <1>1, <2>1, <2>2, PastKept DEF ProcessCalleeOffline, calleeVars
    <2>3. CASE HandlerReleases(e)
      <3>1. \A w \in Wrappers : <<k, w>> \in bound'[d] => <<k, w>> \in bound[d]
        BY <2>3 DEF HandlerReleases, TypeInv, CalleeType
      <3>2. \A w \in Wrappers : handling'[d] = <<k, w>> => handling[d] = <<k, w>>
        <4>1. handling'[d] = handling[d] \/ handling'[d] = None
          BY <2>3 DEF HandlerReleases, TypeInv, CalleeType
        <4>2. \A w \in Wrappers : <<k, w>> # None
          BY CallAssumption
        <4>3. QED
          BY <4>1, <4>2
      <3>3. UNCHANGED <<calleeMap, calleeTasks>>
        BY <2>3 DEF HandlerReleases
      <3>4. QED
        BY <1>1, <2>1, <3>1, <3>2, <3>3, PastKept
    <2>4. ASSUME NEW x \in Proxies, ProcessCallerDied(e, x) PROVE PastOf(d, k)'
      <3>1. /\ DeathIn(calleeTasks[e][x], "callerDied")
            /\ calleeMap'[d][k] # 0 => calleeMap[d][k] # 0
            /\ calleeTasks'[d][k] # << >> => calleeTasks[d][k] # << >>
            /\ DeathIn(calleeTasks'[d][k], "callerDied") => DeathIn(calleeTasks[d][k], "callerDied")
        BY <2>4, DeathAt DEF ProcessCallerDied
      <3>2. calleeTasks[e][x] # << >> /\ Queued(e, x)
        BY <3>1, DeathSomewhere DEF DeathIn, Queued
      <3>3. x[2] <= epoch[e] /\ ~Usable(x, e)
        BY <3>2 DEF PastOnly, PastOf
      <3>4. \A w \in Wrappers : handling'[d] = <<k, w>> =>
               handling[d] = <<k, w>> \/ (k[2] <= epoch[d] /\ ~Usable(k, d))
        <4>1. PICK m : m = calleeMap[e][x]
          OBVIOUS
        <4>2. PICK h : h = IF m = 0 THEN None ELSE <<x, m>>
          OBVIOUS
        <4>3. handling' = [handling EXCEPT ![e] = h]
          BY <2>4, <4>1, <4>2 DEF ProcessCallerDied
        <4>4. handling'[d] = IF d = e THEN h ELSE handling[d]
          BY <4>3 DEF TypeInv, CalleeType
        <4>5. \A w \in Wrappers : <<k, w>> # None
          BY CallAssumption
        <4>6. \A w \in Wrappers : <<k, w>> = h => k = x
          BY <4>2, <4>5
        <4>7. QED
          BY <3>3, <4>4, <4>6
      <3>5. UNCHANGED bound
        BY <2>4 DEF ProcessCallerDied
      <3>6. QED
        BY <1>1, <2>1, <3>1, <3>4, <3>5, PastKept
    <2>5. ASSUME NEW x \in Proxies, ProcessCalleeDied(e, x) PROVE PastOf(d, k)'
      <3>1. /\ calleeMap'[d][k] # 0 => calleeMap[d][k] # 0
            /\ calleeTasks'[d][k] # << >> => calleeTasks[d][k] # << >>
            /\ DeathIn(calleeTasks'[d][k], "callerDied") => DeathIn(calleeTasks[d][k], "callerDied")
        BY <2>5, DeathAt DEF ProcessCalleeDied
      <3>2. UNCHANGED <<bound, handling>>
        BY <2>5 DEF ProcessCalleeDied
      <3>3. QED
        BY <1>1, <2>1, <3>1, <3>2, PastKept
    <2>6. QED
      BY <2>2, <2>3, <2>4, <2>5 DEF HandlerSteps
  <1>3. QED
    BY <1>1, <1>2 DEF PastOnly

LEMMA NextPast == TypeInv /\ CalleeAlive /\ CallerAlive /\ CallsFit /\ PastOnly /\ [Next]_vars => PastOnly'
  <1>1. SUFFICES ASSUME TypeInv, CalleeAlive, CallerAlive, CallsFit, PastOnly, [Next]_vars PROVE PastOnly'
    OBVIOUS
  <1>2. CASE UNCHANGED <<calleeMap, calleeTasks, bound, handling, alive, online, epoch, offlineDue, callerDied>>
    BY <1>1, <1>2 DEF PastOnly, PastOf, Queued, Usable
  <1>3. ASSUME NEW t \in Threads, NEW c \in Connects, NEW d \in Devices,
               StartRemoteAbilityByCall(t, c, d) \/ ReleaseRemoteAbility(t, c, d)
        PROVE  PastOnly'
    BY <1>2, <1>3 DEF StartRemoteAbilityByCall, ReleaseRemoteAbility, Calls, calleeVars, linkVars, callerVars
  <1>4. ASSUME NEW c \in Connects, HandleLocalCallerDied(c) PROVE PastOnly'
    BY <1>1, <1>4 DEF HandleLocalCallerDied, calleeVars, linkVars, PastOnly, PastOf, Queued, Usable
  <1>5. ASSUME NEW c \in Connects, ApplicationDies(c) PROVE PastOnly'
    <2>1. /\ UNCHANGED <<online, epoch, offlineDue, calleeMap, bound, handling>> /\ alive' = alive \ {c}
          /\ callerDied' = callerDied \cup (callerWatch \cap {c})
          /\ ProxiesDie({<<d, <<c, epoch[d]>>>> : d \in Devices})
      BY <1>5 DEF ApplicationDies
    <2>2. ASSUME NEW d \in Devices, NEW k \in Proxies PROVE PastOf(d, k)'
      <3>1. PastOf(d, k) /\ calleeTasks[d][k] \in Seq(Deaths) /\ (Usable(k, d)' => Usable(k, d))
        BY <1>1, <2>1 DEF PastOnly, TypeInv, CalleeType, Usable
      <3>2. \/ calleeTasks'[d][k] = calleeTasks[d][k]
            \/ k = <<c, epoch[d]>> /\ k \in calleeWatch[d]
        <4>1. PICK S : S = {<<x, <<c, epoch[x]>>>> : x \in Devices}
          OBVIOUS
        <4>2. \/ calleeTasks'[d][k] = calleeTasks[d][k]
              \/ <<d, k>> \in S /\ k \in calleeWatch[d]
          BY <1>1, <2>1, <4>1, ProxiesDieAt
        <4>3. QED
          BY <4>1, <4>2
      <3>3. k = <<c, epoch[d]>> => ~Usable(k, d)'
        BY <2>1 DEF Usable
      <3>4. k \in calleeWatch[d] => k[2] <= epoch[d]
        BY <1>1, CallAssumption DEF CalleeAlive, Usable, TypeInv, WorldType
      <3>5. QED
        BY <2>1, <3>1, <3>2, <3>3, <3>4, PastKept
    <2>3. QED
      BY <1>1, <2>1, <2>2 DEF PastOnly
  <1>6. ASSUME NEW e \in Devices, LinkDown(e) PROVE PastOnly'
    <2>1. /\ UNCHANGED <<alive, epoch, callerDied, calleeMap, bound, handling>> /\ online' = online \ {e}
          /\ offlineDue' = offlineDue \cup {e}
          /\ ProxiesDie({<<e, <<c, epoch[e]>>>> : c \in Connects})
      BY <1>6 DEF LinkDown, callerVars
    <2>2. ASSUME NEW d \in Devices, NEW k \in Proxies PROVE PastOf(d, k)'
      <3>1. PastOf(d, k) /\ calleeTasks[d][k] \in Seq(Deaths) /\ (Usable(k, d)' => Usable(k, d))
        BY <1>1, <2>1 DEF PastOnly, TypeInv, CalleeType, Usable
      <3>2. \/ calleeTasks'[d][k] = calleeTasks[d][k]
            \/ d = e /\ k \in calleeWatch[d]
        <4>1. PICK S : S = {<<e, <<c, epoch[e]>>>> : c \in Connects}
          OBVIOUS
        <4>2. \/ calleeTasks'[d][k] = calleeTasks[d][k]
              \/ <<d, k>> \in S /\ k \in calleeWatch[d]
          BY <1>1, <2>1, <4>1, ProxiesDieAt
        <4>3. QED
          BY <4>1, <4>2
      <3>3. d = e => ~Usable(k, d)'
        BY <2>1 DEF Usable
      <3>4. k \in calleeWatch[d] => k[2] <= epoch[d]
        BY <1>1, CallAssumption DEF CalleeAlive, Usable, TypeInv, WorldType
      <3>5. QED
        BY <2>1, <3>1, <3>2, <3>3, <3>4, PastKept
    <2>3. QED
      BY <1>1, <2>1, <2>2 DEF PastOnly
  <1>7. ASSUME NEW e \in Devices, LinkUp(e) PROVE PastOnly'
    <2>1. /\ UNCHANGED <<alive, callerDied, calleeMap, bound, handling, calleeTasks>>
          /\ online' = online \cup {e} /\ e \notin online /\ offlineDue' = offlineDue \ {e}
          /\ epoch' = [epoch EXCEPT ![e] = epoch[e] + 1]
      BY <1>7 DEF LinkUp, callerVars, calleeVars
    <2>2. ASSUME NEW d \in Devices, NEW k \in Proxies PROVE PastOf(d, k)'
      <3>1. PastOf(d, k) /\ epoch[d] \in Nat /\ k[2] \in Nat
        BY <1>1, CallAssumption DEF PastOnly, TypeInv, WorldType, Proxies
      <3>2. epoch'[d] = IF d = e THEN epoch[d] + 1 ELSE epoch[d]
        BY <1>1, <2>1 DEF TypeInv, WorldType
      <3>3. k[2] <= epoch[d] /\ ~Usable(k, d) => ~Usable(k, d)'
        BY <2>1, <3>1, <3>2 DEF Usable
      <3>4. Queued(d, k) => k[2] <= epoch[d]
        BY <3>1, DeathSomewhere DEF Queued, DeathIn, PastOf
      <3>5. QED
        BY <2>1, <3>1, <3>2, <3>3, <3>4 DEF PastOf, Queued
    <2>3. QED
      BY <1>1, <2>1, <2>2 DEF PastOnly
  <1>8. ASSUME NEW e \in Devices, AbilityDies(e) PROVE PastOnly'
    <2>1. UNCHANGED <<alive, online, epoch, offlineDue, callerDied, calleeMap, handling>>
      BY <1>8 DEF AbilityDies, linkVars, callerVars
    <2>2. ASSUME NEW d \in Devices, NEW k \in Proxies PROVE PastOf(d, k)'
      <3>1. PastOf(d, k) /\ calleeTasks[d][k] \in Seq(Deaths) /\ (Usable(k, d)' => Usable(k, d))
        BY <1>1, <2>1 DEF PastOnly, TypeInv, CalleeType, Usable
      <3>2. \A w \in Wrappers : <<k, w>> \in bound'[d] => <<k, w>> \in bound[d]
        BY <1>1, <1>8, AbilityDiesAt
      <3>3. calleeTasks'[d][k] # << >> => calleeTasks[d][k] # << >> \/ k[2] <= epoch[d]
        BY <1>1, <1>8, <3>1, AbilityDiesAt DEF PastOf
      <3>4. DeathIn(calleeTasks'[d][k], "callerDied") => DeathIn(calleeTasks[d][k], "callerDied")
        <4>1. \/ calleeTasks'[d][k] = calleeTasks[d][k]
              \/ calleeTasks'[d][k] = Append(calleeTasks[d][k], "calleeDied")
          BY <1>1, <1>8, AbilityDiesAt
        <4>2. DeathIn(Append(calleeTasks[d][k], "calleeDied"), "callerDied") =>
                 DeathIn(calleeTasks[d][k], "callerDied") \/ "calleeDied" = "callerDied"
          BY <3>1, DeathAppended DEF Deaths
        <4>3. QED
          BY <4>1, <4>2
      <3>5. QED
        BY <2>1, <3>1, <3>2, <3>3, <3>4, PastKept
    <2>3. QED
      BY <1>1, <2>1, <2>2 DEF PastOnly
  <1>9. CASE UNCHANGED vars
    BY <1>2, <1>9 DEF vars, calleeVars, linkVars, callerVars
  <1>10. QED
    BY <1>1, <1>3, <1>4, <1>5, <1>6, <1>7, <1>8, <1>9, StepsPast, HandlerPast DEF Next

-----------------------------------------------------------------------------
(* Each side reports what it holds. *)
LEMMA ErasesReports ==
    ASSUME TypeInv, CallerReports, NEW c \in Connects, Erases(c)
    PROVE  CallerReports'
  <1>1. callerAdds' = IF callerMap[c] = {} THEN callerAdds ELSE [callerAdds EXCEPT ![c] = callerAdds[c] - 1]
    BY DEF Erases, Removed
  <1>2. callerMap' = [callerMap EXCEPT ![c] = {}]
    BY DEF Erases
  <1>3. \A x \in Connects : callerMap'[x] = IF x = c THEN {} ELSE callerMap[x]
    BY <1>2 DEF TypeInv, CallerType
  <1>4. callerMap[c] # {} => callerAdds[c] = 1
    BY DEF CallerReports
  <1>5. callerAdds' = [x \in Connects |-> IF x = c THEN 0 ELSE callerAdds[x]]
    BY <1>1, <1>4 DEF CallerReports
  <1>6. QED
    BY <1>3, <1>5 DEF CallerReports

(* The caller reports an entry when it makes it, and its end when it erases it.         *)
LEMMA NextCallerReports == TypeInv /\ CallerReports /\ [Next]_vars => CallerReports'
  <1>1. SUFFICES ASSUME TypeInv, CallerReports, [Next]_vars PROVE CallerReports'
    OBVIOUS
  <1>2. CASE UNCHANGED <<callerMap, callerAdds>>
    BY <1>1, <1>2 DEF CallerReports
  <1>3. ASSUME NEW t \in Threads, SaveCallerComponent(t) PROVE CallerReports'
    <2>1. PICK c \in Connects, d \in Devices : c = th[t].c /\ d = th[t].d
      BY <1>1, <1>3 DEF SaveCallerComponent, TypeInv, ThreadType, Good
    <2>2. PICK M : M = callerMap[c] \cup {d}
      OBVIOUS
    <2>3. callerMap' = [callerMap EXCEPT ![c] = M]
      BY <1>3, <2>1, <2>2 DEF SaveCallerComponent
    <2>4. \A x \in Connects : callerMap'[x] = IF x = c THEN M ELSE callerMap[x]
      BY <1>1, <2>3 DEF TypeInv, CallerType
    <2>5. callerAdds' = IF callerMap[c] = {} THEN [callerAdds EXCEPT ![c] = callerAdds[c] + 1] ELSE callerAdds
      BY <1>3, <2>1 DEF SaveCallerComponent, Added
    <2>6. callerAdds' = [x \in Connects |-> IF x = c THEN 1 ELSE callerAdds[x]]
      BY <1>1, <2>5 DEF CallerReports
    <2>7. M # {}
      BY <2>2
    <2>8. QED
      BY <1>1, <2>4, <2>6, <2>7 DEF CallerReports
  <1>4. ASSUME NEW t \in Threads, RemoveCallerComponent(t) PROVE CallerReports'
    <2>1. th[t].c \in Connects /\ Erases(th[t].c)
      BY <1>1, <1>4 DEF RemoveCallerComponent, TypeInv, ThreadType, Good
    <2>2. QED
      BY <1>1, <2>1, ErasesReports
  <1>5. ASSUME NEW c \in Connects, HandleLocalCallerDied(c) PROVE CallerReports'
    BY <1>1, <1>5, ErasesReports DEF HandleLocalCallerDied
  <1>6. ASSUME NEW d \in Devices, ProcessCalleeOffline(d) PROVE CallerReports'
    <2>1. callerMap' = [c \in Connects |-> callerMap[c] \ {d}]
      BY <1>6 DEF ProcessCalleeOffline
    <2>2. callerAdds' = [c \in Connects |-> IF callerMap[c] = {d} THEN callerAdds[c] - 1 ELSE callerAdds[c]]
      BY <1>6 DEF ProcessCalleeOffline, LastSessions
    <2>3. \A c \in Connects : (callerMap'[c] # {}) <=> (callerMap[c] # {} /\ callerMap[c] # {d})
      BY <2>1
    <2>4. QED
      BY <1>1, <2>2, <2>3 DEF CallerReports
  <1>7. ASSUME NEW t \in Threads, JobSteps(t) PROVE CallerReports'
    BY <1>2, <1>7 DEF JobSteps, StartFinds, AmsStartAbilityByCall, StartRecords, StartWatches,
                      ReleaseForgets, AmsReleaseAbility, callerVars
  <1>8. ASSUME NEW d \in Devices, HandlerSteps(d) PROVE CallerReports'
    BY <1>2, <1>6, <1>8 DEF HandlerSteps, HandlerReleases, ProcessCallerDied, ProcessCalleeDied, callerVars
  <1>9. ASSUME NEW c \in Connects, ApplicationDies(c) PROVE CallerReports'
    BY <1>2, <1>9 DEF ApplicationDies
  <1>10. ASSUME NEW d \in Devices, AbilityDies(d) \/ LinkDown(d) \/ LinkUp(d) PROVE CallerReports'
    BY <1>2, <1>10 DEF AbilityDies, LinkDown, LinkUp, callerVars
  <1>11. ASSUME NEW t \in Threads, NEW c \in Connects, NEW d \in Devices,
               StartRemoteAbilityByCall(t, c, d) \/ ReleaseRemoteAbility(t, c, d)
        PROVE  CallerReports'
    BY <1>2, <1>11 DEF StartRemoteAbilityByCall, ReleaseRemoteAbility, Calls, callerVars
  <1>12. CASE UNCHANGED vars
    BY <1>2, <1>12 DEF vars, callerVars
  <1>13. QED
    BY <1>1, <1>3, <1>4, <1>5, <1>7, <1>8, <1>9, <1>10, <1>11, <1>12 DEF Next, ThreadSteps

(* An entry goes with one report. *)
LEMMA ForgetsReports ==
    ASSUME TypeInv, CalleeReports, NEW e \in Devices, NEW x \in Proxies, Forgets(e, x), UNCHANGED repeats
    PROVE  CalleeReports'
  <1>1. calleeMap' = [calleeMap EXCEPT ![e][x] = 0]
    BY DEF Forgets
  <1>2. \A d \in Devices, k \in Proxies : calleeMap'[d][k] = IF d = e /\ k = x THEN 0 ELSE calleeMap[d][k]
    BY <1>1 DEF TypeInv, CalleeType
  <1>3. CASE calleeMap[e][x] = 0
    <2>1. calleeAdds' = calleeAdds
      BY <1>3 DEF Forgets
    <2>2. QED
      BY <1>2, <1>3, <2>1 DEF CalleeReports
  <1>4. CASE calleeMap[e][x] # 0
    <2>1. repeats[e][x] \in Nat /\ calleeAdds[e][x] = repeats[e][x] + 1
      BY <1>4 DEF CalleeReports
    <2>2. PICK n \in Nat : n = calleeAdds[e][x] - 1
      BY <2>1
    <2>3. calleeAdds' = [calleeAdds EXCEPT ![e] = [calleeAdds[e] EXCEPT ![x] = n]]
      BY <1>4, <2>2 DEF Forgets, Removed
    <2>4. calleeAdds' \in [Devices -> [Proxies -> Nat]]
      BY <2>3 DEF CalleeReports
    <2>5. \A d \in Devices, k \in Proxies : calleeAdds'[d][k] = IF d = e /\ k = x THEN n ELSE calleeAdds[d][k]
      BY <2>3 DEF CalleeReports
    <2>6. QED
      BY <1>2, <2>1, <2>2, <2>4, <2>5 DEF CalleeReports
  <1>5. QED
    BY <1>3, <1>4

LEMMA RecordsReports ==
    ASSUME TypeInv, CallsFit, CalleeReports, NEW t \in Threads, StartRecords(t)
    PROVE  CalleeReports'
  <1>1. job[t].pc # "none" /\ job[t].pc \notin {"start", "release"}
    BY DEF StartRecords, At
  <1>2. PICK e \in Devices, x \in Proxies : e = th[t].d /\ x = job[t].k
    BY <1>1, JobHas
  <1>3. job[t].w # 0
    BY <1>1, JobHas DEF Wrappers
  <1>4. PICK n \in Nat : n = calleeAdds[e][x] + 1
    BY DEF CalleeReports
  <1>5. calleeAdds' = [calleeAdds EXCEPT ![e] = [calleeAdds[e] EXCEPT ![x] = n]]
    BY <1>2, <1>4 DEF StartRecords, Added, DeviceOf
  <1>6. calleeAdds' \in [Devices -> [Proxies -> Nat]]
    BY <1>5 DEF CalleeReports
  <1>7. \A d \in Devices, k \in Proxies : calleeAdds'[d][k] = IF d = e /\ k = x THEN n ELSE calleeAdds[d][k]
    BY <1>5 DEF CalleeReports
  <1>8. CASE calleeMap[e][x] = 0
    <2>1. repeats' = repeats
      BY <1>2, <1>8 DEF StartRecords, DeviceOf
    <2>2. \A d \in Devices, k \in Proxies :
             calleeMap'[d][k] = IF d = e /\ k = x THEN job[t].w ELSE calleeMap[d][k]
      BY <1>2, <1>8, RecordsAt
    <2>3. QED
      BY <1>3, <1>4, <1>6, <1>7, <1>8, <2>1, <2>2 DEF CalleeReports
  <1>9. CASE calleeMap[e][x] # 0
    <2>1. calleeMap' = calleeMap
      BY <1>2, <1>9 DEF StartRecords, DeviceOf
    <2>2. PICK m \in Nat : m = repeats[e][x] + 1
      BY DEF CalleeReports
    <2>3. repeats' = [repeats EXCEPT ![e][x] = m]
      BY <1>2, <1>9, <2>2 DEF StartRecords, DeviceOf
    <2>4. repeats' \in [Devices -> [Proxies -> Nat]]
      BY <2>3 DEF CalleeReports
    <2>5. \A d \in Devices, k \in Proxies : repeats'[d][k] = IF d = e /\ k = x THEN m ELSE repeats[d][k]
      BY <2>3 DEF CalleeReports
    <2>6. QED
      BY <1>4, <1>6, <1>7, <1>9, <2>1, <2>2, <2>4, <2>5 DEF CalleeReports
  <1>10. QED
    BY <1>8, <1>9

(* So does the callee, which counts a repeated start twice.                             *)
LEMMA NextCalleeReports == TypeInv /\ CallsFit /\ CalleeReports /\ [Next]_vars => CalleeReports'
  <1>1. SUFFICES ASSUME TypeInv, CallsFit, CalleeReports, [Next]_vars PROVE CalleeReports'
    OBVIOUS
  <1>2. CASE UNCHANGED <<calleeMap, calleeAdds, repeats>>
    BY <1>1, <1>2 DEF CalleeReports
  <1>3. ASSUME NEW t \in Threads, ReleaseForgets(t) PROVE CalleeReports'
    <2>1. PICK e \in Devices, x \in Proxies : e = th[t].d /\ x = job[t].k
      BY <1>1, <1>3, JobHas DEF ReleaseForgets, At
    <2>2. UNCHANGED repeats /\ (Forgets(e, x) \/ UNCHANGED <<calleeMap, calleeAdds>>)
      BY <1>3, <2>1 DEF ReleaseForgets, DeviceOf
    <2>3. QED
      BY <1>1, <1>2, <2>2, ForgetsReports
  <1>4. ASSUME NEW d \in Devices, HandlerSteps(d) PROVE CalleeReports'
    <2>1. CASE ProcessCalleeOffline(d) \/ HandlerReleases(d)
      BY <1>2, <2>1 DEF ProcessCalleeOffline, HandlerReleases, calleeVars
    <2>2. QED
      BY <1>1, <1>4, <2>1, ForgetsReports DEF HandlerSteps, ProcessCallerDied, ProcessCalleeDied, NextDeath
  <1>5. ASSUME NEW t \in Threads, ThreadSteps(t) \/ JobSteps(t) PROVE CalleeReports'
    <2>1. CASE ~ReleaseForgets(t) /\ ~StartRecords(t)
      BY <1>2, <1>5, <2>1 DEF ThreadSteps, SaveCallerComponent, RemoveCallerComponent, JobSteps, StartFinds,
           AmsStartAbilityByCall, StartWatches, AmsReleaseAbility, calleeVars
    <2>2. QED
      BY <1>1, <1>3, <2>1, RecordsReports
  <1>6. ASSUME NEW c \in Connects, HandleLocalCallerDied(c) \/ ApplicationDies(c) PROVE CalleeReports'
    BY <1>2, <1>6 DEF HandleLocalCallerDied, ApplicationDies, calleeVars
  <1>7. ASSUME NEW d \in Devices, AbilityDies(d) \/ LinkDown(d) \/ LinkUp(d) PROVE CalleeReports'
    BY <1>2, <1>7 DEF AbilityDies, LinkDown, LinkUp, calleeVars
  <1>8. ASSUME NEW t \in Threads, NEW c \in Connects, NEW d \in Devices,
               StartRemoteAbilityByCall(t, c, d) \/ ReleaseRemoteAbility(t, c, d)
        PROVE  CalleeReports'
    BY <1>2, <1>8 DEF StartRemoteAbilityByCall, ReleaseRemoteAbility, Calls, calleeVars
  <1>9. CASE UNCHANGED vars
    BY <1>2, <1>9 DEF vars, calleeVars
  <1>10. QED
    BY <1>1, <1>4, <1>5, <1>6, <1>7, <1>8, <1>9 DEF Next

-----------------------------------------------------------------------------
(* A connect for which a step changes nothing at a device. *)
Same(c, d) ==
    /\ (d \in online' <=> d \in online) /\ epoch'[d] = epoch[d] /\ (c \in alive' => c \in alive)
    /\ (d \in callerMap'[c] <=> d \in callerMap[c])
    /\ (<<c, d>> \in lost' <=> <<c, d>> \in lost)
    /\ (<<c, d>> \in flapped' <=> <<c, d>> \in flapped)
    /\ (<<c, d>> \in dropped' <=> <<c, d>> \in dropped)
    /\ \A k \in Proxies : k[1] = c =>
          /\ calleeMap'[d][k] = calleeMap[d][k]
          /\ AbilityDied(calleeTasks'[d][k]) => AbilityDied(calleeTasks[d][k])
          /\ \A w \in Wrappers :
                /\ <<k, w>> \in bound'[d] <=> <<k, w>> \in bound[d]
                /\ handling[d] = <<k, w>> => handling'[d] = <<k, w>>

LEMMA MapTyped ==
    ASSUME TypeInv, NEW d \in Devices, NEW k \in Proxies
    PROVE  calleeMap[d][k] \in Wrappers \cup {0} /\ (calleeMap[d][k] # 0 => calleeMap[d][k] \in Wrappers)
  BY DEF TypeInv, CalleeType

(* What is said of c at d is about the current variables only: nothing of it changes with them. *)
LEMMA ReachesSame ==
    ASSUME NEW c, NEW d, Same(c, d)
    PROVE  (Reaches(c, d)' <=> Reaches(c, d)) /\ (Unknown(c, d)' <=> Unknown(c, d))
  BY DEF Same, Reaches, Unknown, Current

LEMMA SettledSame ==
    ASSUME TypeInv, NEW c, NEW d \in Devices, Same(c, d), NEW x, NEW j, NEW y, NEW i, Settled(c, d, x, j),
           x.d = d /\ Released(x, j) => y.d = d /\ Released(y, i),
           x.d = d /\ Started(x, j) => y.d = d /\ Started(y, i),
           \A k, w : Carries(x, j, d, k, w) => Carries(y, i, d, k, w),
           i.pc # "none" => j.pc # "none" /\ i.k = j.k
    PROVE  Settled(c, d, y, i)'
  <1>1. SessionKnown(c, d, y, i)'
    BY ReachesSame DEF Settled, SessionKnown, Same, Released
  <1>2. ASSUME NEW k \in Proxies, k[1] = c PROVE SettledFor(c, d, k, y, i)'
    <2>1. SettledFor(c, d, k, x, j) /\ (calleeMap[d][k] # 0 => calleeMap[d][k] \in Wrappers)
      BY <1>2, MapTyped DEF Settled
    <2>2. EntryKnown(c, d, k, y, i)'
      BY <1>2, <2>1 DEF SettledFor, EntryKnown, Same, Current, Started
    <2>3. \A w \in Wrappers : BindingKnown(d, k, w, y, i)'
      BY <1>2, <2>1 DEF SettledFor, BindingKnown, Same, Carries
    <2>4. LossKnown(c, d, k, i)'
      BY <1>2, <2>1 DEF SettledFor, LossKnown, Same, Current
    <2>5. QED
      BY <2>2, <2>3, <2>4 DEF SettledFor
  <1>3. QED
    BY <1>1, <1>2 DEF Settled

LEMMA KnowsSame ==
    ASSUME TypeInv, NEW c, NEW x, NEW j, Same(c, x.d), Knows(c, x, j),
           j.pc # "none" => j.k \in Proxies /\ j.k[1] = c,
           j.pc \in {"started", "erased"} => j.w \in Wrappers
    PROVE  Knows(c, x, j)'
  <1>1. (Current(j.k, x.d)' <=> Current(j.k, x.d)) /\ (j.pc # "none" /\ Usable(j.k, x.d)' => Usable(j.k, x.d))
    BY DEF Same, Current, Usable
  <1>2. j.pc # "none" => calleeMap'[x.d][j.k] = calleeMap[x.d][j.k]
    BY DEF Same
  <1>3. j.pc \in {"started", "erased"} => (<<j.k, j.w>> \in bound'[x.d] <=> <<j.k, j.w>> \in bound[x.d])
    BY DEF Same
  <1>4. QED
    BY <1>1, <1>2, <1>3, ReachesSame DEF Same, Knows

LEMMA NoCall == Idle.d = None /\ ~Released(Idle, NoJob) /\ ~Started(Idle, NoJob)
                /\ \A d, k, w : ~Carries(Idle, NoJob, d, k, w)
  BY DEF Idle, NoJob, Released, Started, Carries

LEMMA RestKnows == \A c : Knows(c, Idle, NoJob) /\ Knows(c, Idle, NoJob)'
  <1>1. PICK x, j : x = Idle /\ j = NoJob
    OBVIOUS
  <1>2. x.pc = "idle" /\ j.pc = "none"
    BY <1>1, NotCalls
  <1>3. \A c : Knows(c, x, j) /\ Knows(c, x, j)'
    BY <1>2 DEF Knows, Released, Started
  <1>4. QED
    BY <1>1, <1>3

(* A step that leaves the tables of c alone keeps what is settled of it at d.           *)
LEMMA Untouched ==
    ASSUME TypeInv, CallsFit, NEW c \in Connects, EndsOf(c), \A d \in Devices : Same(c, d),
           \A t \in Threads : th[t].c = c \/ th'[t].c = c => th'[t] = th[t] /\ job'[t] = job[t]
    PROVE  EndsOf(c)'
  <1>1. OneCall(c)'
    BY DEF EndsOf, OneCall
  <1>2. ASSUME NEW x, NEW j, Agrees(c, x, j),
               (j.pc # "none" \/ x.pc # "idle") => x.d \in Devices,
               j.pc # "none" => j.k \in Proxies /\ j.k[1] = c,
               j.pc \in {"started", "erased"} => j.w \in Wrappers
        PROVE  Agrees(c, x, j)'
    <2>1. \A d \in Devices : Settled(c, d, x, j)'
      BY <1>2, SettledSame DEF Agrees
    <2>2. CASE x.d \in Devices
      <3>1. Knows(c, x, j)'
        BY <1>2, <2>2, KnowsSame DEF Agrees
      <3>2. QED
        BY <2>1, <3>1 DEF Agrees
    <2>3. CASE x.d \notin Devices
      <3>1. Knows(c, x, j)'
        BY <1>2, <2>3 DEF Knows, Released, Started
      <3>2. QED
        BY <2>1, <3>1 DEF Agrees
    <2>4. QED
      BY <2>2, <2>3
  <1>3. ASSUME NEW t \in Threads, th'[t].c = c PROVE Agrees(c, th[t], job[t])'
    <2>1. PICK x, j : x = th[t] /\ j = job[t]
      OBVIOUS
    <2>2. th'[t] = x /\ job'[t] = j /\ x.c = c
      BY <1>3, <2>1
    <2>3. Agrees(c, x, j)
      BY <2>1, <2>2 DEF EndsOf
    <2>4. Good(x, j) /\ Fits(x, j)
      BY <2>1 DEF TypeInv, ThreadType, CallsFit
    <2>5. Agrees(c, x, j)'
      BY <1>2, <2>2, <2>3, <2>4 DEF Good, Fits
    <2>6. QED
      BY <2>2, <2>5
  <1>4. (\A t \in Threads : th'[t].c # c) => Agrees(c, Idle, NoJob)'
    <2>1. PICK x, j : x = Idle /\ j = NoJob
      OBVIOUS
    <2>2. (\A t \in Threads : th'[t].c # c) => Agrees(c, x, j)
      BY <2>1 DEF EndsOf
    <2>3. Agrees(c, x, j) => Agrees(c, x, j)'
      BY <1>2, <2>1, NotCalls
    <2>4. QED
      BY <2>1, <2>2, <2>3
  <1>5. QED
    BY <1>1, <1>3, <1>4 DEF EndsOf

(* The call of c goes on, or ends. *)
LEMMA CallMoves ==
    ASSUME TypeInv, NEW t \in Threads, NEW c \in Connects, NEW y, NEW i, Moves(t, y, i),
           \A s \in Threads : th[s].c = c => s = t,
           \/ y.c = c /\ Agrees(c, y, i)'
           \/ y.c # c /\ \A d \in Devices : Settled(c, d, Idle, NoJob)'
    PROVE  EndsOf(c)'
  <1>1. /\ th'[t] = y /\ job'[t] = i
        /\ \A s \in Threads : s # t => th'[s].c # c
    BY MovesTo
  <1>2. OneCall(c)'
    BY <1>1 DEF OneCall
  <1>3. CASE y.c = c /\ Agrees(c, y, i)'
    <2>1. \A s \in Threads : th'[s].c = c => Agrees(c, th[s], job[s])'
      BY <1>1, <1>3
    <2>2. QED
      BY <1>1, <1>2, <1>3, <2>1 DEF EndsOf
  <1>4. CASE y.c # c /\ \A d \in Devices : Settled(c, d, Idle, NoJob)'
    <2>1. \A s \in Threads : th'[s].c # c
      BY <1>1, <1>4
    <2>2. Agrees(c, Idle, NoJob)'
      <3>1. Knows(c, Idle, NoJob)'
        BY RestKnows
      <3>2. QED
        BY <1>4, <3>1 DEF Agrees
    <2>3. QED
      BY <1>2, <2>1, <2>2 DEF EndsOf
  <1>5. QED
    BY <1>3, <1>4

(* A step of a thread changes nothing for another connect, and on another device only    *)
(* the sessions that are dropped.                                                        *)
LEMMA StepSame ==
    ASSUME TypeInv, CallsFit, NEW t \in Threads, ThreadSteps(t) \/ JobSteps(t),
           NEW c \in Connects, NEW d \in Devices,
           c # th[t].c \/ (d # th[t].d /\ ~RemoveCallerComponent(t))
    PROVE  Same(c, d)
  <1>1. UNCHANGED <<alive, online, epoch, handling>>
    BY DEF ThreadSteps, SaveCallerComponent, RemoveCallerComponent, JobSteps, StartFinds,
           AmsStartAbilityByCall, StartRecords, StartWatches, ReleaseForgets, AmsReleaseAbility,
           linkVars, calleeVars
  <1>2. CASE ThreadSteps(t)
    <2>1. PICK a, e : a = th[t].c /\ e = th[t].d
      OBVIOUS
    <2>2. UNCHANGED <<lost, flapped, calleeMap, calleeTasks, bound>>
      BY <1>2 DEF ThreadSteps, SaveCallerComponent, RemoveCallerComponent, calleeVars
    <2>3. (d \in callerMap'[c] <=> d \in callerMap[c]) /\ (<<c, d>> \in dropped' <=> <<c, d>> \in dropped)
      <3>1. CASE SaveCallerComponent(t)
        <4>1. callerMap' = [callerMap EXCEPT ![a] = callerMap[a] \cup {e}] /\ dropped' = dropped \ {<<a, e>>}
          BY <2>1, <3>1 DEF SaveCallerComponent
        <4>2. PICK M : M = callerMap[a] \cup {e}
          OBVIOUS
        <4>3. callerMap'[c] = IF c = a THEN M ELSE callerMap[c]
          BY <4>1, <4>2 DEF TypeInv, CallerType
        <4>4. c # a \/ d # e
          BY <2>1
        <4>5. QED
          BY <4>1, <4>2, <4>3, <4>4
      <3>2. CASE RemoveCallerComponent(t)
        <4>1. /\ callerMap' = [callerMap EXCEPT ![a] = {}]
              /\ dropped' = dropped \cup {<<a, b>> : b \in callerMap[a] \ {e}}
          BY <2>1, <3>2 DEF RemoveCallerComponent, Erases
        <4>2. c # a
          BY <2>1, <3>2
        <4>3. callerMap'[c] = callerMap[c]
          BY <4>1, <4>2 DEF TypeInv, CallerType
        <4>4. QED
          BY <4>1, <4>2, <4>3
      <3>3. QED
        BY <1>2, <3>1, <3>2 DEF ThreadSteps
    <2>4. QED
      BY <1>1, <2>2, <2>3 DEF Same
  <1>3. CASE JobSteps(t)
    <2>1. UNCHANGED <<callerMap, dropped>> /\ job[t].pc # "none"
      BY <1>3 DEF JobSteps, StartFinds, AmsStartAbilityByCall, StartRecords, StartWatches, ReleaseForgets,
                  AmsReleaseAbility, callerVars, ghostVars, At
    <2>2. PICK a, e, x : a = th[t].c /\ e = th[t].d /\ x = job[t].k
      OBVIOUS
    <2>3. x[1] = a /\ (c # a \/ d # e)
      BY <1>3, <2>1, <2>2, JobHas DEF ThreadSteps, RemoveCallerComponent, TypeInv, ThreadType, Good
    <2>4. \A k \in Proxies : k[1] = c => ~(d = e /\ k = x)
      BY <2>3
    <2>5. (<<c, d>> \in lost' <=> <<c, d>> \in lost) /\ (<<c, d>> \in flapped' <=> <<c, d>> \in flapped)
      <3>1. CASE StartRecords(t)
        <4>1. lost' = lost \ {<<a, e>>} /\ (flapped' = flapped \ {<<a, e>>} \/ flapped' = flapped)
          BY <2>2, <2>3, <3>1 DEF StartRecords, DeviceOf
        <4>2. QED
          BY <2>3, <4>1
      <3>2. CASE ~StartRecords(t)
        BY <1>3, <3>2 DEF JobSteps, StartFinds, AmsStartAbilityByCall, StartWatches, ReleaseForgets,
                          AmsReleaseAbility, ghostVars
      <3>3. QED
        BY <3>1, <3>2
    <2>6. ASSUME NEW k \in Proxies, k[1] = c
          PROVE  /\ calleeMap'[d][k] = calleeMap[d][k] /\ calleeTasks'[d][k] = calleeTasks[d][k]
                 /\ \A w \in Wrappers : <<k, w>> \in bound'[d] <=> <<k, w>> \in bound[d]
      <3>1. ~(d = e /\ k = x)
        BY <2>4, <2>6
      <3>2. CASE StartFinds(t)
        BY <3>2 DEF StartFinds, calleeVars
      <3>3. CASE AmsStartAbilityByCall(t)
        <4>1. \A w \in Wrappers : <<k, w>> \in bound'[d] <=> <<k, w>> \in bound[d]
          BY <2>2, <3>1, <3>3, StartsAt
        <4>2. QED
          BY <3>3, <4>1 DEF AmsStartAbilityByCall
      <3>4. CASE StartRecords(t)
        <4>1. calleeMap'[d][k] = calleeMap[d][k]
          BY <2>2, <3>1, <3>4, RecordsAt
        <4>2. QED
          BY <3>4, <4>1 DEF StartRecords
      <3>5. CASE StartWatches(t)
        <4>1. calleeTasks'[d][k] = calleeTasks[d][k]
          BY <2>2, <3>1, <3>5, WatchesAt
        <4>2. QED
          BY <3>5, <4>1 DEF StartWatches
      <3>6. CASE ReleaseForgets(t)
        <4>1. calleeMap'[d][k] = calleeMap[d][k]
          BY <2>2, <3>1, <3>6, ForgetsAt
        <4>2. QED
          BY <3>6, <4>1 DEF ReleaseForgets
      <3>7. CASE AmsReleaseAbility(t)
        <4>1. \A w \in Wrappers : <<k, w>> \in bound'[d] <=> <<k, w>> \in bound[d]
          BY <2>2, <3>1, <3>7, ReleasesAt
        <4>2. QED
          BY <3>7, <4>1 DEF AmsReleaseAbility
      <3>8. QED
        BY <1>3, <3>2, <3>3, <3>4, <3>5, <3>6, <3>7 DEF JobSteps
    <2>7. QED
      BY <1>1, <2>1, <2>5, <2>6 DEF Same
  <1>4. QED
    BY <1>2, <1>3

(* A step of a thread that is not of c.                                                 *)
LEMMA StepElsewhere ==
    ASSUME TypeInv, CallsFit, NEW t \in Threads, ThreadSteps(t) \/ JobSteps(t),
           NEW c \in Connects, c # th[t].c, EndsOf(c)
    PROVE  EndsOf(c)'
  <1>1. \A d \in Devices : Same(c, d)
    BY StepSame
  <1>2. \A s \in Threads : s # t => th'[s] = th[s] /\ job'[s] = job[s]
    BY OneThread
  <1>3. th'[t].c # c
    <2>1. None \notin Connects
      BY CallAssumption
    <2>2. CASE ThreadSteps(t)
      <3>1. th'[t] = Idle
        BY <2>2 DEF ThreadSteps, SaveCallerComponent, RemoveCallerComponent, TypeInv, ThreadType
      <3>2. QED
        BY <2>1, <3>1, NotCalls
    <2>3. CASE th'[t] = th[t]
      BY <2>3
    <2>4. CASE Succeeds(t) \/ Fails(t)
      <3>1. PICK y, i : Moves(t, y, i) /\ (y = Idle \/ y.c = th[t].c)
        BY <2>4, EndsMoves
      <3>2. th'[t] = y
        BY <3>1, MovesTo
      <3>3. QED
        BY <2>1, <3>1, <3>2, NotCalls
    <2>5. QED
      BY <2>2, <2>3, <2>4 DEF JobSteps, StartFinds, AmsStartAbilityByCall, StartRecords, StartWatches,
                              ReleaseForgets, AmsReleaseAbility
  <1>4. QED
    BY <1>1, <1>2, <1>3, Untouched

-----------------------------------------------------------------------------
(* The steps of the one call of c. *)
SameProxy == \A k, x \in Proxies : k[1] = x[1] /\ k[2] = x[2] => k = x
LEMMA OneProxy == SameProxy
  BY DEF SameProxy, Proxies

(* The threads: a call is made, answered, saved or removed at the caller.               *)
LEMMA CallsEnds ==
    ASSUME TypeInv, CallsFit, NEW t \in Threads, NEW c \in Connects, NEW d \in Devices,
           NEW op \in {"start", "release"}, Calls(t, c, d, op), EndsOf(c), ~Busy(c)
    PROVE  EndsOf(c)'
  <1>1. \A s \in Threads : th[s].c # c
    BY DEF Busy
  <1>2. PICK x, j : x = Idle /\ j = NoJob
    OBVIOUS
  <1>3. Agrees(c, x, j)
    BY <1>1, <1>2 DEF EndsOf
  <1>4. PICK k : k = <<c, epoch[d]>>
    OBVIOUS
  <1>5. PICK y : y = [pc |-> "waiting", op |-> op, c |-> c, d |-> d]
    OBVIOUS
  <1>6. PICK i : i = [pc |-> op, k |-> k, w |-> 0]
    OBVIOUS
  <1>7. Moves(t, y, i) /\ UNCHANGED <<callerMap, calleeVars, linkVars, lost, flapped, dropped>> /\ d \in online
    BY <1>4, <1>5, <1>6 DEF Calls, MayCall, Moves, ProxyOf, callerVars
  <1>8. Knows(c, y, i)'
    BY <1>4, <1>5, <1>6, <1>7 DEF Knows, Current, Released, Started, linkVars
  <1>9. ASSUME NEW e \in Devices PROVE Settled(c, e, y, i)'
    <2>1. Settled(c, e, x, j) /\ Same(c, e)
      BY <1>3, <1>7 DEF Agrees, Same, linkVars, calleeVars
    <2>2. ~Released(x, j) /\ ~Started(x, j) /\ \A b, k2, w : ~Carries(x, j, b, k2, w)
      BY <1>2, NoCall
    <2>3. SessionKnown(c, e, y, i)'
      BY <2>1, <2>2, ReachesSame DEF Settled, SessionKnown, Same
    <2>4. ASSUME NEW x2 \in Proxies, x2[1] = c PROVE SettledFor(c, e, x2, y, i)'
      <3>1. SettledFor(c, e, x2, x, j) /\ UNCHANGED <<calleeMap, calleeTasks, bound, handling, online, epoch, alive>>
        BY <1>7, <2>1, <2>4 DEF Settled, linkVars, calleeVars
      <3>2. EntryKnown(c, e, x2, y, i)'
        BY <1>7, <2>2, <3>1 DEF SettledFor, EntryKnown, Current
      <3>3. \A w \in Wrappers : BindingKnown(e, x2, w, y, i)'
        BY <2>2, <3>1 DEF SettledFor, BindingKnown
      <3>4. LossKnown(c, e, x2, i)'
        <4>1. calleeTasks[e][x2] = << >>
          <5>1. x2 = <<x2[1], x2[2]>> /\ x2[2] \in 0..MaxDowns
            BY DEF Proxies
          <5>2. QED
            BY <2>4, <5>1 DEF Busy
        <4>2. QED
          BY <3>1, <4>1, DeathSomewhere DEF LossKnown, AbilityDied, DeathIn
      <3>5. QED
        BY <3>2, <3>3, <3>4 DEF SettledFor
    <2>5. QED
      BY <2>3, <2>4 DEF Settled
  <1>10. y.c = c /\ Agrees(c, y, i)'
    BY <1>5, <1>8, <1>9 DEF Agrees
  <1>11. QED
    BY <1>1, <1>7, <1>10, CallMoves

LEMMA CallOf ==
    ASSUME TypeInv, CallsFit, NEW t \in Threads, NEW c \in Connects, th[t].c = c, EndsOf(c),
           ThreadSteps(t) \/ JobSteps(t)
    PROVE  /\ Agrees(c, th[t], job[t]) /\ Good(th[t], job[t]) /\ Fits(th[t], job[t])
           /\ th[t].d \in Devices
           /\ \A s \in Threads : th[s].c = c => s = t
           /\ UNCHANGED <<alive, online, epoch, handling>>
           /\ \A d \in Devices : d # th[t].d /\ ~RemoveCallerComponent(t) => Same(c, d)
  <1>1. Agrees(c, th[t], job[t]) /\ \A s \in Threads : th[s].c = c => s = t
    BY DEF EndsOf, OneCall
  <1>2. Good(th[t], job[t]) /\ Fits(th[t], job[t])
    BY DEF TypeInv, ThreadType, CallsFit
  <1>3. UNCHANGED <<alive, online, epoch, handling>>
    BY DEF ThreadSteps, SaveCallerComponent, RemoveCallerComponent, JobSteps, StartFinds,
           AmsStartAbilityByCall, StartRecords, StartWatches, ReleaseForgets, AmsReleaseAbility,
           linkVars, calleeVars
  <1>4. th[t].d \in Devices
    <2>1. c # None
      BY CallAssumption
    <2>2. QED
      BY <1>2, <2>1 DEF Good, Fits
  <1>5. QED
    BY <1>1, <1>2, <1>3, <1>4, StepSame

LEMMA SaveEnds ==
    ASSUME TypeInv, CallsFit, NEW t \in Threads, NEW c \in Connects, th[t].c = c, EndsOf(c),
           SaveCallerComponent(t)
    PROVE  EndsOf(c)'
  <1>1. PICK x, j, e : x = th[t] /\ j = job[t] /\ e = x.d
    OBVIOUS
  <1>2. PICK a, b : a = Idle /\ b = NoJob
    OBVIOUS
  <1>3. /\ Agrees(c, x, j) /\ Good(x, j) /\ e \in Devices
        /\ \A s \in Threads : th[s].c = c => s = t
        /\ UNCHANGED <<alive, online, epoch, handling>>
        /\ \A d \in Devices : d # e => Same(c, d)
    <2>1. ~RemoveCallerComponent(t) /\ ThreadSteps(t)
      BY DEF SaveCallerComponent, RemoveCallerComponent, ThreadSteps
    <2>2. QED
      BY <1>1, <2>1, CallOf
  <1>4. /\ x.pc = "ok" /\ x.op = "start" /\ j.pc = "none"
        /\ Moves(t, a, j) /\ UNCHANGED <<calleeMap, calleeTasks, bound, lost, flapped>>
        /\ callerMap' = [callerMap EXCEPT ![c] = callerMap[c] \cup {e}]
        /\ dropped' = dropped \ {<<c, e>>}
    BY <1>1, <1>2, <1>3 DEF SaveCallerComponent, Moves, TypeInv, ThreadType, Good, calleeVars
  <1>5. e \in callerMap'[c]
    BY <1>3, <1>4 DEF TypeInv, CallerType
  <1>6. ~Released(x, j) /\ \A d, k, w : ~Carries(x, j, d, k, w)
    BY <1>4 DEF Released, Carries
  <1>7. b.pc = "none" /\ a.c # c
    BY <1>2, NotCalls, CallAssumption
  <1>8. ASSUME NEW d \in Devices PROVE Settled(c, d, a, b)'
    <2>1. Settled(c, d, x, j)
      BY <1>3 DEF Agrees
    <2>2. CASE d # e
      <3>1. Same(c, d)
        BY <1>3, <2>2
      <3>2. QED
        BY <1>1, <1>6, <1>7, <2>1, <2>2, <3>1, SettledSame
    <2>3. CASE d = e
      <3>1. Started(x, j)
        BY <1>4 DEF Started
      <3>2. c \in alive => Reaches(c, e)
        BY <1>1, <1>3, <3>1 DEF Agrees, Knows
      <3>3. c \in alive' => Reaches(c, e)'
        BY <1>3, <1>4, <3>2 DEF Reaches
      <3>4. SessionKnown(c, d, a, b)'
        BY <2>3, <3>3 DEF SessionKnown
      <3>5. ASSUME NEW k \in Proxies, k[1] = c PROVE SettledFor(c, d, k, a, b)'
        <4>1. SettledFor(c, d, k, x, j)
          BY <2>1, <3>5 DEF Settled
        <4>2. EntryKnown(c, d, k, a, b)'
          BY <1>3, <1>4, <1>5, <2>3, <4>1 DEF SettledFor, EntryKnown, Current
        <4>3. \A w \in Wrappers : BindingKnown(d, k, w, a, b)'
          BY <1>3, <1>4, <1>6, <4>1 DEF SettledFor, BindingKnown
        <4>4. LossKnown(c, d, k, b)'
          BY <1>3, <1>4, <1>7, <4>1 DEF SettledFor, LossKnown, Current
        <4>5. QED
          BY <4>2, <4>3, <4>4 DEF SettledFor
      <3>6. QED
        BY <3>4, <3>5 DEF Settled
    <2>4. QED
      BY <2>2, <2>3
  <1>9. \A d \in Devices : Settled(c, d, Idle, NoJob)'
    BY <1>2, <1>8
  <1>10. QED
    BY <1>3, <1>4, <1>7, <1>9, CallMoves

LEMMA RemoveEnds ==
    ASSUME TypeInv, CallsFit, NEW t \in Threads, NEW c \in Connects, th[t].c = c, EndsOf(c),
           RemoveCallerComponent(t)
    PROVE  EndsOf(c)'
  <1>1. PICK x, j, e : x = th[t] /\ j = job[t] /\ e = x.d
    OBVIOUS
  <1>2. PICK a, b : a = Idle /\ b = NoJob
    OBVIOUS
  <1>3. /\ Agrees(c, x, j) /\ Good(x, j) /\ e \in Devices
        /\ \A s \in Threads : th[s].c = c => s = t
        /\ UNCHANGED <<alive, online, epoch, handling>>
    BY <1>1, CallOf DEF ThreadSteps
  <1>4. /\ x.pc = "ok" /\ x.op = "release" /\ j.pc = "none"
        /\ Moves(t, a, j) /\ UNCHANGED <<calleeMap, calleeTasks, bound, lost, flapped>>
        /\ callerMap' = [callerMap EXCEPT ![c] = {}]
        /\ dropped' = dropped \cup {<<c, d>> : d \in callerMap[c] \ {e}}
    BY <1>1, <1>2, <1>3 DEF RemoveCallerComponent, Erases, Moves, TypeInv, ThreadType, Good, calleeVars
  <1>5. callerMap'[c] = {}
    BY <1>4 DEF TypeInv, CallerType
  <1>6. ~Started(x, j) /\ (\A d, k, w : ~Carries(x, j, d, k, w)) /\ Released(x, j)
    BY <1>4 DEF Released, Carries, Started
  <1>7. b.pc = "none" /\ a.c # c
    BY <1>2, NotCalls, CallAssumption
  <1>8. Unknown(c, e)
    BY <1>1, <1>3, <1>6 DEF Agrees, Knows
  <1>9. ASSUME NEW d \in Devices PROVE Settled(c, d, a, b)'
    <2>1. Settled(c, d, x, j)
      BY <1>3 DEF Agrees
    <2>2. SessionKnown(c, d, a, b)'
      BY <1>5 DEF SessionKnown
    <2>3. ASSUME NEW k \in Proxies, k[1] = c PROVE SettledFor(c, d, k, a, b)'
      <3>1. SettledFor(c, d, k, x, j)
        BY <2>1, <2>3 DEF Settled
      <3>2. d # e /\ d \in callerMap[c] => <<c, d>> \in dropped'
        BY <1>4
      <3>3. <<c, d>> \in dropped => <<c, d>> \in dropped'
        BY <1>4
      <3>4. d = e => ~(Current(k, d) /\ calleeMap[d][k] # 0)
        BY <1>8, <2>3 DEF Unknown
      <3>5. EntryKnown(c, d, k, a, b)'
        BY <1>3, <1>4, <1>6, <3>1, <3>2, <3>3, <3>4 DEF SettledFor, EntryKnown, Current
      <3>6. \A w \in Wrappers : BindingKnown(d, k, w, a, b)'
        BY <1>3, <1>4, <1>6, <3>1 DEF SettledFor, BindingKnown
      <3>7. LossKnown(c, d, k, b)'
        BY <1>3, <1>4, <1>7, <3>1 DEF SettledFor, LossKnown, Current
      <3>8. QED
        BY <3>5, <3>6, <3>7 DEF SettledFor
    <2>4. QED
      BY <2>2, <2>3 DEF Settled
  <1>10. \A d \in Devices : Settled(c, d, Idle, NoJob)'
    BY <1>2, <1>9
  <1>11. QED
    BY <1>3, <1>4, <1>7, <1>10, CallMoves

(* A call that ends before it has changed a table leaves none of them behind. *)
LEMMA FailEnds ==
    ASSUME TypeInv, CallsFit, NEW t \in Threads, NEW c \in Connects, th[t].c = c, EndsOf(c),
           JobSteps(t), Fails(t), UNCHANGED <<callerMap, calleeMap, calleeTasks, bound, lost, flapped, dropped>>,
           job[t].pc \in {"start", "found", "release"}
    PROVE  EndsOf(c)'
  <1>1. PICK x, j, e : x = th[t] /\ j = job[t] /\ e = x.d
    OBVIOUS
  <1>2. PICK a, b : a = Idle /\ b = NoJob
    OBVIOUS
  <1>3. /\ Agrees(c, x, j) /\ Good(x, j) /\ e \in Devices
        /\ \A s \in Threads : th[s].c = c => s = t
        /\ UNCHANGED <<alive, online, epoch, handling>>
    BY <1>1, CallOf
  <1>4. Moves(t, a, b)
    BY <1>2 DEF Fails, Moves
  <1>5. ~Started(x, j) /\ (\A d, k, w : ~Carries(x, j, d, k, w)) /\ ~Released(x, j)
    BY <1>1, <1>3 DEF Released, Carries, Started, Good
  <1>6. b.pc = "none" /\ a.c # c
    BY <1>2, NotCalls, CallAssumption
  <1>7. ASSUME NEW d \in Devices PROVE Settled(c, d, a, b)'
    <2>1. Same(c, d)
      BY <1>3 DEF Same
    <2>2. Settled(c, d, x, j)
      BY <1>3 DEF Agrees
    <2>3. QED
      BY <1>5, <1>6, <2>1, <2>2, SettledSame
  <1>8. \A d \in Devices : Settled(c, d, Idle, NoJob)'
    BY <1>2, <1>7
  <1>9. QED
    BY <1>3, <1>4, <1>6, <1>8, CallMoves

(* The handlers: each step of a handler keeps what is known of its call.                *)
LEMMA FindsEnds ==
    ASSUME TypeInv, CallsFit, NEW t \in Threads, NEW c \in Connects, th[t].c = c, EndsOf(c), StartFinds(t)
    PROVE  EndsOf(c)'
  <1>1. PICK x, j, e : x = th[t] /\ j = job[t] /\ e = x.d
    OBVIOUS
  <1>2. /\ Agrees(c, x, j) /\ Good(x, j) /\ e \in Devices
        /\ \A s \in Threads : th[s].c = c => s = t
        /\ UNCHANGED <<alive, online, epoch, handling>>
    BY <1>1, CallOf DEF JobSteps
  <1>3. /\ UNCHANGED <<callerMap, calleeMap, calleeTasks, bound, lost, flapped, dropped>>
        /\ j.pc = "start"
    BY <1>1 DEF StartFinds, callerVars, calleeVars, ghostVars, At
  <1>4. CASE Fails(t)
    BY <1>1, <1>3, <1>4, FailEnds DEF JobSteps
  <1>5. ASSUME NEW w, Goes(t, "found", w), UNCHANGED th, calleeMap[e][j.k] \in {0, w}
        PROVE  EndsOf(c)'
    <2>1. PICK i : Moves(t, x, i) /\ i.pc = "found" /\ i.k = j.k /\ i.w = w
      BY <1>1, <1>5, GoesMoves
    <2>2. ~Started(x, j) /\ (\A d, k, u : ~Carries(x, j, d, k, u)) /\ ~Released(x, j)
      BY <1>2, <1>3 DEF Released, Carries, Started, Good
    <2>3. ASSUME NEW d \in Devices PROVE Settled(c, d, x, i)'
      <3>1. Same(c, d)
        BY <1>2, <1>3 DEF Same
      <3>2. Settled(c, d, x, j)
        BY <1>2 DEF Agrees
      <3>3. QED
        BY <1>3, <2>1, <2>2, <3>1, <3>2, SettledSame
    <2>4. Knows(c, x, j)
      BY <1>2 DEF Agrees
    <2>5. ~Current(j.k, e) => <<c, e>> \in flapped /\ Unknown(c, e)
      BY <1>1, <1>3, <2>4 DEF Knows
    <2>6. x.pc # "ok"
      BY <1>2, <1>3 DEF Good
    <2>7. Knows(c, x, i)'
      BY <1>1, <1>2, <1>3, <1>5, <2>1, <2>5, <2>6 DEF Knows, Current, Unknown, Released, Started
    <2>8. x.c = c
      BY <1>1
    <2>9. QED
      BY <1>2, <2>1, <2>3, <2>7, <2>8, CallMoves DEF Agrees
  <1>6. QED
    BY <1>1, <1>4, <1>5 DEF StartFinds, DeviceOf

LEMMA StartsEnds ==
    ASSUME TypeInv, CallsFit, NEW t \in Threads, NEW c \in Connects, th[t].c = c, EndsOf(c),
           AmsStartAbilityByCall(t)
    PROVE  EndsOf(c)'
  <1>1. PICK x, j, e : x = th[t] /\ j = job[t] /\ e = x.d
    OBVIOUS
  <1>2. /\ Agrees(c, x, j) /\ Good(x, j) /\ Fits(x, j) /\ e \in Devices
        /\ \A s \in Threads : th[s].c = c => s = t
        /\ UNCHANGED <<alive, online, epoch, handling>>
        /\ \A d \in Devices : d # e => Same(c, d)
    <2>1. ~RemoveCallerComponent(t)
      BY DEF AmsStartAbilityByCall, At, RemoveCallerComponent, TypeInv, ThreadType, Good
    <2>2. QED
      BY <1>1, <2>1, CallOf DEF JobSteps
  <1>3. /\ UNCHANGED <<callerMap, calleeMap, calleeTasks, lost, flapped, dropped>>
        /\ j.pc = "found" /\ j.w \in Wrappers /\ j.k \in Proxies /\ j.k[1] = c /\ x.pc # "ok"
    BY <1>1, <1>2 DEF AmsStartAbilityByCall, callerVars, ghostVars, At, Good, Fits
  <1>4. CASE Fails(t) /\ UNCHANGED bound
    BY <1>1, <1>3, <1>4, FailEnds DEF JobSteps
  <1>5. CASE /\ Goes(t, "started", j.w) /\ UNCHANGED th
             /\ \A d \in Devices : \A b : b \in bound'[d] <=> b \in bound[d] \/ (d = e /\ b = <<j.k, j.w>>)
    <2>1. PICK i : Moves(t, x, i) /\ i.pc = "started" /\ i.k = j.k /\ i.w = j.w
      BY <1>1, <1>5, GoesMoves
    <2>2. ~Started(x, j) /\ (\A d, k, u : ~Carries(x, j, d, k, u)) /\ ~Released(x, j)
      BY <1>2, <1>3 DEF Released, Carries, Started, Good
    <2>3. ASSUME NEW d \in Devices PROVE Settled(c, d, x, i)'
      <3>1. Settled(c, d, x, j)
        BY <1>2 DEF Agrees
      <3>2. CASE d # e
        <4>1. Same(c, d)
          BY <1>2, <3>2
        <4>2. QED
          BY <1>3, <2>1, <2>2, <3>1, <4>1, SettledSame
      <3>3. CASE d = e
        <4>1. SessionKnown(c, d, x, i)'
          BY <1>2, <1>3, <2>2, <3>1 DEF Settled, SessionKnown, Reaches
        <4>2. ASSUME NEW k \in Proxies, k[1] = c PROVE SettledFor(c, d, k, x, i)'
          <5>1. SettledFor(c, d, k, x, j)
            BY <3>1, <4>2 DEF Settled
          <5>2. EntryKnown(c, d, k, x, i)'
            BY <1>2, <1>3, <1>5, <2>2, <5>1 DEF SettledFor, EntryKnown, Current
          <5>3. \A w \in Wrappers : BindingKnown(d, k, w, x, i)'
            BY <1>1, <1>2, <1>3, <1>5, <2>1, <2>2, <5>1 DEF SettledFor, BindingKnown, Carries
          <5>4. LossKnown(c, d, k, i)'
            <6>1. CASE AbilityDied(calleeTasks[d][k])
              <7>1. j.k # k
                BY <1>3, <5>1, <6>1 DEF SettledFor, LossKnown
              <7>2. QED
                BY <1>2, <1>3, <1>5, <2>1, <5>1, <6>1, <7>1 DEF SettledFor, LossKnown, Current
            <6>2. CASE ~AbilityDied(calleeTasks[d][k])
              BY <1>3, <6>2 DEF LossKnown
            <6>3. QED
              BY <6>1, <6>2
          <5>5. QED
            BY <5>2, <5>3, <5>4 DEF SettledFor
        <4>3. QED
          BY <4>1, <4>2 DEF Settled
      <3>4. QED
        BY <3>2, <3>3
    <2>4. Knows(c, x, j)
      BY <1>2 DEF Agrees
    <2>5. /\ ~Current(j.k, e) => <<c, e>> \in flapped /\ Unknown(c, e)
          /\ calleeMap[e][j.k] \in {0, j.w}
      BY <1>1, <1>3, <2>4 DEF Knows
    <2>6. <<j.k, j.w>> \in bound'[e]
      BY <1>2, <1>5
    <2>7. Knows(c, x, i)'
      BY <1>1, <1>2, <1>3, <2>1, <2>5, <2>6 DEF Knows, Current, Unknown, Released, Started
    <2>8. x.c = c
      BY <1>1
    <2>9. QED
      BY <1>2, <2>1, <2>3, <2>7, <2>8, CallMoves DEF Agrees
  <1>6. QED
    BY <1>1, <1>4, <1>5, StartsAt

LEMMA RecordsEnds ==
    ASSUME TypeInv, CallsFit, NEW t \in Threads, NEW c \in Connects, th[t].c = c, EndsOf(c), StartRecords(t)
    PROVE  EndsOf(c)'
  <1>1. PICK x, j, e : x = th[t] /\ j = job[t] /\ e = x.d
    OBVIOUS
  <1>2. /\ Agrees(c, x, j) /\ Good(x, j) /\ Fits(x, j) /\ e \in Devices
        /\ \A s \in Threads : th[s].c = c => s = t
        /\ UNCHANGED <<alive, online, epoch, handling>>
        /\ \A d \in Devices : d # e => Same(c, d)
    <2>1. ~RemoveCallerComponent(t)
      BY DEF StartRecords, At, RemoveCallerComponent, TypeInv, ThreadType, Good
    <2>2. QED
      BY <1>1, <2>1, CallOf DEF JobSteps
  <1>3. /\ UNCHANGED <<callerMap, calleeTasks, bound, dropped>> /\ Goes(t, "recorded", j.w) /\ UNCHANGED th
        /\ j.pc = "started" /\ j.w \in Wrappers /\ j.k \in Proxies /\ j.k[1] = c /\ x.pc # "ok"
        /\ lost' = lost \ {<<c, e>>}
        /\ flapped' = IF Usable(j.k, e) THEN flapped \ {<<c, e>>} ELSE flapped
    BY <1>1, <1>2 DEF StartRecords, callerVars, At, Good, Fits, DeviceOf
  <1>4. \A d \in Devices, k \in Proxies :
           calleeMap'[d][k] = IF d = e /\ k = j.k /\ calleeMap[d][k] = 0 THEN j.w ELSE calleeMap[d][k]
    BY <1>1, RecordsAt
  <1>5. PICK i : Moves(t, x, i) /\ i.pc = "recorded" /\ i.k = j.k /\ i.w = j.w
    BY <1>1, <1>3, GoesMoves
  <1>6. ~Started(x, j) /\ ~Released(x, j) /\ x.c = c /\ Knows(c, x, j)
    BY <1>1, <1>2, <1>3 DEF Released, Started, Good, Agrees
  <1>7. /\ ~Current(j.k, e) => <<c, e>> \in flapped /\ Unknown(c, e)
        /\ calleeMap[e][j.k] \in {0, j.w}
        /\ Usable(j.k, e) => <<j.k, j.w>> \in bound[e]
    BY <1>1, <1>3, <1>6 DEF Knows
  <1>8. calleeMap'[e][j.k] = j.w /\ j.w # 0
    BY <1>2, <1>3, <1>4, <1>7 DEF Wrappers
  <1>9. ASSUME NEW k \in Proxies, k[1] = c, Current(k, e), k # j.k
        PROVE  calleeMap[e][k] = 0 /\ <<c, e>> \in flapped /\ ~Usable(j.k, e)
    <2>1. ~Current(j.k, e)
      BY <1>3, <1>9, OneProxy DEF SameProxy, Current
    <2>2. QED
      BY <1>7, <1>9, <2>1 DEF Unknown, Usable, Current
  <1>10. c \in alive => Reaches(c, e)'
    <2>1. CASE ~Current(j.k, e)
      BY <1>3, <1>7, <2>1 DEF Reaches, Usable, Current
    <2>2. CASE Current(j.k, e)
      <3>1. \A k \in Proxies : k[1] = c /\ k[2] = epoch[e] => k = j.k
        BY <1>3, <2>2, OneProxy DEF SameProxy, Current
      <3>2. QED
        BY <1>2, <1>8, <2>2, <3>1 DEF Reaches, Current
    <2>3. QED
      BY <2>1, <2>2
  <1>11. Knows(c, x, i)'
    <2>1. ~Current(j.k, e)' => <<c, e>> \in flapped' /\ Unknown(c, e)'
      <3>1. CASE ~Current(j.k, e)
        <4>1. flapped' = flapped
          BY <1>3, <3>1 DEF Usable, Current
        <4>2. \A k \in Proxies : k[1] = c /\ Current(k, e) => k # j.k
          BY <3>1
        <4>3. Unknown(c, e)'
          BY <1>2, <1>4, <1>7, <3>1, <4>2 DEF Unknown, Current
        <4>4. QED
          BY <1>7, <3>1, <4>1, <4>3
      <3>2. QED
        BY <1>2, <3>1 DEF Current
    <2>2. QED
      BY <1>1, <1>2, <1>3, <1>5, <1>10, <2>1 DEF Knows, Released, Started
  <1>12. ASSUME NEW d \in Devices PROVE Settled(c, d, x, i)'
    <2>1. Settled(c, d, x, j)
      BY <1>2 DEF Agrees
    <2>2. CASE d # e
      <3>1. Same(c, d)
        BY <1>2, <2>2
      <3>2. \A k, w : ~Carries(x, j, d, k, w)
        BY <1>1, <2>2 DEF Carries
      <3>3. QED
        BY <1>3, <1>5, <1>6, <2>1, <3>1, <3>2, SettledSame
    <2>3. CASE d = e
      <3>1. SessionKnown(c, d, x, i)'
        BY <1>2, <1>10, <2>3 DEF SessionKnown
      <3>2. ASSUME NEW k \in Proxies, k[1] = c PROVE SettledFor(c, d, k, x, i)'
        <4>1. SettledFor(c, d, k, x, j)
          BY <2>1, <3>2 DEF Settled
        <4>2. EntryKnown(c, d, k, x, i)'
          <5>1. Started(x, i)
            BY <1>5 DEF Started
          <5>2. CASE k = j.k
            <6>1. c \in alive /\ Current(k, d) => <<k, calleeMap'[d][k]>> \in bound'[d]
              BY <1>3, <1>7, <1>8, <2>3, <5>2 DEF Usable, Current
            <6>2. QED
              BY <1>1, <1>2, <2>3, <5>1, <6>1 DEF EntryKnown, Current
          <5>3. CASE k # j.k
            <6>1. Current(k, d) => calleeMap'[d][k] = 0
              BY <1>4, <1>9, <2>3, <3>2, <5>3
            <6>2. QED
              BY <1>2, <6>1 DEF EntryKnown, Current
          <5>4. QED
            BY <5>2, <5>3
        <4>3. ASSUME NEW w \in Wrappers PROVE BindingKnown(d, k, w, x, i)'
          <5>1. BindingKnown(d, k, w, x, j)
            BY <4>1, <4>3 DEF SettledFor
          <5>2. CASE k = j.k
            <6>1. calleeMap[d][k] = w => w = j.w
              BY <1>7, <2>3, <4>3, <5>2 DEF Wrappers
            <6>2. QED
              BY <1>2, <1>3, <1>8, <2>3, <5>1, <5>2, <6>1 DEF BindingKnown, Carries
          <5>3. CASE k # j.k
            <6>1. calleeMap'[d][k] = calleeMap[d][k]
              BY <1>4, <5>3
            <6>2. QED
              BY <1>2, <1>3, <5>1, <5>3, <6>1 DEF BindingKnown, Carries
          <5>4. QED
            BY <5>2, <5>3
        <4>4. LossKnown(c, d, k, i)'
          <5>1. CASE AbilityDied(calleeTasks[d][k])
            <6>1. j.k # k
              BY <1>3, <4>1, <5>1 DEF SettledFor, LossKnown
            <6>2. Current(k, d) => <<c, d>> \in flapped'
              BY <1>3, <1>9, <2>3, <3>2, <6>1
            <6>3. QED
              BY <1>2, <1>3, <1>5, <4>1, <5>1, <6>1, <6>2 DEF SettledFor, LossKnown, Current
          <5>2. CASE ~AbilityDied(calleeTasks[d][k])
            BY <1>3, <5>2 DEF LossKnown
          <5>3. QED
            BY <5>1, <5>2
        <4>5. QED
          BY <4>2, <4>3, <4>4 DEF SettledFor
      <3>3. QED
        BY <3>1, <3>2 DEF Settled
    <2>4. QED
      BY <2>2, <2>3
  <1>13. QED
    BY <1>2, <1>5, <1>6, <1>11, <1>12, CallMoves DEF Agrees

LEMMA WatchesEnds ==
    ASSUME TypeInv, CallsFit, NEW t \in Threads, NEW c \in Connects, th[t].c = c, EndsOf(c), StartWatches(t)
    PROVE  EndsOf(c)'
  <1>1. PICK x, j, e : x = th[t] /\ j = job[t] /\ e = x.d
    OBVIOUS
  <1>2. /\ Agrees(c, x, j) /\ Good(x, j) /\ Fits(x, j) /\ e \in Devices
        /\ \A s \in Threads : th[s].c = c => s = t
        /\ UNCHANGED <<alive, online, epoch, handling>>
    BY <1>1, CallOf DEF JobSteps
  <1>3. /\ UNCHANGED <<callerMap, calleeMap, bound, lost, flapped, dropped>> /\ Succeeds(t)
        /\ j.pc = "recorded" /\ x.op = "start" /\ x.pc \in {"waiting", "gaveUp"}
    BY <1>1, <1>2 DEF StartWatches, callerVars, ghostVars, At, Good, Fits
  <1>4. \A d \in Devices : Same(c, d)
    <2>1. ASSUME NEW d \in Devices, NEW k \in Proxies, AbilityDied(calleeTasks'[d][k])
          PROVE  AbilityDied(calleeTasks[d][k])
      <3>1. \/ calleeTasks'[d][k] = calleeTasks[d][k]
            \/ calleeTasks'[d][k] = Append(calleeTasks[d][k], "callerDied")
        BY WatchesAt
      <3>2. calleeTasks[d][k] \in Seq(Deaths) /\ "callerDied" \in Deaths
        BY DEF TypeInv, CalleeType, Deaths
      <3>3. DeathIn(Append(calleeTasks[d][k], "callerDied"), "calleeDied") =>
               DeathIn(calleeTasks[d][k], "calleeDied") \/ "callerDied" = "calleeDied"
        BY <3>2, DeathAppended
      <3>4. QED
        BY <2>1, <3>1, <3>3 DEF AbilityDied, DeathIn
    <2>2. QED
      BY <1>2, <1>3, <2>1 DEF Same
  <1>5. PICK y, i : /\ Moves(t, y, i) /\ i = NoJob
                    /\ \/ y = Idle /\ (Fails(t) \/ th[t].pc # "waiting")
                       \/ /\ Succeeds(t) /\ th[t].pc = "waiting"
                          /\ y.pc = "ok" /\ y.op = th[t].op /\ y.c = th[t].c /\ y.d = th[t].d
    BY <1>3, EndsMoves
  <1>6. i.pc = "none" /\ Started(x, j) /\ ~Released(x, j) /\ \A d, k, w : ~Carries(x, j, d, k, w)
    BY <1>3, <1>5, NotCalls DEF Started, Released, Carries
  <1>7. CASE x.pc = "waiting"
    <2>1. y.pc = "ok" /\ y.op = "start" /\ y.c = c /\ y.d = e
      <3>1. ~Fails(t)
        <4>1. PICK f, z : f = Idle /\ z = [th[t] EXCEPT !.pc = "ok"]
          OBVIOUS
        <4>2. f.pc = "idle" /\ z.pc = "ok"
          BY <1>1, <1>2, <4>1, NotCalls, WithPlace DEF Good, CallPlaces
        <4>3. th' = [th EXCEPT ![t] = z]
          BY <1>1, <1>3, <1>7, <4>1 DEF Succeeds
        <4>4. Fails(t) => th' = [th EXCEPT ![t] = f]
          BY <4>1 DEF Fails
        <4>5. QED
          BY <4>2, <4>3, <4>4 DEF TypeInv, ThreadType
      <3>2. QED
        BY <1>1, <1>3, <1>5, <1>7, <3>1
    <2>2. Started(y, i) /\ ~Released(y, i)
      BY <1>6, <2>1 DEF Started, Released
    <2>3. ASSUME NEW d \in Devices PROVE Settled(c, d, y, i)'
      <3>1. Settled(c, d, x, j) /\ Same(c, d)
        BY <1>2, <1>4 DEF Agrees
      <3>2. QED
        BY <1>1, <1>6, <2>1, <2>2, <3>1, SettledSame
    <2>4. c \in alive => Reaches(c, e)
      BY <1>1, <1>2, <1>6 DEF Agrees, Knows
    <2>5. c \in alive' => Reaches(c, e)'
      BY <1>2, <1>4, <2>4, ReachesSame
    <2>6. Knows(c, y, i)'
      BY <1>6, <2>1, <2>2, <2>5 DEF Knows
    <2>7. QED
      BY <1>2, <1>5, <2>1, <2>3, <2>6, CallMoves DEF Agrees
  <1>8. CASE x.pc = "gaveUp"
    <2>1. y = Idle /\ y.c # c
      BY <1>1, <1>5, <1>8, NotCalls, CallAssumption
    <2>2. <<c, e>> \in flapped /\ Unknown(c, e)
      BY <1>1, <1>2, <1>3, <1>8 DEF Agrees, Knows, Fits
    <2>3. ASSUME NEW d \in Devices PROVE Settled(c, d, y, i)'
      <3>1. Settled(c, d, x, j) /\ Same(c, d)
        BY <1>2, <1>4 DEF Agrees
      <3>2. CASE d # e
        BY <1>1, <1>6, <3>1, <3>2, SettledSame
      <3>3. CASE d = e
        <4>1. SessionKnown(c, d, y, i)'
          BY <1>3, <2>2, <3>3 DEF SessionKnown, Reaches
        <4>2. ASSUME NEW k \in Proxies, k[1] = c PROVE SettledFor(c, d, k, y, i)'
          <5>1. SettledFor(c, d, k, x, j)
            BY <3>1, <4>2 DEF Settled
          <5>2. EntryKnown(c, d, k, y, i)'
            BY <1>2, <1>3, <2>2, <3>3, <4>2 DEF EntryKnown, Unknown, Current
          <5>3. \A w \in Wrappers : BindingKnown(d, k, w, y, i)'
            BY <1>2, <1>3, <1>6, <5>1 DEF SettledFor, BindingKnown
          <5>4. LossKnown(c, d, k, i)'
            BY <1>6, <3>1, <4>2, <5>1 DEF SettledFor, LossKnown, Same, Current
          <5>5. QED
            BY <5>2, <5>3, <5>4 DEF SettledFor
        <4>3. QED
          BY <4>1, <4>2 DEF Settled
      <3>4. QED
        BY <3>2, <3>3
    <2>4. \A d \in Devices : Settled(c, d, Idle, NoJob)'
      BY <1>5, <2>1, <2>3
    <2>5. QED
      BY <1>2, <1>5, <2>1, <2>4, CallMoves
  <1>9. QED
    BY <1>3, <1>7, <1>8

LEMMA ForgetsEnds ==
    ASSUME TypeInv, CallsFit, NEW t \in Threads, NEW c \in Connects, th[t].c = c, EndsOf(c), ReleaseForgets(t)
    PROVE  EndsOf(c)'
  <1>1. PICK x, j, e : x = th[t] /\ j = job[t] /\ e = x.d
    OBVIOUS
  <1>2. /\ Agrees(c, x, j) /\ Good(x, j) /\ Fits(x, j) /\ e \in Devices
        /\ \A s \in Threads : th[s].c = c => s = t
        /\ UNCHANGED <<alive, online, epoch, handling>>
        /\ \A d \in Devices : d # e => Same(c, d)
    <2>1. ~RemoveCallerComponent(t)
      BY DEF ReleaseForgets, At, RemoveCallerComponent, TypeInv, ThreadType, Good
    <2>2. QED
      BY <1>1, <2>1, CallOf DEF JobSteps
  <1>3. /\ UNCHANGED <<callerMap, calleeTasks, bound, lost, flapped, dropped>>
        /\ j.pc = "release" /\ j.k \in Proxies /\ j.k[1] = c /\ x.pc # "ok" /\ x.c = c
    BY <1>1, <1>2 DEF ReleaseForgets, callerVars, ghostVars, At, Good, Fits
  <1>4. CASE Fails(t) /\ UNCHANGED calleeMap
    BY <1>1, <1>3, <1>4, FailEnds DEF JobSteps
  <1>5. CASE /\ Goes(t, "erased", calleeMap[e][j.k]) /\ UNCHANGED th /\ calleeMap[e][j.k] # 0
             /\ \A d \in Devices, k \in Proxies :
                   calleeMap'[d][k] = IF d = e /\ k = j.k THEN 0 ELSE calleeMap[d][k]
    <2>1. PICK w \in Wrappers : w = calleeMap[e][j.k]
      BY <1>2, <1>3, <1>5, MapTyped
    <2>2. PICK i : Moves(t, x, i) /\ i.pc = "erased" /\ i.k = j.k /\ i.w = w
      BY <1>1, <1>5, <2>1, GoesMoves
    <2>3. ~Started(x, j) /\ ~Started(x, i) /\ ~Released(x, j) /\ Released(x, i) /\ Knows(c, x, j)
      BY <1>2, <1>3, <2>2 DEF Released, Started, Agrees
    <2>4. ~Current(j.k, e) => <<c, e>> \in flapped /\ Unknown(c, e)
      BY <1>1, <1>3, <2>3 DEF Knows
    <2>5. calleeMap'[e][j.k] = 0
      BY <1>2, <1>3, <1>5
    <2>6. Unknown(c, e)'
      <3>1. CASE Current(j.k, e)
        <4>1. \A k \in Proxies : k[1] = c /\ Current(k, e) => k = j.k
          BY <1>3, <3>1, OneProxy DEF SameProxy, Current
        <4>2. QED
          BY <1>2, <2>5, <4>1 DEF Unknown, Current
      <3>2. CASE ~Current(j.k, e)
        BY <1>2, <1>5, <2>4, <3>2 DEF Unknown, Current
      <3>3. QED
        BY <3>1, <3>2
    <2>7. c \in alive => <<j.k, w>> \in bound[e] \/ <<c, e>> \in lost \/ <<c, e>> \in flapped
      <3>1. EntryKnown(c, e, j.k, x, j)
        BY <1>2, <1>3 DEF Agrees, Settled, SettledFor
      <3>2. QED
        BY <1>5, <2>1, <2>4, <3>1 DEF EntryKnown
    <2>8. Knows(c, x, i)'
      BY <1>1, <1>2, <1>3, <2>2, <2>3, <2>4, <2>5, <2>6, <2>7 DEF Knows, Current
    <2>9. ASSUME NEW d \in Devices PROVE Settled(c, d, x, i)'
      <3>1. Settled(c, d, x, j)
        BY <1>2 DEF Agrees
      <3>2. CASE d # e
        <4>1. Same(c, d)
          BY <1>2, <3>2
        <4>2. \A k, u : ~Carries(x, j, d, k, u)
          BY <1>1, <3>2 DEF Carries
        <4>3. QED
          BY <1>3, <2>2, <2>3, <3>1, <4>1, <4>2, SettledSame
      <3>3. CASE d = e
        <4>1. SessionKnown(c, d, x, i)'
          BY <1>1, <2>3, <3>3 DEF SessionKnown, Released
        <4>2. ASSUME NEW k \in Proxies, k[1] = c PROVE SettledFor(c, d, k, x, i)'
          <5>1. SettledFor(c, d, k, x, j)
            BY <3>1, <4>2 DEF Settled
          <5>2. EntryKnown(c, d, k, x, i)'
            BY <1>2, <1>3, <1>5, <2>3, <5>1 DEF SettledFor, EntryKnown, Current, Started
          <5>3. ASSUME NEW u \in Wrappers PROVE BindingKnown(d, k, u, x, i)'
            <6>1. BindingKnown(d, k, u, x, j) /\ j.pc \notin {"started", "erased"}
              BY <1>3, <5>1, <5>3 DEF SettledFor
            <6>2. CASE k = j.k
              BY <1>1, <1>2, <1>3, <2>1, <2>2, <3>3, <6>1, <6>2 DEF BindingKnown, Carries
            <6>3. CASE k # j.k
              BY <1>2, <1>3, <1>5, <6>1, <6>3 DEF BindingKnown, Carries
            <6>4. QED
              BY <6>2, <6>3
          <5>4. LossKnown(c, d, k, i)'
            BY <1>2, <1>3, <2>2, <5>1 DEF SettledFor, LossKnown, Current
          <5>5. QED
            BY <5>2, <5>3, <5>4 DEF SettledFor
        <4>3. QED
          BY <4>1, <4>2 DEF Settled
      <3>4. QED
        BY <3>2, <3>3
    <2>10. QED
      BY <1>2, <1>3, <2>2, <2>8, <2>9, CallMoves DEF Agrees
  <1>6. QED
    BY <1>1, <1>4, <1>5, ForgetsAt

LEMMA ReleasesEnds ==
    ASSUME TypeInv, CallsFit, NEW t \in Threads, NEW c \in Connects, th[t].c = c, EndsOf(c), AmsReleaseAbility(t)
    PROVE  EndsOf(c)'
  <1>1. PICK x, j, e : x = th[t] /\ j = job[t] /\ e = x.d
    OBVIOUS
  <1>2. /\ Agrees(c, x, j) /\ Good(x, j) /\ Fits(x, j) /\ e \in Devices
        /\ \A s \in Threads : th[s].c = c => s = t
        /\ UNCHANGED <<alive, online, epoch, handling>>
        /\ \A d \in Devices : d # e => Same(c, d)
    <2>1. ~RemoveCallerComponent(t)
      BY DEF AmsReleaseAbility, At, RemoveCallerComponent, TypeInv, ThreadType, Good
    <2>2. QED
      BY <1>1, <2>1, CallOf DEF JobSteps
  <1>3. /\ UNCHANGED <<callerMap, calleeMap, calleeTasks, lost, flapped, dropped>>
        /\ j.pc = "erased" /\ j.k \in Proxies /\ j.k[1] = c /\ x.op = "release" /\ x.c = c
        /\ x.pc \in {"waiting", "gaveUp"}
    BY <1>1, <1>2 DEF AmsReleaseAbility, callerVars, ghostVars, At, Good, Fits
  <1>4. \A d \in Devices : \A b : b \in bound'[d] <=> b \in bound[d] /\ ~(d = e /\ b = <<j.k, j.w>>)
    BY <1>1, ReleasesAt
  <1>5. IF <<j.k, j.w>> \in bound[e] THEN Succeeds(t) ELSE Fails(t)
    BY <1>1 DEF AmsReleaseAbility, DeviceOf
  <1>6. /\ ~Started(x, j) /\ Released(x, j)
        /\ ~Current(j.k, e) => <<c, e>> \in flapped
        /\ calleeMap[e][j.k] = 0 /\ Unknown(c, e)
        /\ c \in alive => <<j.k, j.w>> \in bound[e] \/ <<c, e>> \in lost \/ <<c, e>> \in flapped
    BY <1>1, <1>2, <1>3 DEF Agrees, Knows, Started, Released
  <1>7. ASSUME NEW y, NEW i, i.pc = "none", ~Started(y, i),
               c \in alive => Reaches(c, e) \/ (y.d = e /\ Released(y, i)),
               NEW d \in Devices
        PROVE  Settled(c, d, y, i)'
    <2>1. Settled(c, d, x, j)
      BY <1>2 DEF Agrees
    <2>2. CASE d # e
      <3>1. Same(c, d)
        BY <1>2, <2>2
      <3>2. \A k, u : ~Carries(x, j, d, k, u)
        BY <1>1, <2>2 DEF Carries
      <3>3. QED
        BY <1>1, <1>6, <1>7, <2>1, <2>2, <3>1, <3>2, SettledSame
    <2>3. CASE d = e
      <3>1. SessionKnown(c, d, y, i)'
        BY <1>2, <1>3, <1>7, <2>3 DEF SessionKnown, Reaches, Released
      <3>2. ASSUME NEW k \in Proxies, k[1] = c PROVE SettledFor(c, d, k, y, i)'
        <4>1. SettledFor(c, d, k, x, j)
          BY <2>1, <3>2 DEF Settled
        <4>2. EntryKnown(c, d, k, y, i)'
          <5>1. c \in alive /\ Current(k, d) => calleeMap[d][k] = 0
            BY <1>6, <2>3, <3>2 DEF Unknown
          <5>2. QED
            BY <1>2, <1>3, <5>1 DEF EntryKnown, Current
        <4>3. \A w \in Wrappers : BindingKnown(d, k, w, y, i)'
          BY <1>1, <1>2, <1>3, <1>4, <2>3, <4>1 DEF SettledFor, BindingKnown, Carries
        <4>4. LossKnown(c, d, k, i)'
          BY <1>2, <1>3, <1>4, <1>7, <4>1 DEF SettledFor, LossKnown, Current
        <4>5. QED
          BY <4>2, <4>3, <4>4 DEF SettledFor
      <3>3. QED
        BY <3>1, <3>2 DEF Settled
    <2>4. QED
      BY <2>2, <2>3
  <1>8. PICK y, i : /\ Moves(t, y, i) /\ i = NoJob
                    /\ \/ y = Idle /\ (Fails(t) \/ th[t].pc # "waiting")
                       \/ /\ Succeeds(t) /\ th[t].pc = "waiting"
                          /\ y.pc = "ok" /\ y.op = th[t].op /\ y.c = th[t].c /\ y.d = th[t].d
    BY <1>5, EndsMoves
  <1>9. i.pc = "none"
    BY <1>8, NotCalls
  <1>10. CASE y = Idle
    <2>1. y.c # c /\ ~Started(y, i)
      BY <1>8, <1>10, NotCalls, NoCall, CallAssumption
    <2>2. c \in alive => Reaches(c, e)
      <3>1. CASE x.pc = "gaveUp"
        BY <1>1, <1>2, <1>6, <3>1 DEF Fits, Reaches
      <3>2. CASE x.pc = "waiting"
        <4>1. ~(<<j.k, j.w>> \in bound[e])
          <5>1. Fails(t)
            BY <1>1, <1>8, <1>10, <3>2, NotCalls
          <5>2. ~Succeeds(t)
            <6>1. PICK f, z : f = Idle /\ z = [th[t] EXCEPT !.pc = "ok"]
              OBVIOUS
            <6>2. f.pc = "idle" /\ z.pc = "ok"
              BY <1>1, <1>2, <6>1, NotCalls, WithPlace DEF Good, CallPlaces
            <6>3. Succeeds(t) => th' = [th EXCEPT ![t] = z]
              BY <1>1, <3>2, <6>1 DEF Succeeds
            <6>4. th' = [th EXCEPT ![t] = f]
              BY <5>1, <6>1 DEF Fails
            <6>5. QED
              BY <6>2, <6>3, <6>4 DEF TypeInv, ThreadType
          <5>3. QED
            BY <1>5, <5>2
        <4>2. CASE Current(j.k, e)
          BY <1>6, <4>1, <4>2 DEF Reaches, Current
        <4>3. CASE ~Current(j.k, e)
          BY <1>6, <4>3 DEF Reaches
        <4>4. QED
          BY <4>2, <4>3
      <3>3. QED
        BY <1>3, <3>1, <3>2
    <2>3. \A d \in Devices : Settled(c, d, y, i)'
      BY <1>7, <1>9, <2>1, <2>2
    <2>4. \A d \in Devices : Settled(c, d, Idle, NoJob)'
      BY <1>8, <1>10, <2>3
    <2>5. QED
      BY <1>2, <1>8, <2>1, <2>4, CallMoves
  <1>11. CASE y # Idle
    <2>1. y.pc = "ok" /\ y.op = "release" /\ y.c = c /\ y.d = e
      BY <1>1, <1>3, <1>8, <1>11
    <2>2. ~Started(y, i) /\ Released(y, i)
      BY <1>9, <2>1 DEF Started, Released
    <2>3. \A d \in Devices : Settled(c, d, y, i)'
      BY <1>7, <1>9, <2>1, <2>2
    <2>4. Unknown(c, e)'
      BY <1>2, <1>3, <1>6 DEF Unknown, Current
    <2>5. Knows(c, y, i)'
      BY <1>9, <2>1, <2>2, <2>4 DEF Knows
    <2>6. QED
      BY <1>2, <1>8, <2>1, <2>3, <2>5, CallMoves DEF Agrees
  <1>12. QED
    BY <1>10, <1>11

-----------------------------------------------------------------------------
(* The steps of the handlers and of the world, with the call x of c that the job j       *)
(* serves, if there is one.                                                              *)
Served(c, x, j) ==
    \/ \E t \in Threads : th[t].c = c /\ x = th[t] /\ j = job[t]
    \/ x = Idle /\ j = NoJob

(* The call a handler serves is the only one of its connect.                            *)
LEMMA ServedCall ==
    ASSUME TypeInv, CallsFit, NEW c \in Connects, NEW x, NEW j, Served(c, x, j)
    PROVE  /\ j.pc # "none" => j.k \in Proxies /\ j.k[1] = c /\ j.k[2] <= epoch[x.d] /\ x.d \in Devices
           /\ j.pc \in {"found", "started", "recorded", "erased"} => j.w \in Wrappers
           /\ Released(x, j) \/ Started(x, j) => x.d \in Devices
           /\ x.d \in Devices => Busy(c)
           /\ j.pc # "none" => \E t \in Threads : job[t].k = j.k
  <1>1. ASSUME NEW t \in Threads, th[t].c = c, x = th[t], j = job[t]
        PROVE  /\ j.pc # "none" => j.k \in Proxies /\ j.k[1] = c /\ j.k[2] <= epoch[x.d] /\ x.d \in Devices
               /\ j.pc \in {"found", "started", "recorded", "erased"} => j.w \in Wrappers
               /\ Released(x, j) \/ Started(x, j) => x.d \in Devices
               /\ Busy(c) /\ job[t].k = j.k
    <2>1. Good(x, j) /\ Fits(x, j)
      BY <1>1 DEF TypeInv, ThreadType, CallsFit
    <2>2. QED
      BY <1>1, <2>1 DEF Good, Fits, Released, Started, Busy
  <1>2. CASE x = Idle /\ j = NoJob
    BY <1>2, NotCalls, NoCall, CallAssumption
  <1>3. QED
    BY <1>1, <1>2 DEF Served

LEMMA CallStays ==
    ASSUME UNCHANGED <<th, job>>, NEW c, EndsOf(c),
           \A x, j : Served(c, x, j) /\ Agrees(c, x, j) => Agrees(c, x, j)'
    PROVE  EndsOf(c)'
  <1>1. OneCall(c)'
    BY DEF EndsOf, OneCall
  <1>2. ASSUME NEW t \in Threads, th[t].c = c PROVE Agrees(c, th[t], job[t])'
    <2>1. PICK x, j : x = th[t] /\ j = job[t]
      OBVIOUS
    <2>2. Served(c, x, j) /\ Agrees(c, x, j)
      BY <1>2, <2>1 DEF Served, EndsOf
    <2>3. Agrees(c, x, j)'
      BY <2>2
    <2>4. x = th'[t] /\ j = job'[t]
      BY <2>1
    <2>5. QED
      BY <2>3, <2>4
  <1>3. ASSUME \A t \in Threads : th[t].c # c PROVE Agrees(c, Idle, NoJob)'
    <2>1. PICK x, j : x = Idle /\ j = NoJob
      OBVIOUS
    <2>2. Agrees(c, x, j)'
      BY <1>3, <2>1 DEF Served, EndsOf
    <2>3. QED
      BY <2>1, <2>2
  <1>4. QED
    BY <1>1, <1>2, <1>3 DEF EndsOf

(* The world: deaths, clean-ups and links.  No call moves.                              *)
LEMMA NothingMoves ==
    ASSUME TypeInv, CallsFit, NEW c \in Connects, EndsOf(c), UNCHANGED <<th, job>>,
           \A d \in Devices : Same(c, d)
    PROVE  EndsOf(c)'
  BY Untouched

(* The death of an application queues no death of an ability. *)
LEMMA DeathsSame ==
    ASSUME TypeInv, NEW S, ProxiesDie(S), NEW d \in Devices, NEW k \in Proxies,
           AbilityDied(calleeTasks'[d][k])
    PROVE  AbilityDied(calleeTasks[d][k])
  <1>1. \/ calleeTasks'[d][k] = calleeTasks[d][k]
        \/ calleeTasks'[d][k] = Append(calleeTasks[d][k], "callerDied")
    BY ProxiesDieAt
  <1>2. calleeTasks[d][k] \in Seq(Deaths) /\ "callerDied" \in Deaths
    BY DEF TypeInv, CalleeType, Deaths
  <1>3. DeathIn(Append(calleeTasks[d][k], "callerDied"), "calleeDied") =>
           DeathIn(calleeTasks[d][k], "calleeDied") \/ "callerDied" = "calleeDied"
    BY <1>2, DeathAppended
  <1>4. QED
    BY <1>1, <1>3 DEF AbilityDied, DeathIn

LEMMA ApplicationDiesEnds ==
    ASSUME TypeInv, CallsFit, NEW c \in Connects, EndsOf(c), NEW a \in Connects, ApplicationDies(a)
    PROVE  EndsOf(c)'
  <1>1. /\ UNCHANGED <<th, job, online, epoch, callerMap, lost, flapped, dropped, calleeMap, bound, handling>>
        /\ alive' \subseteq alive
    BY DEF ApplicationDies, ghostVars
  <1>2. PICK S : ProxiesDie(S)
    BY DEF ApplicationDies
  <1>3. \A d \in Devices : Same(c, d)
    BY <1>1, <1>2, DeathsSame DEF Same
  <1>4. QED
    BY <1>1, <1>3, NothingMoves

LEMMA CallerDiedEnds ==
    ASSUME TypeInv, CallsFit, PastOnly, NEW c \in Connects, EndsOf(c), NEW a \in Connects,
           HandleLocalCallerDied(a)
    PROVE  EndsOf(c)'
  <1>1. /\ UNCHANGED <<th, job, alive, online, epoch, lost, flapped, dropped, calleeMap, calleeTasks, bound, handling>>
        /\ callerMap' = [callerMap EXCEPT ![a] = {}] /\ a \notin alive
    BY DEF HandleLocalCallerDied, Erases, ghostVars, linkVars, calleeVars, PastOnly
  <1>2. CASE c # a
    <2>1. callerMap'[c] = callerMap[c]
      BY <1>1, <1>2 DEF TypeInv, CallerType
    <2>2. \A d \in Devices : Same(c, d)
      BY <1>1, <2>1 DEF Same
    <2>3. QED
      BY <1>1, <2>2, NothingMoves
  <1>3. CASE c = a
    <2>1. ASSUME NEW x, NEW j, Agrees(c, x, j) PROVE Agrees(c, x, j)'
      <3>1. Knows(c, x, j)'
        BY <1>1, <2>1 DEF Agrees, Knows, Current, Usable, Unknown, Reaches, Released, Started
      <3>2. \A d \in Devices : SessionKnown(c, d, x, j)'
        BY <1>1, <1>3 DEF SessionKnown
      <3>3. \A d \in Devices, k \in Proxies : k[1] = c => SettledFor(c, d, k, x, j)'
        BY <1>1, <1>3, <2>1 DEF Agrees, Settled, SettledFor, EntryKnown, BindingKnown, LossKnown, Current, Carries
      <3>4. QED
        BY <3>1, <3>2, <3>3 DEF Agrees, Settled
    <2>2. QED
      BY <1>1, <2>1, CallStays
  <1>4. QED
    BY <1>2, <1>3

LEMMA OfflineEnds ==
    ASSUME TypeInv, CallsFit, PastOnly, NEW c \in Connects, EndsOf(c), NEW e \in Devices,
           ProcessCalleeOffline(e)
    PROVE  EndsOf(c)'
  <1>1. /\ UNCHANGED <<th, job, alive, online, epoch, lost, flapped, dropped, calleeMap, calleeTasks, bound, handling>>
        /\ callerMap' = [a \in Connects |-> callerMap[a] \ {e}] /\ e \notin online
    BY DEF ProcessCalleeOffline, ghostVars, calleeVars, PastOnly
  <1>2. \A d \in Devices : d \in callerMap'[c] <=> d \in callerMap[c] /\ d # e
    BY <1>1
  <1>3. ASSUME NEW x, NEW j, Agrees(c, x, j) PROVE Agrees(c, x, j)'
    <2>1. Knows(c, x, j)'
      BY <1>1, <1>3 DEF Agrees, Knows, Current, Usable, Unknown, Reaches, Released, Started
    <2>2. \A d \in Devices : SessionKnown(c, d, x, j)'
      BY <1>1, <1>2, <1>3 DEF Agrees, Settled, SessionKnown, Reaches, Released
    <2>3. ASSUME NEW d \in Devices, NEW k \in Proxies, k[1] = c PROVE SettledFor(c, d, k, x, j)'
      <3>1. SettledFor(c, d, k, x, j)
        BY <1>3, <2>3 DEF Agrees, Settled
      <3>2. Current(k, d) => d # e
        BY <1>1 DEF Current
      <3>3. EntryKnown(c, d, k, x, j)'
        BY <1>1, <1>2, <3>1, <3>2 DEF SettledFor, EntryKnown, Current, Started
      <3>4. QED
        BY <1>1, <3>1, <3>3 DEF SettledFor, BindingKnown, LossKnown, Current, Carries
    <2>4. QED
      BY <2>1, <2>2, <2>3 DEF Agrees, Settled
  <1>4. QED
    BY <1>1, <1>3, CallStays

LEMMA HandlerReleasesEnds ==
    ASSUME TypeInv, CallsFit, PastOnly, NEW c \in Connects, EndsOf(c), NEW e \in Devices,
           HandlerReleases(e)
    PROVE  EndsOf(c)'
  <1>1. UNCHANGED <<th, job, alive, online, epoch, callerMap, lost, flapped, dropped, calleeMap, calleeTasks>>
    BY DEF HandlerReleases, ghostVars, linkVars, callerVars
  <1>2. PICK h : h = handling[e]
    OBVIOUS
  <1>3. /\ \A d \in Devices : \A b : b \in bound'[d] <=> b \in bound[d] /\ ~(d = e /\ b = h)
        /\ \A d \in Devices : d # e => handling'[d] = handling[d]
    BY <1>2 DEF HandlerReleases, TypeInv, CalleeType
  <1>4. \A k \in Proxies, w \in Wrappers : h = <<k, w>> => ~Usable(k, e)
    BY <1>2 DEF PastOnly, PastOf
  <1>5. \A d \in Devices : d # e => Same(c, d)
    BY <1>1, <1>3 DEF Same
  <1>6. ASSUME NEW x, NEW j, Served(c, x, j), Agrees(c, x, j) PROVE Agrees(c, x, j)'
    <2>1. /\ j.pc # "none" => j.k \in Proxies /\ j.k[1] = c /\ x.d \in Devices
          /\ j.pc \in {"found", "started", "recorded", "erased"} => j.w \in Wrappers
      BY <1>6, ServedCall
    <2>2. Knows(c, x, j)'
      <3>1. Knows(c, x, j)
        BY <1>6 DEF Agrees
      <3>2. j.pc = "started" /\ Usable(j.k, x.d) => <<j.k, j.w>> \in bound'[x.d]
        BY <1>3, <1>4, <2>1, <3>1 DEF Knows
      <3>3. j.pc = "erased" /\ c \in alive =>
               <<j.k, j.w>> \in bound'[x.d] \/ <<c, x.d>> \in lost \/ <<c, x.d>> \in flapped
        <4>1. CASE Usable(j.k, x.d)
          BY <1>3, <1>4, <2>1, <3>1, <4>1 DEF Knows
        <4>2. CASE ~Usable(j.k, x.d)
          BY <2>1, <3>1, <4>2 DEF Knows, Usable, Current
        <4>3. QED
          BY <4>1, <4>2
      <3>4. QED
        BY <1>1, <3>1, <3>2, <3>3 DEF Knows, Current, Usable, Unknown, Reaches, Released, Started
    <2>3. ASSUME NEW d \in Devices PROVE Settled(c, d, x, j)'
      <3>1. Settled(c, d, x, j)
        BY <1>6 DEF Agrees
      <3>2. CASE d # e
        BY <1>5, <3>1, <3>2, SettledSame
      <3>3. CASE d = e
        <4>1. SessionKnown(c, d, x, j)'
          BY <1>1, <3>1 DEF Settled, SessionKnown, Reaches, Released
        <4>2. ASSUME NEW k \in Proxies, k[1] = c PROVE SettledFor(c, d, k, x, j)'
          <5>1. SettledFor(c, d, k, x, j)
            BY <3>1, <4>2 DEF Settled
          <5>2. EntryKnown(c, d, k, x, j)'
            <6>1. ASSUME c \in alive, Current(k, d), calleeMap[d][k] # 0 PROVE h # <<k, calleeMap[d][k]>>
              <7>1. Usable(k, d) /\ calleeMap[d][k] \in Wrappers
                BY <4>2, <6>1, MapTyped DEF Usable, Current
              <7>2. QED
                BY <1>4, <3>3, <7>1
            <6>2. QED
              BY <1>1, <1>3, <5>1, <6>1 DEF SettledFor, EntryKnown, Current, Started
          <5>3. \A w \in Wrappers : BindingKnown(d, k, w, x, j)'
            BY <1>1, <1>2, <1>3, <3>3, <5>1 DEF SettledFor, BindingKnown, Carries
          <5>4. LossKnown(c, d, k, j)'
            BY <1>1, <1>3, <5>1 DEF SettledFor, LossKnown, Current
          <5>5. QED
            BY <5>2, <5>3, <5>4 DEF SettledFor
        <4>3. QED
          BY <4>1, <4>2 DEF Settled
      <3>4. QED
        BY <3>2, <3>3
    <2>4. QED
      BY <2>2, <2>3 DEF Agrees
  <1>7. QED
    BY <1>1, <1>6, CallStays

(* An entry goes with a death: of an application or a link that is lost to the device,   *)
(* or of an ability, which is known.                                                     *)
LEMMA DeathEnds ==
    ASSUME TypeInv, CallsFit, NEW c \in Connects, EndsOf(c), NEW e \in Devices, NEW a \in Proxies,
           NEW kind, NextDeath(e, a, kind),
           UNCHANGED <<th, job, alive, online, epoch, callerMap, lost, flapped, dropped, bound>>,
           a[1] = c /\ c \in alive /\ Current(a, e) => <<c, e>> \in lost \/ <<c, e>> \in flapped,
           \A d \in Devices, k \in Proxies, w \in Wrappers : handling[d] = <<k, w>> => handling'[d] = <<k, w>>,
           a[1] = c => \A w \in Wrappers :
               <<a, w>> \in bound[e] /\ calleeMap[e][a] = w => handling'[e] = <<a, w>>
    PROVE  EndsOf(c)'
  <1>1. \A d \in Devices, k \in Proxies :
           /\ calleeMap'[d][k] = IF d = e /\ k = a THEN 0 ELSE calleeMap[d][k]
           /\ AbilityDied(calleeTasks'[d][k]) => AbilityDied(calleeTasks[d][k])
    <2>1. \A d \in Devices, k \in Proxies :
             /\ calleeMap'[d][k] = IF d = e /\ k = a THEN 0 ELSE calleeMap[d][k]
             /\ \A o : DeathIn(calleeTasks'[d][k], o) => DeathIn(calleeTasks[d][k], o)
      BY DeathAt
    <2>2. \A q : AbilityDied(q) = DeathIn(q, "calleeDied")
      BY DEF AbilityDied, DeathIn
    <2>3. QED
      BY <2>1, <2>2
  <1>2. \A d \in Devices : d # e => Same(c, d)
    BY <1>1 DEF Same
  <1>3. \A d \in Devices : Unknown(c, d) => Unknown(c, d)'
    BY <1>1 DEF Unknown, Current
  <1>4. ASSUME NEW d \in Devices, c \in alive, Reaches(c, d) PROVE Reaches(c, d)'
    <2>1. CASE <<c, d>> \in lost \/ <<c, d>> \in flapped
      BY <1>4, <2>1 DEF Reaches
    <2>2. CASE d # e \/ ~Current(a, e) \/ a[1] # c
      BY <1>1, <1>4, <2>2 DEF Reaches, Current
    <2>3. QED
      BY <1>4, <2>1, <2>2
  <1>5. ASSUME NEW x, NEW j, Served(c, x, j), Agrees(c, x, j) PROVE Agrees(c, x, j)'
    <2>1. /\ j.pc # "none" => j.k \in Proxies /\ j.k[1] = c /\ x.d \in Devices
          /\ Released(x, j) \/ Started(x, j) => x.d \in Devices
      BY <1>5, ServedCall
    <2>2. Knows(c, x, j)'
      <3>1. Knows(c, x, j)
        BY <1>5 DEF Agrees
      <3>2. /\ j.pc \in {"found", "started"} => calleeMap'[x.d][j.k] \in {0, j.w}
            /\ j.pc = "erased" => calleeMap'[x.d][j.k] = 0
        BY <1>1, <2>1, <3>1 DEF Knows
      <3>3. /\ j.pc # "none" /\ ~Current(j.k, x.d) => Unknown(c, x.d)'
            /\ Released(x, j) => Unknown(c, x.d)'
            /\ Started(x, j) /\ c \in alive => Reaches(c, x.d)'
        BY <1>3, <1>4, <2>1, <3>1 DEF Knows
      <3>4. QED
        BY <3>1, <3>2, <3>3 DEF Knows, Current, Usable, Released, Started
    <2>3. ASSUME NEW d \in Devices PROVE Settled(c, d, x, j)'
      <3>1. Settled(c, d, x, j)
        BY <1>5 DEF Agrees
      <3>2. CASE d # e
        BY <1>2, <3>1, <3>2, SettledSame
      <3>3. CASE d = e
        <4>1. SessionKnown(c, d, x, j)'
          BY <1>4, <3>1 DEF Settled, SessionKnown, Released
        <4>2. ASSUME NEW k \in Proxies, k[1] = c PROVE SettledFor(c, d, k, x, j)'
          <5>1. SettledFor(c, d, k, x, j)
            BY <3>1, <4>2 DEF Settled
          <5>2. EntryKnown(c, d, k, x, j)'
            <6>1. CASE k = a
              BY <1>1, <3>3, <6>1 DEF EntryKnown
            <6>2. CASE k # a
              <7>1. calleeMap'[d][k] = calleeMap[d][k]
                BY <1>1, <6>2
              <7>2. QED
                BY <5>1, <7>1 DEF SettledFor, EntryKnown, Current, Started
            <6>3. QED
              BY <6>1, <6>2
          <5>3. ASSUME NEW w \in Wrappers PROVE BindingKnown(d, k, w, x, j)'
            <6>1. BindingKnown(d, k, w, x, j)
              BY <5>1 DEF SettledFor
            <6>2. CASE k = a
              BY <3>3, <4>2, <6>1, <6>2 DEF BindingKnown, Carries
            <6>3. CASE k # a
              <7>1. calleeMap'[d][k] = calleeMap[d][k]
                BY <1>1, <6>3
              <7>2. QED
                BY <6>1, <7>1 DEF BindingKnown, Carries
            <6>4. QED
              BY <6>2, <6>3
          <5>4. LossKnown(c, d, k, j)'
            <6>1. AbilityDied(calleeTasks'[d][k]) => AbilityDied(calleeTasks[d][k])
              BY <1>1
            <6>2. QED
              BY <5>1, <6>1 DEF SettledFor, LossKnown, Current
          <5>5. QED
            BY <5>2, <5>3, <5>4 DEF SettledFor
        <4>3. QED
          BY <4>1, <4>2 DEF Settled
      <3>4. QED
        BY <3>2, <3>3
    <2>4. QED
      BY <2>2, <2>3 DEF Agrees
  <1>6. QED
    BY <1>5, CallStays

LEMMA CallerDeathEnds ==
    ASSUME TypeInv, CallsFit, PastOnly, NEW c \in Connects, EndsOf(c), NEW e \in Devices, NEW a \in Proxies,
           ProcessCallerDied(e, a)
    PROVE  EndsOf(c)'
  <1>1. /\ NextDeath(e, a, "callerDied")
        /\ UNCHANGED <<th, job, alive, online, epoch, callerMap, lost, flapped, dropped, bound>>
    BY DEF ProcessCallerDied, ghostVars, linkVars, callerVars
  <1>2. ~Usable(a, e)
    <2>1. DeathIn(calleeTasks[e][a], "callerDied")
      BY <1>1, DeathAt
    <2>2. QED
      BY <2>1 DEF PastOnly, PastOf, Queued, DeathIn
  <1>3. PICK m : m = calleeMap[e][a]
    OBVIOUS
  <1>4. PICK h : h = IF m = 0 THEN None ELSE <<a, m>>
    OBVIOUS
  <1>5. handling' = [handling EXCEPT ![e] = h] /\ handling[e] = None
    BY <1>1, <1>3, <1>4 DEF ProcessCallerDied, NextDeath
  <1>6. \A d \in Devices : handling'[d] = IF d = e THEN h ELSE handling[d]
    BY <1>5 DEF TypeInv, CalleeType
  <1>7. \A d \in Devices, k \in Proxies, w \in Wrappers : handling[d] = <<k, w>> => handling'[d] = <<k, w>>
    <2>1. \A k \in Proxies, w \in Wrappers : <<k, w>> # None
      BY CallAssumption
    <2>2. QED
      BY <1>5, <1>6, <2>1
  <1>8. \A w \in Wrappers : <<a, w>> \in bound[e] /\ calleeMap[e][a] = w => handling'[e] = <<a, w>>
    <2>1. \A w \in Wrappers : w # 0
      BY DEF Wrappers
    <2>2. QED
      BY <1>3, <1>4, <1>6, <2>1
  <1>9. a[1] = c /\ c \in alive => ~Current(a, e)
    BY <1>2 DEF Usable, Current
  <1>10. QED
    BY <1>1, <1>7, <1>8, <1>9, DeathEnds

LEMMA CalleeDeathEnds ==
    ASSUME TypeInv, CallsFit, NEW c \in Connects, EndsOf(c), NEW e \in Devices, NEW a \in Proxies,
           ProcessCalleeDied(e, a)
    PROVE  EndsOf(c)'
  <1>1. /\ NextDeath(e, a, "calleeDied")
        /\ UNCHANGED <<th, job, alive, online, epoch, callerMap, lost, flapped, dropped, bound, handling>>
    BY DEF ProcessCalleeDied, ghostVars, linkVars, callerVars
  <1>2. AbilityDied(calleeTasks[e][a])
    BY <1>1, DeathAt DEF AbilityDied, DeathIn
  <1>3. \E x, j : Agrees(c, x, j)
    BY DEF EndsOf
  <1>4. a[1] = c => \E j : LossKnown(c, e, a, j)
    BY <1>3 DEF Agrees, Settled, SettledFor
  <1>5. a[1] = c => /\ \A w \in Wrappers : <<a, w>> \notin bound[e]
                    /\ c \in alive /\ Current(a, e) => <<c, e>> \in lost \/ <<c, e>> \in flapped
    BY <1>2, <1>4 DEF LossKnown
  <1>6. QED
    BY <1>1, <1>5, DeathEnds

LEMMA AbilityDiesEnds ==
    ASSUME TypeInv, CallsFit, NEW c \in Connects, c \notin raced', EndsOf(c), NEW e \in Devices,
           AbilityDies(e)
    PROVE  EndsOf(c)'
  <1>1. UNCHANGED <<th, job, alive, online, epoch, callerMap, flapped, dropped, calleeMap, handling>>
    BY DEF AbilityDies, linkVars, callerVars
  <1>2. \A d \in Devices : \A b : b \in bound'[d] <=> b \in bound[d] /\ d # e
    BY DEF AbilityDies, TypeInv, CalleeType
  <1>3. PICK G : G = {b[1] : b \in bound[e]}
    OBVIOUS
  <1>4. /\ lost' = lost \cup {<<k[1], e>> : k \in G}
        /\ raced' = raced \cup {k[1] : k \in {x \in G : \E t \in Threads : job[t].k = x}}
    BY <1>3 DEF AbilityDies
  <1>5. ASSUME NEW k \in Proxies, k[1] = c, NEW w \in Wrappers, <<k, w>> \in bound[e]
        PROVE  <<c, e>> \in lost' /\ \A t \in Threads : job[t].k # k
    <2>1. k \in G
      BY <1>3, <1>5
    <2>2. QED
      BY <1>4, <1>5, <2>1
  <1>6. \A d \in Devices : /\ <<c, d>> \in lost => <<c, d>> \in lost'
                           /\ d # e => (<<c, d>> \in lost' <=> <<c, d>> \in lost)
    BY <1>4
  <1>7. ASSUME NEW d \in Devices, NEW k \in Proxies, AbilityDied(calleeTasks'[d][k])
        PROVE  \/ AbilityDied(calleeTasks[d][k])
               \/ d = e /\ \E w \in Wrappers : <<k, w>> \in bound[e]
    BY <1>7, AbilityDiesAt
  <1>8. \A d \in Devices : d # e => Same(c, d)
    BY <1>1, <1>2, <1>6, <1>7 DEF Same
  <1>9. \A d \in Devices : Reaches(c, d) => Reaches(c, d)'
    BY <1>1, <1>6 DEF Reaches
  <1>10. ASSUME NEW x, NEW j, Served(c, x, j), Agrees(c, x, j) PROVE Agrees(c, x, j)'
    <2>1. /\ j.pc # "none" => j.k \in Proxies /\ j.k[1] = c /\ x.d \in Devices /\ \E t \in Threads : job[t].k = j.k
          /\ j.pc \in {"found", "started", "recorded", "erased"} => j.w \in Wrappers
          /\ Released(x, j) \/ Started(x, j) => x.d \in Devices
      BY <1>10, ServedCall
    <2>2. Knows(c, x, j)'
      <3>1. Knows(c, x, j)
        BY <1>10 DEF Agrees
      <3>2. j.pc \in {"started", "erased"} /\ <<j.k, j.w>> \in bound[x.d] => x.d # e
        BY <1>5, <2>1
      <3>3. j.pc \in {"started", "erased"} /\ <<j.k, j.w>> \in bound[x.d] => <<j.k, j.w>> \in bound'[x.d]
        BY <1>2, <2>1, <3>2
      <3>4. j.pc = "erased" /\ c \in alive =>
               <<j.k, j.w>> \in bound'[x.d] \/ <<c, x.d>> \in lost' \/ <<c, x.d>> \in flapped
        BY <1>6, <2>1, <3>1, <3>3 DEF Knows
      <3>5. Started(x, j) /\ c \in alive => Reaches(c, x.d)'
        BY <1>9, <2>1, <3>1 DEF Knows
      <3>6. QED
        BY <1>1, <3>1, <3>3, <3>4, <3>5 DEF Knows, Current, Usable, Unknown, Released, Started
    <2>3. ASSUME NEW d \in Devices PROVE Settled(c, d, x, j)'
      <3>1. Settled(c, d, x, j)
        BY <1>10 DEF Agrees
      <3>2. CASE d # e
        BY <1>8, <3>1, <3>2, SettledSame
      <3>3. CASE d = e
        <4>1. SessionKnown(c, d, x, j)'
          BY <1>1, <1>9, <3>1 DEF Settled, SessionKnown, Released
        <4>2. ASSUME NEW k \in Proxies, k[1] = c PROVE SettledFor(c, d, k, x, j)'
          <5>1. SettledFor(c, d, k, x, j)
            BY <3>1, <4>2 DEF Settled
          <5>2. EntryKnown(c, d, k, x, j)'
            <6>1. calleeMap[d][k] # 0 /\ <<k, calleeMap[d][k]>> \in bound[d] => <<c, d>> \in lost'
              BY <1>5, <3>3, <4>2, MapTyped
            <6>2. QED
              BY <1>1, <1>6, <5>1, <6>1 DEF SettledFor, EntryKnown, Current, Started
          <5>3. \A w \in Wrappers : BindingKnown(d, k, w, x, j)'
            BY <1>1, <1>2, <5>1 DEF SettledFor, BindingKnown, Carries
          <5>4. LossKnown(c, d, k, j)'
            <6>1. CASE AbilityDied(calleeTasks[d][k])
              BY <1>1, <1>2, <1>6, <5>1, <6>1 DEF SettledFor, LossKnown, Current
            <6>2. CASE AbilityDied(calleeTasks'[d][k]) /\ ~AbilityDied(calleeTasks[d][k])
              <7>1. <<c, d>> \in lost' /\ \A t \in Threads : job[t].k # k
                BY <1>5, <1>7, <3>3, <4>2, <6>2
              <7>2. QED
                BY <1>2, <2>1, <3>3, <7>1 DEF LossKnown
            <6>3. CASE ~AbilityDied(calleeTasks'[d][k])
              BY <6>3 DEF LossKnown
            <6>4. QED
              BY <6>1, <6>2, <6>3
          <5>5. QED
            BY <5>2, <5>3, <5>4 DEF SettledFor
        <4>3. QED
          BY <4>1, <4>2 DEF Settled
      <3>4. QED
        BY <3>2, <3>3
    <2>4. QED
      BY <2>2, <2>3 DEF Agrees
  <1>11. QED
    BY <1>1, <1>10, CallStays

LEMMA LinkUpEnds ==
    ASSUME TypeInv, CallsFit, PastOnly, NEW c \in Connects, EndsOf(c), NEW e \in Devices, LinkUp(e)
    PROVE  EndsOf(c)'
  <1>1. /\ UNCHANGED <<th, job, alive, callerMap, lost, flapped, dropped, calleeMap, calleeTasks, bound, handling>>
        /\ online' = online \cup {e} /\ e \notin online
        /\ epoch' = [epoch EXCEPT ![e] = epoch[e] + 1]
    BY DEF LinkUp, callerVars, calleeVars, ghostVars
  <1>2. epoch[e] \in Nat /\ epoch'[e] = epoch[e] + 1 /\ \A d \in Devices : d # e => epoch'[d] = epoch[d]
    BY <1>1, CallAssumption DEF TypeInv, WorldType
  <1>3. \A d \in Devices : d # e => Same(c, d)
    BY <1>1, <1>2 DEF Same
  <1>4. ASSUME NEW k \in Proxies, k[2] <= epoch[e] PROVE ~Current(k, e)' /\ ~Current(k, e)
    <2>1. k[2] \in Nat
      BY CallAssumption DEF Proxies
    <2>2. QED
      BY <1>1, <1>2, <1>4, <2>1 DEF Current
  <1>5. ASSUME NEW k \in Proxies, k[1] = c, calleeMap[e][k] # 0 \/ AbilityDied(calleeTasks[e][k])
        PROVE  ~Current(k, e)'
    <2>1. PastOf(e, k)
      BY DEF PastOnly
    <2>2. k[2] <= epoch[e]
      BY <1>5, <2>1, DeathSomewhere DEF PastOf, AbilityDied, DeathIn
    <2>3. QED
      BY <1>4, <2>2
  <1>6. Unknown(c, e)'
    BY <1>1, <1>5 DEF Unknown
  <1>7. \A d \in Devices : Reaches(c, d) => Reaches(c, d)'
    <2>1. Reaches(c, e) => <<c, e>> \in flapped
      BY <1>1 DEF Reaches
    <2>2. \A d \in Devices : d # e /\ Reaches(c, d) => Reaches(c, d)'
      BY <1>3, ReachesSame
    <2>3. QED
      BY <1>1, <2>1, <2>2 DEF Reaches
  <1>8. ASSUME NEW x, NEW j, Served(c, x, j), Agrees(c, x, j) PROVE Agrees(c, x, j)'
    <2>1. /\ j.pc # "none" => j.k \in Proxies /\ j.k[1] = c /\ j.k[2] <= epoch[x.d] /\ x.d \in Devices
          /\ j.pc \in {"found", "started", "recorded", "erased"} => j.w \in Wrappers
          /\ Released(x, j) \/ Started(x, j) => x.d \in Devices
      BY <1>8, ServedCall
    <2>2. Knows(c, x, j)'
      <3>1. Knows(c, x, j)
        BY <1>8 DEF Agrees
      <3>2. CASE x.d = e
        <4>1. j.pc # "none" => ~Current(j.k, e)' /\ ~Current(j.k, e)
          BY <1>4, <2>1, <3>2
        <4>2. j.pc = "started" => ~Usable(j.k, e)'
          BY <4>1 DEF Usable, Current
        <4>3. Started(x, j) /\ c \in alive => Reaches(c, x.d)'
          BY <1>7, <2>1, <3>1 DEF Knows
        <4>4. QED
          BY <1>1, <1>6, <3>1, <3>2, <4>1, <4>2, <4>3 DEF Knows, Released, Started
      <3>3. CASE x.d # e /\ x.d \in Devices
        BY <1>3, <2>1, <3>1, <3>3, KnowsSame
      <3>4. CASE x.d \notin Devices
        BY <2>1, <3>4 DEF Knows, Released, Started
      <3>5. QED
        BY <3>2, <3>3, <3>4
    <2>3. ASSUME NEW d \in Devices PROVE Settled(c, d, x, j)'
      <3>1. Settled(c, d, x, j)
        BY <1>8 DEF Agrees
      <3>2. CASE d # e
        BY <1>3, <3>1, <3>2, SettledSame
      <3>3. CASE d = e
        <4>1. SessionKnown(c, d, x, j)'
          BY <1>1, <1>7, <3>1 DEF Settled, SessionKnown, Released
        <4>2. ASSUME NEW k \in Proxies, k[1] = c PROVE SettledFor(c, d, k, x, j)'
          <5>1. SettledFor(c, d, k, x, j)
            BY <3>1, <4>2 DEF Settled
          <5>2. EntryKnown(c, d, k, x, j)'
            BY <1>1, <1>5, <3>3, <4>2 DEF EntryKnown
          <5>3. \A w \in Wrappers : BindingKnown(d, k, w, x, j)'
            BY <1>1, <5>1 DEF SettledFor, BindingKnown, Carries
          <5>4. LossKnown(c, d, k, j)'
            BY <1>1, <1>5, <3>3, <4>2, <5>1 DEF SettledFor, LossKnown
          <5>5. QED
            BY <5>2, <5>3, <5>4 DEF SettledFor
        <4>3. QED
          BY <4>1, <4>2 DEF Settled
      <3>4. QED
        BY <3>2, <3>3
    <2>4. QED
      BY <2>2, <2>3 DEF Agrees
  <1>9. QED
    BY <1>1, <1>8, CallStays

LEMMA LinkDownEnds ==
    ASSUME TypeInv, CallsFit, NEW c \in Connects, EndsOf(c), NEW e \in Devices, LinkDown(e)
    PROVE  EndsOf(c)'
  <1>1. /\ UNCHANGED <<job, alive, epoch, callerMap, lost, dropped, calleeMap, bound, handling>>
        /\ online' = online \ {e}
    BY DEF LinkDown, callerVars
  <1>2. \A d \in Devices, k \in Proxies : AbilityDied(calleeTasks'[d][k]) => AbilityDied(calleeTasks[d][k])
    <2>1. PICK S : ProxiesDie(S)
      BY DEF LinkDown
    <2>2. QED
      BY <2>1, DeathsSame
  <1>3. /\ \A d \in Devices : <<c, d>> \in flapped => <<c, d>> \in flapped'
        /\ \A d \in Devices : d # e => (<<c, d>> \in flapped' <=> <<c, d>> \in flapped)
        /\ e \in callerMap[c] \/ Busy(c) => <<c, e>> \in flapped'
    <2>1. PICK F : F = {x \in Connects : e \in callerMap[x] \/ Busy(x)}
      OBVIOUS
    <2>2. flapped' = flapped \cup {<<a, e>> : a \in F}
      BY <2>1 DEF LinkDown
    <2>3. QED
      BY <2>1, <2>2
  <1>4. \A d \in Devices : d # e => Same(c, d)
    BY <1>1, <1>2, <1>3 DEF Same
  <1>5. Unknown(c, e)' /\ \A k : ~Current(k, e)'
    BY <1>1 DEF Unknown, Current
  <1>6. ASSUME NEW x, NEW j, Served(c, x, j), Agrees(c, x, j), NEW y, y.d = x.d,
               Released(y, j) <=> Released(x, j), Started(y, j) <=> Started(x, j)
        PROVE  Agrees(c, y, j)'
    <2>1. /\ j.pc # "none" => j.k \in Proxies /\ j.k[1] = c /\ j.k[2] <= epoch[x.d] /\ x.d \in Devices
          /\ j.pc \in {"found", "started", "recorded", "erased"} => j.w \in Wrappers
          /\ Released(x, j) \/ Started(x, j) => x.d \in Devices
          /\ x.d = e => <<c, e>> \in flapped'
      BY <1>3, <1>6, ServedCall
    <2>2. Knows(c, x, j)
      BY <1>6 DEF Agrees
    <2>3. Knows(c, y, j)'
      <3>1. CASE x.d = e
        <4>1. <<c, e>> \in flapped' /\ Reaches(c, e)' /\ ~Usable(j.k, e)'
          BY <1>5, <2>1, <3>1 DEF Reaches, Usable, Current
        <4>2. QED
          BY <1>1, <1>5, <1>6, <2>2, <3>1, <4>1 DEF Knows
      <3>2. CASE x.d # e /\ x.d \in Devices
        <4>1. Knows(c, x, j)'
          BY <1>4, <2>1, <2>2, <3>2, KnowsSame
        <4>2. QED
          BY <1>6, <4>1 DEF Knows, Released, Started
      <3>3. CASE x.d \notin Devices
        BY <1>6, <2>1, <3>3 DEF Knows, Released, Started
      <3>4. QED
        BY <3>1, <3>2, <3>3
    <2>4. ASSUME NEW d \in Devices PROVE Settled(c, d, y, j)'
      <3>1. Settled(c, d, x, j)
        BY <1>6 DEF Agrees
      <3>2. CASE d # e
        BY <1>4, <1>6, <3>1, <3>2, SettledSame DEF Carries
      <3>3. CASE d = e
        <4>1. SessionKnown(c, d, y, j)'
          BY <1>1, <1>3, <3>3 DEF SessionKnown, Reaches
        <4>2. ASSUME NEW k \in Proxies, k[1] = c PROVE SettledFor(c, d, k, y, j)'
          <5>1. SettledFor(c, d, k, x, j)
            BY <3>1, <4>2 DEF Settled
          <5>2. EntryKnown(c, d, k, y, j)'
            BY <1>5, <3>3 DEF EntryKnown
          <5>3. \A w \in Wrappers : BindingKnown(d, k, w, y, j)'
            BY <1>1, <1>6, <5>1 DEF SettledFor, BindingKnown, Carries
          <5>4. LossKnown(c, d, k, j)'
            BY <1>1, <1>2, <1>5, <3>3, <5>1 DEF SettledFor, LossKnown
          <5>5. QED
            BY <5>2, <5>3, <5>4 DEF SettledFor
        <4>3. QED
          BY <4>1, <4>2 DEF Settled
      <3>4. QED
        BY <3>2, <3>3
    <2>5. QED
      BY <2>3, <2>4 DEF Agrees
  <1>7. ASSUME NEW t \in Threads
        PROVE  /\ th'[t].c = th[t].c
               /\ th[t].c = c => Agrees(c, th[t], job[t])'
    <2>1. PICK x, j : x = th[t] /\ j = job[t]
      OBVIOUS
    <2>2. PICK z : z = [x EXCEPT !.pc = "gaveUp"]
      OBVIOUS
    <2>3. x \in CallSet /\ Good(x, j)
      BY <2>1 DEF TypeInv, ThreadType
    <2>4. z.pc = "gaveUp" /\ z.c = x.c /\ z.d = x.d
      BY <2>2, <2>3, WithPlace DEF CallPlaces
    <2>5. PICK y : y = th'[t]
      OBVIOUS
    <2>6. y = x \/ (y = z /\ x.pc = "waiting")
      BY <2>1, <2>2, <2>5 DEF LinkDown
    <2>7. y.d = x.d /\ y.c = x.c /\ (Released(y, j) <=> Released(x, j)) /\ (Started(y, j) <=> Started(x, j))
      BY <2>4, <2>6 DEF Released, Started
    <2>8. th[t].c = c => Served(c, x, j) /\ Agrees(c, x, j)
      BY <2>1 DEF Served, EndsOf
    <2>9. th[t].c = c => Agrees(c, y, j)'
      BY <1>6, <2>7, <2>8
    <2>10. job'[t] = j
      BY <1>1, <2>1
    <2>11. QED
      BY <2>1, <2>5, <2>7, <2>9, <2>10
  <1>8. OneCall(c)'
    BY <1>7 DEF EndsOf, OneCall
  <1>9. ASSUME \A t \in Threads : th'[t].c # c PROVE Agrees(c, Idle, NoJob)'
    <2>1. PICK x, j : x = Idle /\ j = NoJob
      OBVIOUS
    <2>2. Served(c, x, j) /\ Agrees(c, x, j)
      BY <1>7, <1>9, <2>1 DEF Served, EndsOf
    <2>3. Agrees(c, x, j)'
      BY <1>6, <2>2
    <2>4. QED
      BY <2>1, <2>3
  <1>10. QED
    BY <1>7, <1>8, <1>9 DEF EndsOf

(* The steps of one thread. *)
LEMMA StepEnds ==
    ASSUME TypeInv, CallsFit, NEW t \in Threads, ThreadSteps(t) \/ JobSteps(t), NEW c \in Connects, EndsOf(c)
    PROVE  EndsOf(c)'
  <1>1. CASE th[t].c # c
    BY <1>1, StepElsewhere
  <1>2. CASE th[t].c = c
    BY <1>2, SaveEnds, RemoveEnds, FindsEnds, StartsEnds, RecordsEnds, WatchesEnds, ForgetsEnds, ReleasesEnds
       DEF ThreadSteps, JobSteps
  <1>3. QED
    BY <1>1, <1>2

(* All steps keep what EndsInv says.                                                    *)
LEMMA CallsElsewhere ==
    ASSUME TypeInv, CallsFit, NEW t \in Threads, NEW a \in Connects, NEW d \in Devices,
           NEW op \in {"start", "release"}, Calls(t, a, d, op), NEW c \in Connects, c # a, EndsOf(c)
    PROVE  EndsOf(c)'
  <1>1. /\ UNCHANGED <<callerVars, calleeVars, linkVars, lost, flapped, dropped>>
        /\ th[t].pc = "idle"
    BY DEF Calls, MayCall, Free
  <1>2. \A e \in Devices : Same(c, e)
    BY <1>1 DEF Same, callerVars, calleeVars, linkVars
  <1>3. PICK y : y = [pc |-> "waiting", op |-> op, c |-> a, d |-> d]
    OBVIOUS
  <1>4. th' = [th EXCEPT ![t] = y] /\ y.c = a
    BY <1>3 DEF Calls
  <1>5. th'[t].c = a /\ \A s \in Threads : s # t => th'[s] = th[s] /\ job'[s] = job[s]
    BY <1>4 DEF Calls, TypeInv, ThreadType
  <1>6. th[t].c # c
    BY <1>1, CallAssumption DEF CallsFit, Fits
  <1>7. QED
    BY <1>2, <1>5, <1>6, Untouched

LEMMA NextEnds == TypeInv /\ CallsFit /\ PastOnly /\ EndsInv /\ [Next]_vars => EndsInv'
  <1>1. SUFFICES ASSUME TypeInv, CallsFit, PastOnly, EndsInv, [Next]_vars,
                        NEW c \in Connects, c \notin raced'
                 PROVE  EndsOf(c)'
    BY DEF EndsInv
  <1>2. raced \subseteq raced'
    <2>1. CASE UNCHANGED raced
      BY <2>1
    <2>2. ASSUME NEW t \in Threads, NEW a \in Connects, NEW d \in Devices, NEW op, Calls(t, a, d, op)
          PROVE  raced \subseteq raced'
      BY <2>2 DEF Calls
    <2>3. ASSUME NEW d \in Devices, AbilityDies(d) PROVE raced \subseteq raced'
      BY <2>3 DEF AbilityDies
    <2>4. ASSUME NEW t \in Threads, ThreadSteps(t) \/ JobSteps(t) PROVE UNCHANGED raced
      BY <2>4 DEF ThreadSteps, SaveCallerComponent, RemoveCallerComponent, JobSteps, StartFinds,
           AmsStartAbilityByCall, StartRecords, StartWatches, ReleaseForgets, AmsReleaseAbility, ghostVars
    <2>5. ASSUME NEW d \in Devices, HandlerSteps(d) \/ LinkDown(d) \/ LinkUp(d) PROVE UNCHANGED raced
      BY <2>5 DEF HandlerSteps, ProcessCalleeOffline, HandlerReleases, ProcessCallerDied, ProcessCalleeDied,
           LinkDown, LinkUp, ghostVars
    <2>6. ASSUME NEW a \in Connects, HandleLocalCallerDied(a) \/ ApplicationDies(a) PROVE UNCHANGED raced
      BY <2>6 DEF HandleLocalCallerDied, ApplicationDies, ghostVars
    <2>7. UNCHANGED vars => UNCHANGED raced
      BY DEF vars, ghostVars
    <2>8. QED
      BY <1>1, <2>1, <2>2, <2>3, <2>4, <2>5, <2>6, <2>7
         DEF Next, StartRemoteAbilityByCall, ReleaseRemoteAbility
  <1>3. EndsOf(c)
    BY <1>1, <1>2 DEF EndsInv
  <1>4. ASSUME NEW t \in Threads, NEW a \in Connects, NEW d \in Devices, NEW op \in {"start", "release"},
               Calls(t, a, d, op)
        PROVE  EndsOf(c)'
    <2>1. CASE c # a
      BY <1>1, <1>3, <1>4, <2>1, CallsElsewhere
    <2>2. CASE c = a
      <3>1. ~Busy(c)
        BY <1>1, <1>4, <2>2 DEF Calls
      <3>2. QED
        BY <1>1, <1>3, <1>4, <2>2, <3>1, CallsEnds
    <2>3. QED
      BY <2>1, <2>2
  <1>5. ASSUME NEW t \in Threads, ThreadSteps(t) \/ JobSteps(t) PROVE EndsOf(c)'
    BY <1>1, <1>3, <1>5, StepEnds
  <1>6. ASSUME NEW a \in Connects, HandleLocalCallerDied(a) \/ ApplicationDies(a) PROVE EndsOf(c)'
    BY <1>1, <1>3, <1>6, CallerDiedEnds, ApplicationDiesEnds
  <1>7. ASSUME NEW d \in Devices, HandlerSteps(d) PROVE EndsOf(c)'
    BY <1>1, <1>3, <1>7, OfflineEnds, HandlerReleasesEnds, CallerDeathEnds, CalleeDeathEnds DEF HandlerSteps
  <1>8. ASSUME NEW d \in Devices, AbilityDies(d) \/ LinkDown(d) \/ LinkUp(d) PROVE EndsOf(c)'
    BY <1>1, <1>3, <1>8, AbilityDiesEnds, LinkDownEnds, LinkUpEnds
  <1>9. CASE UNCHANGED vars
    <2>1. UNCHANGED <<th, job>> /\ \A d \in Devices : Same(c, d)
      BY <1>9 DEF vars, callerVars, calleeVars, linkVars, ghostVars, Same
    <2>2. QED
      BY <1>1, <1>3, <2>1, NothingMoves
  <1>10. QED
    BY <1>1, <1>4, <1>5, <1>6, <1>7, <1>8, <1>9 DEF Next, StartRemoteAbilityByCall, ReleaseRemoteAbility

-----------------------------------------------------------------------------
EndsKept == CallsFit /\ PastOnly /\ CallerReports /\ CalleeReports /\ EndsInv

LEMMA InitEnds == Init => EndsKept
  <1>1. SUFFICES ASSUME Init PROVE EndsKept
    OBVIOUS
  <1>2. PICK x, j : x = Idle /\ j = NoJob
    OBVIOUS
  <1>3. x.pc = "idle" /\ x.c = None /\ j.pc = "none" /\ (\A t \in Threads : th[t] = x /\ job[t] = j)
    BY <1>1, <1>2, NotCalls DEF Init
  <1>4. CallsFit
    BY <1>2, <1>3, NoCallFits DEF CallsFit
  <1>5. \A d \in Devices, k \in Proxies :
           /\ calleeMap[d][k] = 0 /\ calleeTasks[d][k] = << >> /\ ~AbilityDied(calleeTasks[d][k])
           /\ ~Queued(d, k) /\ bound[d] = {} /\ handling[d] = None
    BY <1>1, EmptySeq DEF Init, AbilityDied, Queued
  <1>6. PastOnly
    <2>1. \A k \in Proxies, w \in Wrappers : <<k, w>> # None
      BY CallAssumption
    <2>2. QED
      BY <1>1, <1>5, <2>1 DEF Init, PastOnly, PastOf
  <1>7. CallerReports
    BY <1>1 DEF Init, CallerReports
  <1>8. CalleeReports
    BY <1>1 DEF Init, CalleeReports
  <1>9. ASSUME NEW c \in Connects PROVE EndsOf(c)
    <2>1. c # None /\ callerMap[c] = {}
      BY <1>1, CallAssumption DEF Init
    <2>2. Knows(c, x, j)
      BY <1>3 DEF Knows, Released, Started
    <2>3. \A d \in Devices : Settled(c, d, x, j)
      BY <1>5, <2>1 DEF Settled, SessionKnown, SettledFor, EntryKnown, BindingKnown, LossKnown
    <2>4. \A t \in Threads : th[t].c # c
      BY <1>3, <2>1
    <2>5. QED
      BY <1>2, <2>2, <2>3, <2>4 DEF EndsOf, OneCall, Agrees
  <1>10. QED
    BY <1>4, <1>6, <1>7, <1>8, <1>9 DEF EndsKept, EndsInv

LEMMA Kept == Spec => [](TypeInv /\ EndsKept)
  <1>1. TypeInv /\ WatchInv /\ EndsKept /\ [Next]_vars => EndsKept'
    BY NextFits, NextPast, NextCallerReports, NextCalleeReports, NextEnds DEF EndsKept, WatchInv
  <1>2. QED
    BY <1>1, InitEnds, Watched, PTL DEF Spec

(* When nothing is under way the two ends and the AMS agree about a connect that was not *)
(* used in two ways at once, and each side has reported what it holds.                   *)
THEOREM CallEndsCorrect == Spec => []CallEndsAgree
  <1>1. TypeInv /\ EndsKept => CallEndsAgree
    <2>1. SUFFICES ASSUME TypeInv, EndsKept, Quiet, NEW c \in Connects \ raced
                   PROVE  /\ callerAdds[c] = IF c \in CallerComponents THEN 1 ELSE 0
                          /\ \A d \in Devices :
                                /\ c \in alive /\ d \in online => SidesAgree(c, d)
                                /\ \A b \in bound[d] : b[1][1] = c => calleeMap[d][b[1]] = b[2]
                                /\ \A k \in Proxies : k[1] = c =>
                                      calleeAdds[d][k] = repeats[d][k] + IF k \in CalleeComponents(d) THEN 1 ELSE 0
      BY DEF CallEndsAgree
    <2>2. callerAdds[c] = IF c \in CallerComponents THEN 1 ELSE 0
      BY <2>1 DEF EndsKept, CallerReports, CallerComponents
    <2>3. PICK x, j : x = Idle /\ j = NoJob
      OBVIOUS
    <2>4. Agrees(c, x, j)
      <3>1. \A t \in Threads : th[t].c # c
        BY <2>1, NotCalls, CallAssumption DEF Quiet
      <3>2. QED
        BY <2>1, <2>3, <3>1 DEF EndsKept, EndsInv, EndsOf
    <2>5. ~Released(x, j) /\ ~Started(x, j) /\ \A d, k, w : ~Carries(x, j, d, k, w)
      BY <2>3, NoCall
    <2>6. ASSUME NEW d \in Devices, c \in alive, d \in online PROVE SidesAgree(c, d)
      <3>1. PICK k : k = <<c, epoch[d]>>
        OBVIOUS
      <3>2. k \in Proxies /\ k[1] = c /\ Current(k, d)
        BY <2>1, <2>6, <3>1 DEF Proxies, Current, TypeInv, WorldType
      <3>3. Settled(c, d, x, j)
        BY <2>4 DEF Agrees
      <3>4. d \in callerMap[c] => calleeMap[d][k] # 0 \/ <<c, d>> \in lost \/ <<c, d>> \in flapped
        BY <2>5, <2>6, <3>2, <3>3 DEF Settled, SessionKnown, Reaches, Current
      <3>5. calleeMap[d][k] # 0 => d \in callerMap[c] \/ <<c, d>> \in dropped
        BY <2>5, <2>6, <3>2, <3>3 DEF Settled, SettledFor, EntryKnown
      <3>6. QED
        BY <3>1, <3>4, <3>5 DEF SidesAgree, ProxyOf
    <2>7. ASSUME NEW d \in Devices, NEW b \in bound[d], b[1][1] = c PROVE calleeMap[d][b[1]] = b[2]
      <3>1. PICK k \in Proxies, w \in Wrappers : b = <<k, w>>
        BY <2>1, <2>7 DEF TypeInv, CalleeType
      <3>2. BindingKnown(d, k, w, x, j)
        BY <2>4, <2>7, <3>1 DEF Agrees, Settled, SettledFor
      <3>3. handling[d] # <<k, w>>
        <4>1. handling[d] = None
          BY <2>1 DEF Quiet
        <4>2. <<k, w>> \in Proxies \X Wrappers
          BY <3>1
        <4>3. QED
          BY <4>1, <4>2, CallAssumption
      <3>4. QED
        BY <2>5, <2>7, <3>1, <3>2, <3>3 DEF BindingKnown
    <2>8. ASSUME NEW d \in Devices, NEW k \in Proxies
          PROVE  calleeAdds[d][k] = repeats[d][k] + IF k \in CalleeComponents(d) THEN 1 ELSE 0
      BY <2>1 DEF EndsKept, CalleeReports, CalleeComponents
    <2>9. QED
      BY <2>2, <2>6, <2>7, <2>8
  <1>2. QED
    BY <1>1, Kept, PTL
=============================================================================
