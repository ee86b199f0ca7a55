------------------------- MODULE DmsContinuationProofs -------------------------
(***************************************************************************)
(* What DmsContinuation promises for any missions, requests and devices:   *)
(* first whether requests and answers overlap or not, then what holds only *)
(* when they do not.                                                       *)
(***************************************************************************)
EXTENDS DmsContinuation, FiniteSetTheorems, SequenceTheorems, TLAPS

-----------------------------------------------------------------------------
(* Types.  A note that is under way is about a mission. *)
TypeInv ==
    /\ TypeOK
    /\ \A x \in Actors : note[x].st # "idle" => note[x].m \in Missions

LEMMA NoteType ==
    /\ NoNote \in Note /\ NoNote.st = "idle"
    /\ \A m \in Missions, res \in Results :
          Notification(m, res) \in Note /\ Notification(m, res).m \in Missions
    /\ \A n \in Note, st \in {"found", "notFound", "toPop", "toTell"} :
          At(n, st) \in Note /\ At(n, st).m = n.m
    /\ \A n \in Note, cb \in Requests \cup {None} :
          Holding(n, cb) \in Note /\ Holding(n, cb).m = n.m
  BY DEF Note, NoNote, Notification, At, Holding, Results

LEMMA BecomesType ==
    ASSUME TypeInv, NEW x \in Actors, NEW n \in Note, n.st # "idle" => n.m \in Missions,
           Becomes(x, n)
    PROVE  /\ note' \in [Actors -> Note]
           /\ \A y \in Actors : note'[y].st # "idle" => note'[y].m \in Missions
  BY DEF TypeInv, TypeOK, Becomes

LEMMA EntersType ==
    ASSUME TypeInv, NEW x \in Actors, NEW m \in Missions, NEW res \in Results, Enters(x, m, res)
    PROVE  /\ note' \in [Actors -> Note]
           /\ \A y \in Actors : note'[y].st # "idle" => note'[y].m \in Missions
  <1>1. Notification(m, res) \in Note /\ Notification(m, res).m \in Missions
    BY NoteType
  <1>2. QED
    BY <1>1, BecomesType DEF Enters

LEMMA AdvanceType ==
    ASSUME TypeInv, NEW x \in Actors, note[x].st # "idle",
           NEW st \in {"found", "notFound", "toPop", "toTell"}, Advance(x, st)
    PROVE  /\ note' \in [Actors -> Note]
           /\ \A y \in Actors : note'[y].st # "idle" => note'[y].m \in Missions
  <1>1. note[x] \in Note /\ note[x].m \in Missions
    BY DEF TypeInv, TypeOK
  <1>2. At(note[x], st) \in Note /\ At(note[x], st).m \in Missions
    BY <1>1, NoteType
  <1>3. QED
    BY <1>2, BecomesType DEF Advance

LEMMA NoNoteType ==
    ASSUME TypeInv, NEW x \in Actors, Becomes(x, NoNote)
    PROVE  /\ note' \in [Actors -> Note]
           /\ \A y \in Actors : note'[y].st # "idle" => note'[y].m \in Missions
  BY NoteType, BecomesType

LEMMA NoteKept ==
    ASSUME TypeInv, note' = note
    PROVE  /\ note' \in [Actors -> Note]
           /\ \A y \in Actors : note'[y].st # "idle" => note'[y].m \in Missions
  BY DEF TypeInv, TypeOK

(* The three maps keep their types, whatever is pushed or popped. *)
TablesType ==
    /\ callbackMap \in [Missions -> Requests \cup {None}]
    /\ continuationDevices \in [Missions -> Devices \cup {None}]
    /\ freeInstall \in [Missions -> BOOLEAN]

LEMMA TablesKept ==
    ASSUME TypeInv, UNCHANGED tables
    PROVE  TablesType'
  BY DEF TypeInv, TypeOK, TablesType, tables

LEMMA PushCallbackType ==
    ASSUME TypeInv, NEW r \in Requests, NEW free \in BOOLEAN, PushCallback(MissionOf[r], r, free)
    PROVE  TablesType'
  <1> USE ContinuationAssumption
  <1>1. MissionOf[r] \in Missions /\ DeviceOf[r] \in Devices
    OBVIOUS
  <1>2. CASE callbackMap[MissionOf[r]] = None
    <2> DEFINE device == IF continuationDevices[MissionOf[r]] = None THEN DeviceOf[r]
                         ELSE continuationDevices[MissionOf[r]]
    <2>5. device \in Devices \cup {None}
      BY <1>1 DEF TypeInv, TypeOK
    <2>6. /\ callbackMap' = [callbackMap EXCEPT ![MissionOf[r]] = r]
          /\ continuationDevices' = [continuationDevices EXCEPT ![MissionOf[r]] = device]
      BY <1>2 DEF PushCallback
    <2> HIDE DEF device
    <2>1. /\ callbackMap' \in [Missions -> Requests \cup {None}]
          /\ continuationDevices' \in [Missions -> Devices \cup {None}]
      BY <1>1, <2>5, <2>6 DEF TypeInv, TypeOK
    <2>2. (freeInstall[MissionOf[r]] \/ free) \in BOOLEAN
      OBVIOUS
    <2>3. freeInstall' \in [Missions -> BOOLEAN]
      BY <1>2, <2>2, Zenon DEF TypeInv, TypeOK, PushCallback
    <2>4. QED
      BY <2>1, <2>3 DEF TablesType
  <1>3. CASE callbackMap[MissionOf[r]] # None
    BY <1>3, TablesKept DEF PushCallback
  <1>4. QED
    BY <1>2, <1>3

LEMMA PopCallbackType ==
    ASSUME TypeInv, NEW m \in Missions, PopCallback(m)
    PROVE  TablesType'
  <1>1. CASE callbackMap[m] # None
    BY <1>1 DEF TypeInv, TypeOK, TablesType, PopCallback
  <1>2. CASE callbackMap[m] = None
    BY <1>2, TablesKept DEF PopCallback
  <1>3. QED
    BY <1>1, <1>2

LEMMA GotoType ==
    ASSUME TypeInv, NEW r \in Requests, NEW st \in States, Goto(r, st)
    PROVE  pc' \in [Requests -> States]
  BY DEF TypeInv, TypeOK, Goto

LEMMA TimersType ==
    ASSUME TypeInv, NEW m \in Missions,
           SetTimeOut(m) \/ RemoveTimeOut(m) \/ UNCHANGED timers
    PROVE  timers' \in [Missions -> Nat]
  <1>1. timers \in [Missions -> Nat]
    BY DEF TypeInv, TypeOK
  <1>2. CASE SetTimeOut(m)
    BY <1>1, <1>2 DEF SetTimeOut
  <1>3. CASE RemoveTimeOut(m)
    BY <1>1, <1>3 DEF RemoveTimeOut
  <1>4. QED
    BY <1>1, <1>2, <1>3

LEMMA InitTypeInv == Init => TypeInv
  <1>1. SUFFICES ASSUME Init PROVE TypeInv
    OBVIOUS
  <1>2. note \in [Actors -> Note] /\ \A x \in Actors : note[x].st = "idle"
    BY <1>1, NoteType DEF Init
  <1>3. told \in [Requests -> Seq(Results)]
    BY <1>1 DEF Init
  <1>4. QED
    BY <1>1, <1>2, <1>3 DEF Init, TypeInv, TypeOK, States

(* The steps of a request that touch no note. *)
LEMMA RequestTypeInv ==
    ASSUME TypeInv, NEW r \in Requests, ContinueLocalMission(r) \/ RequestStep(r)
    PROVE  TypeInv'
  <1> DEFINE m == MissionOf[r]
  <1>1. m \in Missions /\ DeviceOf[r] \in Devices
    BY ContinuationAssumption
  <1>2. note' = note /\ told' = told /\ answer' = answer /\ cleaned' = cleaned
    BY DEF ContinueLocalMission, RequestStep, CheckRemoteBundleInfo, PushesCallback,
           SetContinuationTimeout, ContinueAbility, CheckIfRemoteCanInstall,
           RemoveContinuationTimeout, PopsCallback, GetContinuationDevice,
           SetsInstallationTimeout, ContinueAbilityWithFreeInstall,
           StartContinuationSetsTimeOut, StartsRemote, history
  <1>3. SetTimeOut(m) \/ RemoveTimeOut(m) \/ UNCHANGED timers
    BY DEF ContinueLocalMission, RequestStep, CheckRemoteBundleInfo, PushesCallback,
           SetContinuationTimeout, ContinueAbility, CheckIfRemoteCanInstall,
           RemoveContinuationTimeout, PopsCallback, GetContinuationDevice,
           SetsInstallationTimeout, InstallationTimeout, ContinueAbilityWithFreeInstall,
           StartContinuationSetsTimeOut, StartsRemote
  <1>4. UNCHANGED tables \/ PushCallback(m, r, lacking[r]) \/ PopCallback(m)
    BY DEF ContinueLocalMission, RequestStep, CheckRemoteBundleInfo, PushesCallback,
           SetContinuationTimeout, ContinueAbility, CheckIfRemoteCanInstall,
           RemoveContinuationTimeout, PopsCallback, GetContinuationDevice,
           SetsInstallationTimeout, ContinueAbilityWithFreeInstall,
           StartContinuationSetsTimeOut, StartsRemote
  <1>5. \E st \in States : Goto(r, st)
    BY DEF ContinueLocalMission, RequestStep, CheckRemoteBundleInfo, PushesCallback,
           SetContinuationTimeout, ContinueAbility, CheckIfRemoteCanInstall,
           RemoveContinuationTimeout, PopsCallback, GetContinuationDevice,
           SetsInstallationTimeout, ContinueAbilityWithFreeInstall,
           StartContinuationSetsTimeOut, StartsRemote, States, InThread, InCall, Outside
  <1>6. lacking' \in [Requests -> BOOLEAN] /\ way' \in [Requests -> {"none", "ability", "freeInstall"}]
    BY DEF ContinueLocalMission, RequestStep, CheckRemoteBundleInfo, PushesCallback,
           SetContinuationTimeout, ContinueAbility, CheckIfRemoteCanInstall,
           RemoveContinuationTimeout, PopsCallback, GetContinuationDevice,
           SetsInstallationTimeout, ContinueAbilityWithFreeInstall,
           StartContinuationSetsTimeOut, StartsRemote, TypeInv, TypeOK
  <1>7. target' \in [Requests -> Devices \cup {None}] /\ dropped' \in SUBSET Requests
    BY <1>1 DEF ContinueLocalMission, RequestStep, CheckRemoteBundleInfo, PushesCallback,
           SetContinuationTimeout, ContinueAbility, CheckIfRemoteCanInstall,
           RemoveContinuationTimeout, PopsCallback, GetContinuationDevice,
           SetsInstallationTimeout, ContinueAbilityWithFreeInstall,
           StartContinuationSetsTimeOut, StartsRemote, history, TypeInv, TypeOK
  <1>8. TablesType'
    <2>1. lacking[r] \in BOOLEAN
      BY DEF TypeInv, TypeOK
    <2>2. QED
      BY <1>1, <1>4, <2>1, TablesKept, PushCallbackType, PopCallbackType
  <1>9. timers' \in [Missions -> Nat] /\ pc' \in [Requests -> States]
    BY <1>1, <1>3, <1>5, TimersType, GotoType
  <1>10. QED
    BY <1>2, <1>6, <1>7, <1>8, <1>9 DEF TypeInv, TypeOK, TablesType

(* The steps that enter a note for a request: all but its types is left alone. *)
LEMMA AnswerTypeInv ==
    ASSUME TypeInv, NEW r \in Requests,
           \/ OnQueryInstallationFinished(r) \/ StartContinuation(r)
           \/ NotifyCompleteFreeInstallFromRemote(r) \/ NotifyContinuationResultFromRemote(r)
    PROVE  TypeInv'
  <1> DEFINE m == MissionOf[r]
  <1> USE DEF Results
  <1>1. m \in Missions /\ r \in Actors
    BY ContinuationAssumption DEF Actors
  <1>2. /\ UNCHANGED <<tables, lacking, target, way, told, dropped, cleaned>>
        /\ SetTimeOut(m) \/ RemoveTimeOut(m) \/ UNCHANGED timers
    BY DEF OnQueryInstallationFinished, StartContinuation, NotifyCompleteFreeInstallFromRemote,
           NotifyContinuationResultFromRemote, history
  <1>3. \E st \in States : Goto(r, st)
    BY DEF OnQueryInstallationFinished, StartContinuation, NotifyCompleteFreeInstallFromRemote,
           NotifyContinuationResultFromRemote, States, InThread, InCall, Outside
  <1>4. note' = note \/ \E res \in Results : Enters(r, m, res)
    BY DEF OnQueryInstallationFinished, StartContinuation, NotifyCompleteFreeInstallFromRemote,
           NotifyContinuationResultFromRemote, ResultCode
  <1>5. answer' \in [Requests -> {"none"} \cup Results]
    BY DEF OnQueryInstallationFinished, StartContinuation, NotifyCompleteFreeInstallFromRemote,
           NotifyContinuationResultFromRemote, history, TypeInv, TypeOK
  <1>6. /\ note' \in [Actors -> Note]
        /\ \A y \in Actors : note'[y].st # "idle" => note'[y].m \in Missions
    BY <1>1, <1>4, NoteKept, EntersType
  <1>7. timers' \in [Missions -> Nat] /\ pc' \in [Requests -> States]
    BY <1>1, <1>2, <1>3, TimersType, GotoType
  <1>8. TablesType'
    BY <1>2, TablesKept
  <1>9. QED
    BY <1>2, <1>5, <1>6, <1>7, <1>8 DEF TypeInv, TypeOK, TablesType

LEMMA TimeoutTypeInv ==
    ASSUME TypeInv, NEW m \in Missions, ContinuationTimeout(m)
    PROVE  TypeInv'
  <1>1. timers[m] \in Nat /\ timers[m] > 0
    BY DEF ContinuationTimeout, Pending, TypeInv, TypeOK
  <1>2. timers' = [timers EXCEPT ![m] = timers[m] - 1] /\ Enters(Handler, m, "failed")
    BY DEF ContinuationTimeout
  <1>3. timers' \in [Missions -> Nat]
    BY <1>1, <1>2 DEF TypeInv, TypeOK
  <1>4. /\ note' \in [Actors -> Note]
        /\ \A y \in Actors : note'[y].st # "idle" => note'[y].m \in Missions
    BY <1>2, EntersType DEF Actors, Results
  <1>5. UNCHANGED <<tables, pc, lacking, target, way, history>>
    BY DEF ContinuationTimeout
  <1>6. QED
    BY <1>3, <1>4, <1>5 DEF TypeInv, TypeOK, tables, history

LEMMA NotifyTypeInv ==
    ASSUME TypeInv, NEW x \in Actors, NotifyStep(x)
    PROVE  TypeInv'
  <1> DEFINE m == note[x].m
  <1>1. note[x].st # "idle" /\ m \in Missions /\ note[x] \in Note
    BY DEF NotifyStep, IsInProgress, CleanMission, PopsCallbackToTell, RemovesTimeOut, TellsCallback,
           NotifyAms, TypeInv, TypeOK
  <1>2. UNCHANGED <<pc, lacking, target, way, answer, dropped>>
    BY DEF NotifyStep, IsInProgress, CleanMission, PopsCallbackToTell, RemovesTimeOut, TellsCallback,
           NotifyAms, history
  <1>3. TablesType'
    <2>1. UNCHANGED tables \/ PopCallback(m)
      BY DEF NotifyStep, IsInProgress, CleanMission, PopsCallbackToTell, RemovesTimeOut,
             TellsCallback, NotifyAms
    <2>2. QED
      BY <1>1, <2>1, TablesKept, PopCallbackType
  <1>4. timers' \in [Missions -> Nat]
    <2>1. RemoveTimeOut(m) \/ UNCHANGED timers
      BY DEF NotifyStep, IsInProgress, CleanMission, PopsCallbackToTell, RemovesTimeOut,
             TellsCallback, NotifyAms
    <2>2. QED
      BY <1>1, <2>1, TimersType
  <1>5. cleaned' \in SUBSET Missions
    BY <1>1 DEF NotifyStep, IsInProgress, CleanMission, PopsCallbackToTell, RemovesTimeOut,
                TellsCallback, NotifyAms, history, TypeInv, TypeOK
  <1>6. told' \in [Requests -> Seq(Results)]
    <2>1. told \in [Requests -> Seq(Results)] /\ note[x].res \in Results
      BY <1>1 DEF TypeInv, TypeOK, Note
    <2>2. CASE UNCHANGED told
      BY <2>1, <2>2
    <2>3. CASE TellsCallback(x)
      <3>1. \A r \in Requests : Append(told[r], note[x].res) \in Seq(Results)
        BY <2>1
      <3>2. QED
        BY <2>1, <2>3, <3>1 DEF TellsCallback
    <2>4. QED
      BY <2>2, <2>3 DEF NotifyStep, IsInProgress, CleanMission, PopsCallbackToTell,
                        RemovesTimeOut, NotifyAms, history
  <1>7. /\ note' \in [Actors -> Note]
        /\ \A y \in Actors : note'[y].st # "idle" => note'[y].m \in Missions
    <2>1. CASE \E st \in {"found", "notFound", "toPop", "toTell"} : Advance(x, st)
      BY <1>1, <2>1, AdvanceType
    <2>2. CASE Becomes(x, NoNote)
      BY <2>2, NoNoteType
    <2>3. CASE PopsCallbackToTell(x)
      <3>1. callbackMap[m] \in Requests \cup {None}
        BY <1>1 DEF TypeInv, TypeOK
      <3>2. Holding(note[x], callbackMap[m]) \in Note /\ Holding(note[x], callbackMap[m]).m = m
        BY <1>1, <3>1, NoteType
      <3>3. QED
        BY <1>1, <2>3, <3>2, BecomesType DEF PopsCallbackToTell
    <2>4. QED
      BY <2>1, <2>2, <2>3 DEF NotifyStep, IsInProgress, CleanMission, RemovesTimeOut, TellsCallback,
                              NotifyAms
  <1>8. QED
    BY <1>2, <1>3, <1>4, <1>5, <1>6, <1>7 DEF TypeInv, TypeOK, TablesType

LEMMA AlwaysTypeInv == Spec => []TypeInv
  <1>1. TypeInv /\ [Next]_vars => TypeInv'
    <2>1. SUFFICES ASSUME TypeInv, [Next]_vars PROVE TypeInv'
      OBVIOUS
    <2>2. CASE UNCHANGED vars
      BY <2>1, <2>2 DEF vars, tables, history, TypeInv, TypeOK
    <2>3. CASE Next
      BY <2>1, <2>3, RequestTypeInv, AnswerTypeInv, TimeoutTypeInv, NotifyTypeInv DEF Next
    <2>4. QED
      BY <2>1, <2>2, <2>3
  <1>2. QED
    BY InitTypeInv, <1>1, PTL DEF Spec

-----------------------------------------------------------------------------
(* Where the callback of a request is: with a request that has not pushed it yet, in    *)
(* the map, in the hands of a thread that will tell it, or gone, told or taken back;    *)
(* it is never in two of these places.                                                   *)
Fresh(r) == pc[r] \in {"new", "checked", "toPush"}
Gone(r) == told[r] # << >> \/ r \in dropped

(* What a thread that tells holds, and that a request has nobody telling before the     *)
(* bundle manager, the AMS or the target has answered.                                   *)
NotesInv ==
    /\ \A x \in Actors : note[x].cb # None => note[x].st \in {"popped", "toTell"}
    /\ \A r \in Requests : pc[r] \notin {"late", "over"} => note[r].st = "idle"

InMapInv ==
    \A m \in Missions, r \in Requests : callbackMap[m] = r =>
        /\ MissionOf[r] = m
        /\ ~Fresh(r) /\ ~Gone(r)
        /\ \A x \in Actors : note[x].cb # r
HeldInv ==
    \A x \in Actors, r \in Requests : note[x].cb = r =>
        /\ ~Fresh(r) /\ ~Gone(r)
        /\ \A y \in Actors : note[y].cb = r => y = x
GoneInv ==
    \A r \in Requests :
        /\ Gone(r) => ~Fresh(r)
        /\ told[r] # << >> => Len(told[r]) = 1 /\ r \notin dropped

OnceInv == NotesInv /\ InMapInv /\ HeldInv /\ GoneInv

LEMMA NotNone == None \notin Requests
  BY ContinuationAssumption

(* A step by which no callback changes its place, but may be lost with a note. *)
LEMMA PlacesKept ==
    ASSUME OnceInv, UNCHANGED <<callbackMap, told, dropped>>,
           \A r \in Requests : Fresh(r)' => Fresh(r),
           \A x \in Actors : note'[x].cb = note[x].cb \/ note'[x].cb = None,
           NotesInv'
    PROVE  OnceInv'
  <1>1. InMapInv'
    BY NotNone DEF OnceInv, InMapInv, Gone
  <1>2. HeldInv'
    BY NotNone DEF OnceInv, HeldInv, Gone
  <1>3. GoneInv'
    BY DEF OnceInv, GoneInv, Gone
  <1>4. QED
    BY <1>1, <1>2, <1>3 DEF OnceInv

(* A request goes on, before it was answered. *)
LEMMA GotoOnceInv ==
    ASSUME TypeInv, OnceInv, NEW r \in Requests, NEW st \in States, Goto(r, st),
           pc[r] \notin {"late", "over"},
           st \in {"new", "checked", "toPush"} => Fresh(r),
           UNCHANGED <<callbackMap, told, dropped, note>>
    PROVE  OnceInv'
  <1>1. /\ \A q \in Requests : q # r => pc'[q] = pc[q]
        /\ pc'[r] = st
    BY DEF Goto, TypeInv, TypeOK
  <1>2. \A q \in Requests : Fresh(q)' => Fresh(q)
    BY <1>1 DEF Fresh
  <1>3. NotesInv'
    BY <1>1 DEF OnceInv, NotesInv
  <1>4. QED
    BY <1>2, <1>3, PlacesKept

LEMMA PushesOnceInv ==
    ASSUME TypeInv, OnceInv, NEW r \in Requests, PushesCallback(r)
    PROVE  OnceInv'
  <1> DEFINE m == MissionOf[r]
  <1>1. /\ UNCHANGED <<note, told, dropped>> /\ pc[r] = "toPush" /\ Goto(r, "pushed")
        /\ "pushed" \in States
    BY DEF PushesCallback, history, States, InThread, InCall
  <1>2. CASE callbackMap[m] # None
    <2>1. UNCHANGED callbackMap
      BY <1>2 DEF PushesCallback, PushCallback, tables
    <2>2. QED
      BY <1>1, <2>1, GotoOnceInv
  <1>3. CASE callbackMap[m] = None
    <2>1. /\ m \in Missions /\ callbackMap'[m] = r
          /\ \A n \in Missions \ {m} : callbackMap'[n] = callbackMap[n]
      BY <1>3, ContinuationAssumption DEF PushesCallback, PushCallback, TypeInv, TypeOK
    <2>2. /\ \A q \in Requests : q # r => pc'[q] = pc[q]
          /\ pc'[r] = "pushed"
      BY <1>1 DEF Goto, TypeInv, TypeOK
    <2>3. /\ Fresh(r) /\ ~Fresh(r)' /\ ~Gone(r)
          /\ \A x \in Actors : note[x].cb # r
      BY <1>1, <2>2 DEF Fresh, OnceInv, GoneInv, HeldInv
    <2>4. \A q \in Requests : Fresh(q)' => Fresh(q)
      BY <2>2 DEF Fresh
    <2>5. \A q \in Requests : Gone(q)' <=> Gone(q)
      BY <1>1 DEF Gone
    <2>6. InMapInv'
      BY <1>1, <2>1, <2>3, <2>4, <2>5 DEF OnceInv, InMapInv
    <2>7. HeldInv'
      BY <1>1, <2>4, <2>5 DEF OnceInv, HeldInv
    <2>8. NotesInv' /\ GoneInv'
      BY <1>1, <2>2, <2>4, <2>5 DEF OnceInv, NotesInv, GoneInv
    <2>9. QED
      BY <2>6, <2>7, <2>8 DEF OnceInv
  <1>4. QED
    BY <1>2, <1>3

LEMMA PopCallbackLeaves ==
    ASSUME TypeInv, NEW m \in Missions, PopCallback(m)
    PROVE  /\ callbackMap'[m] = None
           /\ \A n \in Missions \ {m} : callbackMap'[n] = callbackMap[n]
  <1>1. CASE callbackMap[m] # None
    BY <1>1 DEF PopCallback, TypeInv, TypeOK
  <1>2. CASE callbackMap[m] = None
    BY <1>2 DEF PopCallback, tables
  <1>3. QED
    BY <1>1, <1>2

(* The callback of another request may go with one that is taken back. *)
LEMMA PopsOnceInv ==
    ASSUME TypeInv, OnceInv, NEW r \in Requests, PopsCallback(r)
    PROVE  OnceInv'
  <1> DEFINE m == MissionOf[r]
             q == callbackMap[m]
  <1>1. /\ m \in Missions /\ PopCallback(m) /\ UNCHANGED <<note, told>>
        /\ pc[r] = "undoPop" /\ Goto(r, "failed")
        /\ dropped' = dropped \cup ({q} \ {None})
    BY ContinuationAssumption DEF PopsCallback
  <1>2. /\ callbackMap'[m] = None
        /\ \A n \in Missions \ {m} : callbackMap'[n] = callbackMap[n]
    BY <1>1, PopCallbackLeaves
  <1>3. \A p \in Requests : Fresh(p)' <=> Fresh(p)
    BY <1>1 DEF Fresh, Goto, TypeInv, TypeOK
  <1>4. \A p \in Requests : Gone(p)' <=> Gone(p) \/ p = q
    BY <1>1, NotNone DEF Gone
  <1>5. InMapInv'
    <2>1. \A n \in Missions, p \in Requests : callbackMap'[n] = p =>
             n # m /\ callbackMap[n] = p /\ p # q
      BY <1>1, <1>2, NotNone DEF OnceInv, InMapInv
    <2>2. QED
      BY <1>1, <1>3, <1>4, <2>1 DEF OnceInv, InMapInv
  <1>6. HeldInv'
    <2>1. \A x \in Actors, p \in Requests : note[x].cb = p => p # q
      BY <1>1 DEF OnceInv, InMapInv
    <2>2. QED
      BY <1>1, <1>3, <1>4, <2>1 DEF OnceInv, HeldInv
  <1>7. NotesInv'
    BY <1>1 DEF OnceInv, NotesInv, Goto, TypeInv, TypeOK
  <1>8. GoneInv'
    <2>1. \A p \in Requests : p = q => ~Fresh(p) /\ told[p] = << >>
      BY <1>1 DEF OnceInv, InMapInv, Gone
    <2>2. QED
      BY <1>1, <1>3, <1>4, <2>1 DEF OnceInv, GoneInv
  <1>9. QED
    BY <1>5, <1>6, <1>7, <1>8 DEF OnceInv

LEMMA RequestOnceInv ==
    ASSUME TypeInv, OnceInv, NEW r \in Requests, ContinueLocalMission(r) \/ RequestStep(r)
    PROVE  OnceInv'
  <1>1. CASE PushesCallback(r)
    BY <1>1, PushesOnceInv
  <1>2. CASE PopsCallback(r)
    BY <1>2, PopsOnceInv
  <1>3. CASE ~PushesCallback(r) /\ ~PopsCallback(r)
    <2>1. UNCHANGED <<callbackMap, told, dropped, note>>
      BY <1>3 DEF ContinueLocalMission, RequestStep, CheckRemoteBundleInfo,
             SetContinuationTimeout, ContinueAbility, CheckIfRemoteCanInstall,
             RemoveContinuationTimeout, GetContinuationDevice,
             SetsInstallationTimeout, ContinueAbilityWithFreeInstall,
             StartContinuationSetsTimeOut, StartsRemote, tables, history
    <2>2. pc[r] \notin {"late", "over"}
      BY <1>3 DEF ContinueLocalMission, RequestStep, CheckRemoteBundleInfo,
             SetContinuationTimeout, ContinueAbility, CheckIfRemoteCanInstall,
             RemoveContinuationTimeout, GetContinuationDevice,
             SetsInstallationTimeout, ContinueAbilityWithFreeInstall,
             StartContinuationSetsTimeOut, StartsRemote
    <2>3. \E st \in States :
             Goto(r, st) /\ (st \in {"new", "checked", "toPush"} => Fresh(r))
      BY <1>3 DEF ContinueLocalMission, RequestStep, CheckRemoteBundleInfo,
             SetContinuationTimeout, ContinueAbility, CheckIfRemoteCanInstall,
             RemoveContinuationTimeout, GetContinuationDevice,
             SetsInstallationTimeout, ContinueAbilityWithFreeInstall,
             StartContinuationSetsTimeOut, StartsRemote, Fresh,
             States, InThread, InCall, Outside
    <2>4. QED
      BY <2>1, <2>2, <2>3, GotoOnceInv
  <1>4. QED
    BY <1>1, <1>2, <1>3

(* A thread that begins to tell holds no callback; nor did it, when it was idle. *)
LEMMA BecomesNotes ==
    ASSUME TypeInv, NEW x \in Actors, NEW n \in Note, Becomes(x, n)
    PROVE  note'[x] = n /\ \A y \in Actors : y # x => note'[y] = note[y]
  BY DEF TypeInv, TypeOK, Becomes

LEMMA AnswerOnceInv ==
    ASSUME TypeInv, OnceInv, NEW r \in Requests,
           \/ OnQueryInstallationFinished(r) \/ StartContinuation(r)
           \/ NotifyCompleteFreeInstallFromRemote(r) \/ NotifyContinuationResultFromRemote(r)
    PROVE  OnceInv'
  <1> DEFINE m == MissionOf[r]
  <1>1. m \in Missions /\ r \in Actors
    BY ContinuationAssumption DEF Actors
  <1>2. UNCHANGED <<callbackMap, told, dropped>>
    BY DEF OnQueryInstallationFinished, StartContinuation, NotifyCompleteFreeInstallFromRemote,
           NotifyContinuationResultFromRemote, tables, history
  <1>3. note[r].st = "idle" /\ ~Fresh(r)
    BY DEF OnQueryInstallationFinished, StartContinuation, NotifyCompleteFreeInstallFromRemote,
           NotifyContinuationResultFromRemote, OnceInv, NotesInv, Fresh
  <1>4. \/ \E st \in {"queried", "over", "started", "unarmed"} : Goto(r, st) /\ note' = note
        \/ \E res \in Results, st \in {"over", "late"} : Goto(r, st) /\ Enters(r, m, res)
    BY DEF OnQueryInstallationFinished, StartContinuation, NotifyCompleteFreeInstallFromRemote,
           NotifyContinuationResultFromRemote, ResultCode, Results
  <1>5. CASE \E st \in {"queried", "over", "started", "unarmed"} : Goto(r, st) /\ note' = note
    <2>1. PICK st \in {"queried", "over", "started", "unarmed"} : Goto(r, st) /\ note' = note
      BY <1>5
    <2>2. /\ \A q \in Requests : q # r => pc'[q] = pc[q]
          /\ pc'[r] = st
      BY <2>1 DEF Goto, TypeInv, TypeOK
    <2>3. \A q \in Requests : Fresh(q)' => Fresh(q)
      BY <2>2 DEF Fresh
    <2>4. NotesInv'
      BY <1>3, <2>1, <2>2 DEF OnceInv, NotesInv
    <2>5. QED
      BY <1>2, <2>1, <2>3, <2>4, PlacesKept
  <1>6. CASE \E res \in Results, st \in {"over", "late"} : Goto(r, st) /\ Enters(r, m, res)
    <2>1. PICK res \in Results, st \in {"over", "late"} : Goto(r, st) /\ Enters(r, m, res)
      BY <1>6
    <2>2. /\ \A q \in Requests : q # r => pc'[q] = pc[q]
          /\ pc'[r] = st
      BY <2>1 DEF Goto, TypeInv, TypeOK
    <2>3. Notification(m, res) \in Note
      BY <1>1, NoteType
    <2>4. /\ note'[r].cb = None
          /\ \A y \in Actors : y # r => note'[y] = note[y]
      BY <1>1, <2>1, <2>3, BecomesNotes DEF Enters, Notification
    <2>5. \A q \in Requests : Fresh(q)' => Fresh(q)
      BY <2>2 DEF Fresh
    <2>6. NotesInv'
      BY <2>2, <2>4 DEF OnceInv, NotesInv, Actors
    <2>7. QED
      BY <1>2, <2>4, <2>5, <2>6, PlacesKept
  <1>7. QED
    BY <1>4, <1>5, <1>6

LEMMA TimeoutOnceInv ==
    ASSUME TypeInv, OnceInv, NEW m \in Missions, ContinuationTimeout(m)
    PROVE  OnceInv'
  <1>1. Handler \in Actors /\ Handler \notin Requests
    BY ContinuationAssumption DEF Actors
  <1>2. Notification(m, "failed") \in Note
    BY NoteType DEF Results
  <1>3. /\ note'[Handler].cb = None
        /\ \A y \in Actors : y # Handler => note'[y] = note[y]
    BY <1>1, <1>2, BecomesNotes DEF ContinuationTimeout, Enters, Notification
  <1>4. UNCHANGED <<callbackMap, told, dropped, pc>>
    BY DEF ContinuationTimeout, tables, history
  <1>5. NotesInv'
    BY <1>1, <1>3, <1>4 DEF OnceInv, NotesInv, Actors
  <1>6. QED
    BY <1>3, <1>4, <1>5, PlacesKept DEF Fresh

(* A thread takes the callback out of the map: it is the only one to hold it. *)
LEMMA PopsToTellOnceInv ==
    ASSUME TypeInv, OnceInv, NEW x \in Actors, PopsCallbackToTell(x)
    PROVE  OnceInv'
  <1> DEFINE m == note[x].m
             q == callbackMap[m]
  <1>1. note[x].st = "toPop" /\ note[x] \in Note /\ m \in Missions /\ q \in Requests \cup {None}
    BY DEF PopsCallbackToTell, TypeInv, TypeOK
  <1>2. UNCHANGED <<pc, told, dropped>> /\ PopCallback(m)
    BY DEF PopsCallbackToTell, history
  <1>3. /\ callbackMap'[m] = None
        /\ \A n \in Missions \ {m} : callbackMap'[n] = callbackMap[n]
    BY <1>1, <1>2, PopCallbackLeaves
  <1>4. /\ note'[x].cb = q /\ note'[x].st = "popped"
        /\ \A y \in Actors : y # x => note'[y] = note[y]
    <2>1. Holding(note[x], q) \in Note
      BY <1>1, NoteType
    <2>2. QED
      BY <2>1, BecomesNotes DEF PopsCallbackToTell, Holding
  <1>5. \A r \in Requests : r = q =>
           ~Fresh(r) /\ ~Gone(r) /\ \A y \in Actors : note[y].cb # r
    BY <1>1 DEF OnceInv, InMapInv
  <1>6. InMapInv'
    <2>1. \A n \in Missions, r \in Requests : callbackMap'[n] = r =>
             n # m /\ callbackMap[n] = r /\ r # q
      BY <1>1, <1>3, NotNone DEF OnceInv, InMapInv
    <2>2. QED
      BY <1>2, <1>4, <2>1 DEF OnceInv, InMapInv, Fresh, Gone
  <1>7. HeldInv'
    <2>1. ASSUME NEW y \in Actors, NEW r \in Requests, note'[y].cb = r
          PROVE  /\ ~Fresh(r) /\ ~Gone(r)
                 /\ \A z \in Actors : note'[z].cb = r => z = y
      <3>1. CASE y = x
        BY <1>4, <1>5, <2>1, <3>1
      <3>2. CASE y # x
        <4>1. note[y].cb = r
          BY <1>4, <2>1, <3>2
        <4>2. r # q
          BY <1>5, <4>1
        <4>3. QED
          BY <1>4, <4>1, <4>2 DEF OnceInv, HeldInv
      <3>3. QED
        BY <3>1, <3>2
    <2>2. QED
      BY <1>2, <2>1 DEF HeldInv, Fresh, Gone
  <1>8. NotesInv'
    BY <1>1, <1>2, <1>4 DEF OnceInv, NotesInv, Actors
  <1>9. GoneInv'
    BY <1>2 DEF OnceInv, GoneInv, Gone, Fresh
  <1>10. QED
    BY <1>6, <1>7, <1>8, <1>9 DEF OnceInv

LEMMA TellsOnceInv ==
    ASSUME TypeInv, OnceInv, NEW x \in Actors, TellsCallback(x)
    PROVE  OnceInv'
  <1>1. note[x] \in Note /\ note[x].st = "toTell"
    BY DEF TellsCallback, TypeInv, TypeOK
  <1>2. /\ note'[x] = NoNote
        /\ \A y \in Actors : y # x => note'[y] = note[y]
    BY BecomesNotes, NoteType DEF TellsCallback
  <1>3. UNCHANGED <<callbackMap, pc, dropped>>
    BY DEF TellsCallback, tables
  <1>4. /\ \A r \in Requests : r # note[x].cb => told'[r] = told[r]
        /\ \A r \in Requests : r = note[x].cb => told'[r] = Append(told[r], note[x].res)
    BY DEF TellsCallback
  <1>5. \A r \in Requests : r = note[x].cb => ~Fresh(r) /\ ~Gone(r)
    BY DEF OnceInv, HeldInv
  <1>6. \A r \in Requests : Gone(r)' => Gone(r) \/ r = note[x].cb
    BY <1>3, <1>4 DEF Gone
  <1>7. InMapInv'
    <2>1. \A m \in Missions, r \in Requests : callbackMap[m] = r => r # note[x].cb
      BY DEF OnceInv, InMapInv
    <2>2. \A y \in Actors, r \in Requests : note'[y].cb = r => note[y].cb = r
      BY <1>2, NotNone DEF NoNote
    <2>3. QED
      BY <1>3, <1>6, <2>1, <2>2 DEF OnceInv, InMapInv, Fresh
  <1>8. HeldInv'
    <2>1. \A y \in Actors, r \in Requests : note'[y].cb = r =>
             note[y].cb = r /\ r # note[x].cb
      BY <1>2, NotNone DEF NoNote, OnceInv, HeldInv
    <2>2. QED
      BY <1>3, <1>6, <2>1 DEF OnceInv, HeldInv, Fresh
  <1>9. NotesInv'
    BY <1>1, <1>2, <1>3 DEF OnceInv, NotesInv, NoNote, Actors
  <1>10. GoneInv'
    <2>1. \A r \in Requests : r = note[x].cb => Len(told'[r]) = 1 /\ r \notin dropped
      <3>1. SUFFICES ASSUME NEW r \in Requests, r = note[x].cb
                     PROVE  Len(told'[r]) = 1 /\ r \notin dropped
        OBVIOUS
      <3>2. /\ told[r] = << >> /\ r \notin dropped
            /\ told'[r] = Append(told[r], note[x].res)
        BY <1>4, <1>5, <3>1 DEF Gone
      <3>3. told[r] \in Seq(Results) /\ note[x].res \in Results
        BY <1>1 DEF Note, TypeInv, TypeOK
      <3>4. Len(told'[r]) = Len(told[r]) + 1
        BY <3>2, <3>3, AppendProperties
      <3>5. Len(told[r]) = 0
        BY <3>2
      <3>6. QED
        BY <3>2, <3>4, <3>5
    <2>2. QED
      BY <1>3, <1>4, <1>5, <1>6, <2>1 DEF OnceInv, GoneInv, Fresh
  <1>11. QED
    BY <1>7, <1>8, <1>9, <1>10 DEF OnceInv

LEMMA NotifyOnceInv ==
    ASSUME TypeInv, OnceInv, NEW x \in Actors, NotifyStep(x)
    PROVE  OnceInv'
  <1>1. CASE PopsCallbackToTell(x)
    BY <1>1, PopsToTellOnceInv
  <1>2. CASE TellsCallback(x)
    BY <1>2, TellsOnceInv
  <1>3. CASE IsInProgress(x) \/ CleanMission(x) \/ RemovesTimeOut(x) \/ NotifyAms(x)
    <2>1. UNCHANGED <<callbackMap, pc, told, dropped>>
      BY <1>3 DEF IsInProgress, CleanMission, RemovesTimeOut, NotifyAms, tables, history
    <2>2. PICK n \in Note :
             /\ Becomes(x, n)
             /\ n.cb \in {None, note[x].cb}
             /\ n.cb # None => n.st \in {"popped", "toTell"}
             /\ note[x].st = "idle" => n.st = "idle"
      <3>1. note[x] \in Note /\ note[x].st # "idle"
        BY <1>3 DEF IsInProgress, CleanMission, RemovesTimeOut, NotifyAms, TypeInv, TypeOK
      <3>2. CASE IsInProgress(x) \/ CleanMission(x)
        <4>1. note[x].cb = None
          BY <3>2 DEF IsInProgress, CleanMission, OnceInv, NotesInv
        <4>2. PICK st \in {"found", "notFound", "toPop"} : Becomes(x, At(note[x], st))
          BY <3>2 DEF IsInProgress, CleanMission, Advance
        <4>3. At(note[x], st) \in Note /\ At(note[x], st).cb = None
          BY <3>1, <4>1, NoteType DEF At
        <4>4. QED
          BY <3>1, <4>2, <4>3
      <3>3. CASE RemovesTimeOut(x)
        <4>1. At(note[x], "toTell") \in Note
          BY <3>1, NoteType
        <4>2. QED
          BY <3>1, <3>3, <4>1 DEF RemovesTimeOut, Advance, At
      <3>4. CASE NotifyAms(x)
        BY <3>4, NoteType DEF NotifyAms, NoNote
      <3>5. QED
        BY <1>3, <3>2, <3>3, <3>4
    <2>3. note'[x] = n /\ \A y \in Actors : y # x => note'[y] = note[y]
      BY <2>2, BecomesNotes
    <2>4. NotesInv'
      BY <2>1, <2>2, <2>3 DEF OnceInv, NotesInv, Actors
    <2>5. QED
      BY <2>1, <2>2, <2>3, <2>4, PlacesKept DEF Fresh
  <1>4. QED
    BY <1>1, <1>2, <1>3 DEF NotifyStep

LEMMA NextOnceInv ==
    ASSUME TypeInv, OnceInv, [Next]_vars
    PROVE  OnceInv'
  <1>1. CASE UNCHANGED vars
    BY <1>1, PlacesKept DEF vars, tables, history, Fresh, OnceInv, NotesInv
  <1>2. CASE Next
    BY <1>2, RequestOnceInv, AnswerOnceInv, TimeoutOnceInv, NotifyOnceInv DEF Next
  <1>3. QED
    BY <1>1, <1>2

LEMMA AlwaysOnceInv == Spec => [](TypeInv /\ OnceInv)
  <1>1. Init => OnceInv
    BY NotNone DEF Init, OnceInv, NotesInv, InMapInv, HeldInv, GoneInv, Gone, Fresh, NoNote, Actors
  <1>2. QED
    BY AlwaysTypeInv, <1>1, NextOnceInv, PTL DEF Spec

(* No callback is told twice, nor told and taken back, for any number of requests of a   *)
(* mission whose answers, refusals and timeouts race for its entry in callbackMap.        *)
THEOREM ToldOnceCorrect == Spec => []ToldOnce
  <1>1. TypeInv /\ OnceInv => ToldOnce
    <2>1. SUFFICES ASSUME TypeInv, OnceInv, NEW r \in Requests
                   PROVE  /\ Len(told[r]) + Cardinality(BeingTold(r)) <= 1
                          /\ callbackMap[MissionOf[r]] = r \/ r \in dropped =>
                                told[r] = << >> /\ BeingTold(r) = {}
      BY DEF ToldOnce
    <2>2. told[r] \in Seq(Results) /\ MissionOf[r] \in Missions
      BY <2>1, ContinuationAssumption DEF TypeInv, TypeOK
    <2>3. CASE BeingTold(r) = {}
      <3>1. Cardinality(BeingTold(r)) = 0
        BY <2>3, FS_EmptySet
      <3>2. told[r] = << >> \/ Len(told[r]) = 1
        BY <2>1 DEF OnceInv, GoneInv
      <3>3. Len(told[r]) + Cardinality(BeingTold(r)) <= 1
        <4>1. Len(told[r]) \in {0, 1}
          BY <3>2, Len(<< >>) = 0
        <4>2. \A a \in {0, 1}, b \in {0} : a + b <= 1
          OBVIOUS
        <4>3. QED
          BY <3>1, <4>1, <4>2
      <3>4. QED
        BY <2>1, <2>2, <2>3, <3>3 DEF OnceInv, InMapInv, GoneInv, Gone
    <2>4. CASE BeingTold(r) # {}
      <3>1. PICK x \in Actors : note[x].cb = r
        BY <2>4 DEF BeingTold
      <3>2. told[r] = << >> /\ r \notin dropped /\ BeingTold(r) = {x}
        BY <2>1, <3>1 DEF OnceInv, HeldInv, Gone, BeingTold
      <3>3. Cardinality(BeingTold(r)) = 1
        BY <3>2, FS_Singleton
      <3>4. callbackMap[MissionOf[r]] # r
        BY <2>1, <2>2, <3>1 DEF OnceInv, InMapInv
      <3>5. QED
        BY <3>2, <3>3, <3>4
    <2>5. QED
      BY <2>3, <2>4
  <1>2. QED
    BY <1>1, AlwaysOnceInv, PTL

-----------------------------------------------------------------------------
(* The three maps. *)

OneRequest(m) ==
    LET r == callbackMap[m]
    IN  IF r = None THEN continuationDevices[m] = None /\ ~freeInstall[m]
        ELSE continuationDevices[m] = DeviceOf[r] /\ (freeInstall[m] <=> lacking[r])
TablesInv == \A m \in Missions : OneRequest(m)

LEMMA PopsTables ==
    ASSUME TypeInv, TablesInv, NEW m \in Missions, PopCallback(m), UNCHANGED lacking
    PROVE  TablesInv'
  <1>1. CASE callbackMap[m] = None
    BY <1>1 DEF PopCallback, tables, TablesInv, OneRequest
  <1>2. CASE callbackMap[m] # None
    <2>1. /\ callbackMap'[m] = None /\ continuationDevices'[m] = None /\ ~freeInstall'[m]
          /\ \A n \in Missions \ {m} :
                /\ callbackMap'[n] = callbackMap[n]
                /\ continuationDevices'[n] = continuationDevices[n]
                /\ freeInstall'[n] = freeInstall[n]
      BY <1>2 DEF PopCallback, TypeInv, TypeOK
    <2>2. OneRequest(m)'
      BY <2>1 DEF OneRequest
    <2>3. \A n \in Missions \ {m} : OneRequest(n)'
      BY <2>1 DEF TablesInv, OneRequest
    <2>4. QED
      BY <2>2, <2>3 DEF TablesInv
  <1>3. QED
    BY <1>1, <1>2

LEMMA PushesTables ==
    ASSUME TypeInv, TablesInv, NEW r \in Requests, PushesCallback(r)
    PROVE  TablesInv'
  <1> DEFINE m == MissionOf[r]
  <1>1. m \in Missions /\ DeviceOf[r] \in Devices
    BY ContinuationAssumption
  <1>2. lacking' = lacking /\ PushCallback(m, r, lacking[r])
    BY DEF PushesCallback
  <1>3. CASE callbackMap[m] # None
    BY <1>2, <1>3 DEF PushCallback, tables, TablesInv, OneRequest
  <1>4. CASE callbackMap[m] = None
    <2>1. continuationDevices[m] = None /\ ~freeInstall[m]
      BY <1>1, <1>4 DEF TablesInv, OneRequest
    <2>2. callbackMap'[m] = r /\ \A n \in Missions \ {m} : callbackMap'[n] = callbackMap[n]
      BY <1>1, <1>2, <1>4 DEF PushCallback, TypeInv, TypeOK
    <2>3. /\ continuationDevices'[m] = DeviceOf[r]
          /\ \A n \in Missions \ {m} : continuationDevices'[n] = continuationDevices[n]
      BY <1>1, <1>2, <1>4, <2>1 DEF PushCallback, TypeInv, TypeOK
    <2>4. /\ freeInstall'[m] = (freeInstall[m] \/ lacking[r])
          /\ \A n \in Missions \ {m} : freeInstall'[n] = freeInstall[n]
      BY <1>1, <1>2, <1>4, Zenon DEF PushCallback, TypeInv, TypeOK
    <2>5. OneRequest(m)'
      BY <1>2, <2>1, <2>2, <2>3, <2>4, NotNone DEF OneRequest
    <2>6. \A n \in Missions \ {m} : OneRequest(n)'
      BY <1>2, <2>2, <2>3, <2>4 DEF TablesInv, OneRequest
    <2>7. QED
      BY <2>5, <2>6 DEF TablesInv
  <1>5. QED
    BY <1>3, <1>4

(* Whether the application is lacking is decided before the callback is pushed. *)
LEMMA ChecksTables ==
    ASSUME TypeInv, OnceInv, TablesInv, NEW r \in Requests, CheckRemoteBundleInfo(r)
    PROVE  TablesInv'
  <1>1. UNCHANGED tables /\ Fresh(r) /\ \A q \in Requests : q # r => lacking'[q] = lacking[q]
    BY DEF CheckRemoteBundleInfo, Fresh, TypeInv, TypeOK
  <1>2. \A m \in Missions : callbackMap[m] \in Requests \ {r} \/ callbackMap[m] = None
    BY <1>1 DEF OnceInv, InMapInv, TypeInv, TypeOK
  <1>3. QED
    BY <1>1, <1>2 DEF TablesInv, OneRequest, tables

LEMMA NextTablesInv ==
    ASSUME TypeInv, OnceInv, TablesInv, [Next]_vars
    PROVE  TablesInv'
  <1>1. \/ UNCHANGED <<tables, lacking>>
        \/ \E m \in Missions : PopCallback(m) /\ UNCHANGED lacking
        \/ \E r \in Requests : PushesCallback(r) \/ CheckRemoteBundleInfo(r)
    <2>1. CASE UNCHANGED vars
      BY <2>1 DEF vars
    <2>2. ASSUME NEW r \in Requests, ContinueLocalMission(r) \/ RequestStep(r)
          PROVE  <1>1
      BY <2>2, ContinuationAssumption
      DEF ContinueLocalMission, RequestStep, SetContinuationTimeout, ContinueAbility,
          CheckIfRemoteCanInstall, RemoveContinuationTimeout, PopsCallback, GetContinuationDevice,
          SetsInstallationTimeout, ContinueAbilityWithFreeInstall, StartContinuationSetsTimeOut,
          StartsRemote
    <2>3. ASSUME NEW r \in Requests,
                 \/ OnQueryInstallationFinished(r) \/ StartContinuation(r)
                 \/ NotifyCompleteFreeInstallFromRemote(r) \/ NotifyContinuationResultFromRemote(r)
          PROVE  <1>1
      BY <2>3 DEF OnQueryInstallationFinished, StartContinuation,
                  NotifyCompleteFreeInstallFromRemote, NotifyContinuationResultFromRemote
    <2>4. ASSUME NEW m \in Missions, ContinuationTimeout(m)
          PROVE  <1>1
      BY <2>4 DEF ContinuationTimeout
    <2>5. ASSUME NEW x \in Actors, NotifyStep(x)
          PROVE  <1>1
      <3>1. note[x].st # "idle"
        BY <2>5 DEF NotifyStep, IsInProgress, CleanMission, PopsCallbackToTell, RemovesTimeOut,
                    TellsCallback, NotifyAms
      <3>2. note[x].m \in Missions
        BY <3>1 DEF TypeInv
      <3>3. QED
        BY <2>5, <3>2 DEF NotifyStep, IsInProgress, CleanMission, PopsCallbackToTell,
                          RemovesTimeOut, TellsCallback, NotifyAms
    <2>6. QED
      BY <2>1, <2>2, <2>3, <2>4, <2>5 DEF Next
  <1>2. CASE UNCHANGED <<tables, lacking>>
    BY <1>2 DEF TablesInv, OneRequest, tables
  <1>3. QED
    BY <1>1, <1>2, PopsTables, PushesTables, ChecksTables

(* The three maps speak of one request, whatever races: no device and no free install    *)
(* flag of an earlier request is left for the next.                                       *)
THEOREM TablesCorrect == Spec => []TablesOfOneRequest
  <1>1. Init => TablesInv
    BY DEF Init, TablesInv, OneRequest
  <1>2. TypeInv /\ TablesInv => TablesOfOneRequest
    BY DEF TypeInv, TablesInv, OneRequest, TablesOfOneRequest
  <1>3. QED
    BY <1>1, <1>2, AlwaysOnceInv, NextTablesInv, PTL DEF Spec

-----------------------------------------------------------------------------
(* The mission. *)

Reported(m) == \E r \in Requests : MissionOf[r] = m /\ answer[r] = "ok"

(* An answer is given once; a success that is passed on, or was, was reported. *)
CleanedInv ==
    /\ \A r \in Requests : answer[r] # "none" => pc[r] = "over"
    /\ \A x \in Actors, m \in Missions :
          note[x].m = m /\ note[x].res = "ok" => Reported(m)
    /\ CleanedOnlyAfterSuccess

LEMMA CleanedKept ==
    ASSUME CleanedInv, UNCHANGED <<answer, cleaned>>,
           \A r \in Requests : pc[r] = "over" => pc'[r] = "over",
           \A x \in Actors : note'[x].res = "ok" =>
              note[x].res = "ok" /\ note'[x].m = note[x].m
    PROVE  CleanedInv'
  BY DEF CleanedInv, CleanedOnlyAfterSuccess, Reported

LEMMA AnswerCleanedInv ==
    ASSUME TypeInv, CleanedInv, NEW r \in Requests, NotifyContinuationResultFromRemote(r)
    PROVE  CleanedInv'
  <1>1. PICK isSuccess \in BOOLEAN :
           /\ answer' = [answer EXCEPT ![r] = IF isSuccess THEN "ok" ELSE "failed"]
           /\ Enters(r, MissionOf[r], ResultCode(isSuccess))
    BY DEF NotifyContinuationResultFromRemote
  <1>2. /\ pc[r] \in {"remote", "late"} /\ Goto(r, "over") /\ cleaned' = cleaned
        /\ r \in Actors /\ MissionOf[r] \in Missions
    BY ContinuationAssumption DEF NotifyContinuationResultFromRemote, Actors
  <1>3. /\ pc'[r] = "over"
        /\ \A q \in Requests : q # r => pc'[q] = pc[q]
    BY <1>2 DEF Goto, TypeInv, TypeOK
  <1>4. /\ answer[r] = "none"
        /\ answer'[r] = ResultCode(isSuccess)
        /\ \A q \in Requests : q # r => answer'[q] = answer[q]
    BY <1>1, <1>2 DEF CleanedInv, ResultCode, TypeInv, TypeOK
  <1>5. /\ note'[r].m = MissionOf[r] /\ note'[r].res = ResultCode(isSuccess)
        /\ \A y \in Actors : y # r => note'[y] = note[y]
    <2>1. Notification(MissionOf[r], ResultCode(isSuccess)) \in Note
      BY <1>2, NoteType DEF ResultCode, Results
    <2>2. QED
      BY <1>1, <1>2, <2>1, BecomesNotes DEF Enters, Notification
  <1>6. ASSUME NEW x \in Actors, NEW m \in Missions, note'[x].m = m, note'[x].res = "ok"
        PROVE  Reported(m)'
    <2>1. CASE x = r
      BY <1>4, <1>5, <1>6, <2>1 DEF Reported
    <2>2. CASE x # r
      <3>1. Reported(m)
        BY <1>5, <1>6, <2>2 DEF CleanedInv
      <3>2. QED
        BY <1>4, <3>1 DEF Reported
    <2>3. QED
      BY <2>1, <2>2
  <1>7. CleanedOnlyAfterSuccess'
    BY <1>2, <1>4 DEF CleanedInv, CleanedOnlyAfterSuccess
  <1>8. \A q \in Requests : answer'[q] # "none" => pc'[q] = "over"
    BY <1>3, <1>4 DEF CleanedInv
  <1>9. QED
    BY <1>6, <1>7, <1>8 DEF CleanedInv

LEMMA CleansCleanedInv ==
    ASSUME TypeInv, CleanedInv, NEW x \in Actors, CleanMission(x)
    PROVE  CleanedInv'
  <1> DEFINE m == note[x].m
  <1>1. /\ note[x] \in Note /\ m \in Missions /\ UNCHANGED <<pc, answer>>
        /\ cleaned' = cleaned \/ (note[x].res = "ok" /\ cleaned' = cleaned \cup {m})
    BY DEF CleanMission, Cleans, TypeInv, TypeOK
  <1>2. /\ note'[x].m = m /\ note'[x].res = note[x].res
        /\ \A y \in Actors : y # x => note'[y] = note[y]
    <2>1. At(note[x], "toPop") \in Note
      BY <1>1, NoteType
    <2>2. QED
      BY <2>1, BecomesNotes DEF CleanMission, Advance, At
  <1>3. note[x].res = "ok" => Reported(m)
    BY <1>1 DEF CleanedInv
  <1>4. CleanedOnlyAfterSuccess'
    BY <1>1, <1>3 DEF CleanedInv, CleanedOnlyAfterSuccess, Reported
  <1>5. QED
    BY <1>1, <1>2, <1>4 DEF CleanedInv, Reported

LEMMA NextCleanedInv ==
    ASSUME TypeInv, CleanedInv, [Next]_vars
    PROVE  CleanedInv'
  <1>1. CASE UNCHANGED vars
    BY <1>1, CleanedKept DEF vars, history
  <1>2. ASSUME NEW r \in Requests, ContinueLocalMission(r) \/ RequestStep(r)
        PROVE  CleanedInv'
    <2>1. UNCHANGED <<answer, cleaned, note>> /\ pc[r] # "over" /\ \E st \in States : Goto(r, st)
      BY <1>2
      DEF ContinueLocalMission, RequestStep, CheckRemoteBundleInfo, PushesCallback,
          SetContinuationTimeout, ContinueAbility, CheckIfRemoteCanInstall,
          RemoveContinuationTimeout, PopsCallback, GetContinuationDevice,
          SetsInstallationTimeout, ContinueAbilityWithFreeInstall, StartContinuationSetsTimeOut,
          StartsRemote, history, States, InThread, InCall, Outside
    <2>2. \A q \in Requests : pc[q] = "over" => pc'[q] = "over"
      BY <2>1 DEF Goto, TypeInv, TypeOK
    <2>3. QED
      BY <2>1, <2>2, CleanedKept
  <1>3. ASSUME NEW r \in Requests,
               \/ OnQueryInstallationFinished(r) \/ StartContinuation(r)
               \/ NotifyCompleteFreeInstallFromRemote(r)
        PROVE  CleanedInv'
    <2>1. /\ UNCHANGED <<answer, cleaned>> /\ pc[r] # "over" /\ \E st \in States : Goto(r, st)
          /\ note' = note \/ Enters(r, MissionOf[r], "failed")
      BY <1>3 DEF OnQueryInstallationFinished, StartContinuation,
                  NotifyCompleteFreeInstallFromRemote, history, States, InThread, InCall, Outside
    <2>2. \A q \in Requests : pc[q] = "over" => pc'[q] = "over"
      BY <2>1 DEF Goto, TypeInv, TypeOK
    <2>3. Notification(MissionOf[r], "failed") \in Note /\ r \in Actors
      BY NoteType, ContinuationAssumption DEF Results, Actors
    <2>4. \A x \in Actors : note'[x].res = "ok" => note[x].res = "ok" /\ note'[x].m = note[x].m
      BY <2>1, <2>3, BecomesNotes DEF Enters, Notification
    <2>5. QED
      BY <2>1, <2>2, <2>4, CleanedKept
  <1>4. ASSUME NEW m \in Missions, ContinuationTimeout(m)
        PROVE  CleanedInv'
    <2>1. UNCHANGED <<answer, cleaned, pc>> /\ Enters(Handler, m, "failed")
      BY <1>4 DEF ContinuationTimeout, history
    <2>2. Notification(m, "failed") \in Note /\ Handler \in Actors
      BY NoteType DEF Results, Actors
    <2>3. \A x \in Actors : note'[x].res = "ok" => note[x].res = "ok" /\ note'[x].m = note[x].m
      BY <2>1, <2>2, BecomesNotes DEF Enters, Notification
    <2>4. QED
      BY <2>1, <2>3, CleanedKept
  <1>5. ASSUME NEW x \in Actors, NotifyStep(x), ~CleanMission(x)
        PROVE  CleanedInv'
    <2>1. note[x] \in Note /\ note[x].m \in Missions
      BY <1>5 DEF NotifyStep, IsInProgress, PopsCallbackToTell, RemovesTimeOut, TellsCallback,
                  NotifyAms, TypeInv, TypeOK
    <2>2. UNCHANGED <<answer, cleaned, pc>>
      BY <1>5 DEF NotifyStep, IsInProgress, PopsCallbackToTell, RemovesTimeOut, TellsCallback,
                  NotifyAms, history
    <2>3. PICK n \in Note : Becomes(x, n) /\ (n.res = "ok" => note[x].res = "ok" /\ n.m = note[x].m)
      <3>1. CASE \E st \in {"found", "notFound", "toTell"} : Advance(x, st)
        <4>1. PICK st \in {"found", "notFound", "toTell"} : Advance(x, st)
          BY <3>1
        <4>2. At(note[x], st) \in Note
          BY <2>1, NoteType
        <4>3. QED
          BY <4>1, <4>2 DEF Advance, At
      <3>2. CASE PopsCallbackToTell(x)
        <4>1. callbackMap[note[x].m] \in Requests \cup {None}
          BY <2>1 DEF TypeInv, TypeOK
        <4>2. Holding(note[x], callbackMap[note[x].m]) \in Note
          BY <2>1, <4>1, NoteType
        <4>3. QED
          BY <3>2, <4>2 DEF PopsCallbackToTell, Holding
      <3>3. CASE Becomes(x, NoNote)
        BY <3>3, NoteType DEF NoNote
      <3>4. QED
        BY <1>5, <3>1, <3>2, <3>3 DEF NotifyStep, IsInProgress, RemovesTimeOut, TellsCallback,
                                      NotifyAms
    <2>4. \A y \in Actors : note'[y].res = "ok" => note[y].res = "ok" /\ note'[y].m = note[y].m
      BY <2>3, BecomesNotes
    <2>5. QED
      BY <2>2, <2>4, CleanedKept
  <1>6. QED
    BY <1>1, <1>2, <1>3, <1>4, <1>5, AnswerCleanedInv, CleansCleanedInv DEF Next

(* A mission is removed from this device only after a target reported that it runs there. *)
THEOREM CleanedCorrect == Spec => []CleanedOnlyAfterSuccess
  <1>1. Init => CleanedInv
    BY DEF Init, CleanedInv, CleanedOnlyAfterSuccess, NoNote
  <1>2. CleanedInv => CleanedOnlyAfterSuccess
    BY DEF CleanedInv
  <1>3. QED
    BY <1>1, <1>2, AlwaysTypeInv, NextCleanedInv, PTL DEF Spec

-----------------------------------------------------------------------------
(* The refinement of DmsMigration: a callback that enters the map begins a migration, one  *)
(* that leaves it ends one, and nothing else does.                                          *)

Outcome == [r \in Requests |-> OutcomeOf(r)]

(* What a request's outcome is: what it was told, else what it is going to be told, else *)
(* whether it was dropped.                                                                *)
OutcomeRight ==
    \A r \in Requests :
        /\ told[r] # << >> => OutcomeOf(r) = told[r][1]
        /\ told[r] = << >> => \A x \in Actors : note[x].cb = r => OutcomeOf(r) = note[x].res
        /\ told[r] = << >> /\ (\A x \in Actors : note[x].cb # r) =>
              OutcomeOf(r) = IF r \in dropped THEN "dropped" ELSE "none"

LEMMA OutcomeIs == TypeInv /\ OnceInv => OutcomeRight
  <1>1. SUFFICES ASSUME TypeInv, OnceInv, NEW r \in Requests, told[r] = << >>
                 PROVE  /\ \A x \in Actors : note[x].cb = r => OutcomeOf(r) = note[x].res
                        /\ (\A x \in Actors : note[x].cb # r) =>
                              OutcomeOf(r) = IF r \in dropped THEN "dropped" ELSE "none"
    BY DEF OutcomeRight, OutcomeOf
  <1>2. ASSUME NEW x \in Actors, note[x].cb = r
        PROVE  OutcomeOf(r) = note[x].res
    <2>1. BeingTold(r) # {}
      BY <1>2 DEF BeingTold
    <2>2. (CHOOSE y \in Actors : note[y].cb = r) = x
      BY <1>1, <1>2 DEF OnceInv, HeldInv
    <2>3. QED
      BY <1>1, <2>1, <2>2 DEF OutcomeOf
  <1>3. ASSUME \A x \in Actors : note[x].cb # r
        PROVE  OutcomeOf(r) = IF r \in dropped THEN "dropped" ELSE "none"
    BY <1>1, <1>3 DEF OutcomeOf, BeingTold
  <1>4. QED
    BY <1>2, <1>3

LEMMA OutcomeIsNext ==
    TypeInv' /\ OnceInv' => OutcomeRight'
  BY OutcomeIs, PTL

(* No outcome changes while callbacks, and the results they will be told, stay in the    *)
(* hands they are in.                                                                     *)
SameHands ==
    \A x \in Actors, r \in Requests :
        /\ note'[x].cb = r <=> note[x].cb = r
        /\ note[x].cb = r => note'[x].res = note[x].res

LEMMA OutcomeKept ==
    ASSUME TypeInv, OnceInv, TypeInv', OnceInv', UNCHANGED <<told, dropped>>, SameHands,
           NEW r \in Requests
    PROVE  OutcomeOf(r)' = OutcomeOf(r)
  <1>1. CASE told[r] # << >>
    BY <1>1, OutcomeIs, OutcomeIsNext DEF OutcomeRight
  <1>2. CASE told[r] = << >> /\ \E x \in Actors : note[x].cb = r
    <2>1. PICK x \in Actors : note[x].cb = r
      BY <1>2
    <2>2. note'[x].cb = r /\ note'[x].res = note[x].res
      BY <2>1 DEF SameHands
    <2>3. OutcomeOf(r) = note[x].res
      BY <1>2, <2>1, OutcomeIs DEF OutcomeRight
    <2>4. OutcomeOf(r)' = note'[x].res
      BY <1>2, <2>2, OutcomeIsNext DEF OutcomeRight
    <2>5. QED
      BY <2>2, <2>3, <2>4
  <1>3. CASE told[r] = << >> /\ \A x \in Actors : note[x].cb # r
    <2>1. \A x \in Actors : note'[x].cb # r
      BY <1>3 DEF SameHands
    <2>2. OutcomeOf(r) = IF r \in dropped THEN "dropped" ELSE "none"
      BY <1>3, OutcomeIs DEF OutcomeRight
    <2>3. OutcomeOf(r)' = IF r \in dropped THEN "dropped" ELSE "none"
      BY <1>3, <2>1, OutcomeIsNext DEF OutcomeRight
    <2>4. QED
      BY <2>2, <2>3
  <1>4. QED
    BY <1>1, <1>2, <1>3

LEMMA Stutters ==
    ASSUME TypeInv, OnceInv, TypeInv', OnceInv',
           UNCHANGED <<callbackMap, told, dropped>>, SameHands
    PROVE  UNCHANGED <<callbackMap, Outcome>>
  BY OutcomeKept DEF Outcome

LEMMA PushBegins ==
    ASSUME TypeInv, OnceInv, TypeInv', OnceInv', NEW r \in Requests, PushesCallback(r)
    PROVE  Migration!Begin(r) \/ UNCHANGED <<callbackMap, Outcome>>
  <1> DEFINE m == MissionOf[r]
  <1>1. UNCHANGED <<note, told, dropped>> /\ pc[r] = "toPush"
    BY DEF PushesCallback, history
  <1>2. SameHands
    BY <1>1 DEF SameHands
  <1>3. CASE callbackMap[m] # None
    <2>1. UNCHANGED callbackMap
      BY <1>3 DEF PushesCallback, PushCallback, tables
    <2>2. QED
      BY <1>1, <1>2, <2>1, Stutters
  <1>4. CASE callbackMap[m] = None
    <2>1. callbackMap' = [callbackMap EXCEPT ![m] = r]
      BY <1>4 DEF PushesCallback, PushCallback
    <2>2. told[r] = << >> /\ r \notin dropped /\ \A x \in Actors : note[x].cb # r
      BY <1>1 DEF OnceInv, GoneInv, HeldInv, Fresh, Gone
    <2>3. OutcomeOf(r) = "none"
      BY <2>2, OutcomeIs DEF OutcomeRight
    <2>4. \A q \in Requests : OutcomeOf(q)' = OutcomeOf(q)
      BY <1>1, <1>2, OutcomeKept
    <2>5. QED
      BY <1>4, <2>1, <2>3, <2>4 DEF Migration!Begin
  <1>5. QED
    BY <1>3, <1>4

LEMMA PopEnds ==
    ASSUME TypeInv, OnceInv, TypeInv', OnceInv', NEW r \in Requests, PopsCallback(r)
    PROVE  \/ Migration!End(MissionOf[r], "dropped")
           \/ UNCHANGED <<callbackMap, Outcome>>
  <1> DEFINE m == MissionOf[r]
             q == callbackMap[m]
  <1>1. /\ m \in Missions /\ UNCHANGED <<note, told>> /\ PopCallback(m)
        /\ dropped' = dropped \cup ({q} \ {None})
    BY ContinuationAssumption DEF PopsCallback
  <1>2. SameHands
    BY <1>1 DEF SameHands
  <1>3. CASE q = None
    <2>1. UNCHANGED <<callbackMap, dropped>>
      BY <1>1, <1>3 DEF PopCallback, tables
    <2>2. QED
      BY <1>1, <1>2, <2>1, Stutters
  <1>4. CASE q # None
    <2>1. callbackMap' = [callbackMap EXCEPT ![m] = None] /\ q \in Requests
      BY <1>1, <1>4 DEF PopCallback, TypeInv, TypeOK
    <2>2. PICK c \in Requests : c = q
      BY <2>1
    <2>3. OutcomeOf(c)' = "dropped"
      <3>1. told[c] = << >> /\ (\A x \in Actors : note[x].cb # c) /\ c \in dropped'
        BY <1>1, <1>4, <2>1, <2>2 DEF OnceInv, InMapInv, Gone
      <3>2. QED
        BY <1>1, <3>1, OutcomeIsNext DEF OutcomeRight
    <2>4. ASSUME NEW p \in Requests, p # c
          PROVE  OutcomeOf(p)' = OutcomeOf(p)
      <3>1. p \in dropped' <=> p \in dropped
        BY <1>1, <2>2, <2>4
      <3>2. QED
        BY <1>1, <3>1 DEF OutcomeOf, BeingTold
    <2>5. Outcome' = [Outcome EXCEPT ![c] = "dropped"]
      BY <2>3, <2>4 DEF Outcome
    <2>6. QED
      BY <1>4, <2>1, <2>2, <2>5 DEF Migration!End, Outcome
  <1>5. QED
    BY <1>3, <1>4

LEMMA PopToTellEnds ==
    ASSUME TypeInv, OnceInv, TypeInv', OnceInv', NEW x \in Actors, PopsCallbackToTell(x)
    PROVE  \/ Migration!End(note[x].m, note[x].res)
           \/ UNCHANGED <<callbackMap, Outcome>>
  <1> DEFINE m == note[x].m
             q == callbackMap[m]
  <1>1. /\ note[x] \in Note /\ note[x].st = "toPop" /\ m \in Missions
        /\ q \in Requests \cup {None} /\ note[x].cb = None
    BY DEF PopsCallbackToTell, TypeInv, TypeOK, OnceInv, NotesInv
  <1>2. UNCHANGED <<told, dropped>> /\ PopCallback(m)
    BY DEF PopsCallbackToTell, history
  <1>3. /\ note'[x].cb = q /\ note'[x].res = note[x].res
        /\ \A y \in Actors : y # x => note'[y] = note[y]
    <2>1. Holding(note[x], q) \in Note
      BY <1>1, NoteType
    <2>2. QED
      BY <2>1, BecomesNotes DEF PopsCallbackToTell, Holding
  <1>4. CASE q = None
    <2>1. UNCHANGED callbackMap
      BY <1>2, <1>4 DEF PopCallback, tables
    <2>2. SameHands
      BY <1>1, <1>3, <1>4, NotNone DEF SameHands
    <2>3. QED
      BY <1>2, <2>1, <2>2, Stutters
  <1>5. CASE q # None
    <2>1. callbackMap' = [callbackMap EXCEPT ![m] = None] /\ q \in Requests
      BY <1>1, <1>2, <1>5 DEF PopCallback
    <2>2. PICK c \in Requests : c = q
      BY <2>1
    <2>3. OutcomeOf(c)' = note[x].res
      <3>1. told[c] = << >>
        BY <1>1, <2>2 DEF OnceInv, InMapInv, Gone
      <3>2. told'[c] = << >> /\ note'[x].cb = c /\ note'[x].res = note[x].res
        BY <1>2, <1>3, <2>2, <3>1
      <3>3. QED
        BY <3>2, OutcomeIsNext DEF OutcomeRight
    <2>4. ASSUME NEW p \in Requests, p # c
          PROVE  OutcomeOf(p)' = OutcomeOf(p)
      <3>1. CASE told[p] # << >>
        BY <1>2, <3>1, OutcomeIs, OutcomeIsNext DEF OutcomeRight
      <3>2. CASE told[p] = << >> /\ \E y \in Actors : note[y].cb = p
        <4>1. PICK y \in Actors : note[y].cb = p
          BY <3>2
        <4>2. note'[y] = note[y]
          BY <1>1, <1>3, <4>1, NotNone
        <4>3. OutcomeOf(p) = note[y].res
          BY <3>2, <4>1, OutcomeIs DEF OutcomeRight
        <4>4. OutcomeOf(p)' = note'[y].res
          BY <1>2, <3>2, <4>1, <4>2, OutcomeIsNext DEF OutcomeRight
        <4>5. QED
          BY <4>2, <4>3, <4>4
      <3>3. CASE told[p] = << >> /\ \A y \in Actors : note[y].cb # p
        <4>1. \A y \in Actors : note'[y].cb # p
          BY <1>3, <2>2, <2>4, <3>3
        <4>2. OutcomeOf(p) = IF p \in dropped THEN "dropped" ELSE "none"
          BY <3>3, OutcomeIs DEF OutcomeRight
        <4>3. OutcomeOf(p)' = IF p \in dropped THEN "dropped" ELSE "none"
          BY <1>2, <3>3, <4>1, OutcomeIsNext DEF OutcomeRight
        <4>4. QED
          BY <4>2, <4>3
      <3>4. QED
        BY <3>1, <3>2, <3>3
    <2>5. Outcome' = [Outcome EXCEPT ![c] = note[x].res]
      BY <2>3, <2>4 DEF Outcome
    <2>6. QED
      BY <1>5, <2>1, <2>2, <2>5 DEF Migration!End, Outcome
  <1>6. QED
    BY <1>4, <1>5

(* What was to be told is told. *)
LEMMA TellStutters ==
    ASSUME TypeInv, OnceInv, TypeInv', OnceInv', NEW x \in Actors, TellsCallback(x)
    PROVE  UNCHANGED <<callbackMap, Outcome>>
  <1>1. UNCHANGED <<callbackMap, dropped>>
    BY DEF TellsCallback, tables
  <1>2. /\ note'[x] = NoNote
        /\ \A y \in Actors : y # x => note'[y] = note[y]
    BY BecomesNotes, NoteType DEF TellsCallback
  <1>3. ASSUME NEW r \in Requests, r = note[x].cb
        PROVE  OutcomeOf(r)' = OutcomeOf(r)
    <2>1. told[r] = << >> /\ told'[r] = Append(told[r], note[x].res)
      BY <1>3 DEF OnceInv, HeldInv, Gone, TellsCallback
    <2>2. note[x].res \in Results
      BY DEF TypeInv, TypeOK, Note
    <2>3. told'[r] # << >> /\ told'[r][1] = note[x].res
      <3>1. << >> \in Seq(Results)
        OBVIOUS
      <3>2. Append(<< >>, note[x].res)[1] = note[x].res /\ Append(<< >>, note[x].res) # << >>
        BY <2>2, <3>1
      <3>3. QED
        BY <2>1, <3>2
    <2>4. QED
      BY <1>3, <2>1, <2>3, OutcomeIs, OutcomeIsNext DEF OutcomeRight
  <1>4. ASSUME NEW r \in Requests, r # note[x].cb
        PROVE  OutcomeOf(r)' = OutcomeOf(r)
    <2>1. told'[r] = told[r]
      BY <1>4 DEF TellsCallback
    <2>2. \A y \in Actors : note'[y].cb = r <=> note[y].cb = r
      BY <1>2, <1>4, NotNone DEF NoNote
    <2>3. \A y \in Actors : note[y].cb = r => note'[y] = note[y]
      BY <1>2, <1>4
    <2>4. CASE \E y \in Actors : note[y].cb = r
      <3>1. PICK y \in Actors : note[y].cb = r
        BY <2>4
      <3>2. note'[y] = note[y]
        BY <2>3, <3>1
      <3>3. told[r] = << >>
        BY <3>1 DEF OnceInv, HeldInv, Gone
      <3>4. OutcomeOf(r) = note[y].res /\ OutcomeOf(r)' = note'[y].res
        BY <2>1, <3>1, <3>2, <3>3, OutcomeIs, OutcomeIsNext DEF OutcomeRight
      <3>5. QED
        BY <3>2, <3>4
    <2>5. CASE \A y \in Actors : note[y].cb # r
      BY <1>1, <2>1, <2>2, <2>5, OutcomeIs, OutcomeIsNext DEF OutcomeRight
    <2>6. QED
      BY <2>4, <2>5
  <1>5. QED
    BY <1>1, <1>3, <1>4 DEF Outcome

(* A note that begins, goes a step on or ends without a callback in its hands. *)
LEMMA BecomesSame ==
    ASSUME TypeInv, NEW x \in Actors, NEW n \in Note, Becomes(x, n),
           n.cb = note[x].cb, n.cb # None => n.res = note[x].res
    PROVE  SameHands
  <1>1. note'[x] = n /\ \A y \in Actors : y # x => note'[y] = note[y]
    BY BecomesNotes
  <1>2. QED
    BY <1>1, NotNone DEF SameHands

LEMMA AnswerStutters ==
    ASSUME TypeInv, OnceInv, TypeInv', OnceInv', NEW r \in Requests,
           \/ OnQueryInstallationFinished(r) \/ StartContinuation(r)
           \/ NotifyCompleteFreeInstallFromRemote(r) \/ NotifyContinuationResultFromRemote(r)
    PROVE  UNCHANGED <<callbackMap, Outcome>>
  <1> DEFINE m == MissionOf[r]
  <1>1. m \in Missions /\ r \in Actors
    BY ContinuationAssumption DEF Actors
  <1>2. UNCHANGED <<callbackMap, told, dropped>>
    BY DEF OnQueryInstallationFinished, StartContinuation, NotifyCompleteFreeInstallFromRemote,
           NotifyContinuationResultFromRemote, tables, history
  <1>3. note[r].st = "idle" /\ note[r].cb = None
    BY <1>1 DEF OnQueryInstallationFinished, StartContinuation, TypeInv, TypeOK, Note,
                NotifyCompleteFreeInstallFromRemote, NotifyContinuationResultFromRemote, OnceInv,
                NotesInv
  <1>4. note' = note \/ \E res \in Results : Enters(r, m, res)
    BY DEF OnQueryInstallationFinished, StartContinuation, NotifyCompleteFreeInstallFromRemote,
           NotifyContinuationResultFromRemote, ResultCode, Results
  <1>5. CASE note' = note
    BY <1>2, <1>5, Stutters DEF SameHands
  <1>6. CASE \E res \in Results : Enters(r, m, res)
    <2>1. PICK res \in Results : Becomes(r, Notification(m, res))
      BY <1>6 DEF Enters
    <2>2. Notification(m, res) \in Note /\ Notification(m, res).cb = None
      BY <1>1, NoteType DEF Notification
    <2>3. SameHands
      BY <1>1, <1>3, <2>1, <2>2, BecomesSame
    <2>4. QED
      BY <1>2, <2>3, Stutters
  <1>7. QED
    BY <1>4, <1>5, <1>6

LEMMA TimeoutStutters ==
    ASSUME TypeInv, OnceInv, TypeInv', OnceInv', NEW m \in Missions, ContinuationTimeout(m)
    PROVE  UNCHANGED <<callbackMap, Outcome>>
  <1>1. Handler \in Actors /\ note[Handler].cb = None
    BY DEF Actors, ContinuationTimeout, TypeInv, TypeOK, Note, OnceInv, NotesInv
  <1>2. Notification(m, "failed") \in Note /\ Notification(m, "failed").cb = None
    BY NoteType DEF Notification, Results
  <1>3. SameHands
    BY <1>1, <1>2, BecomesSame DEF ContinuationTimeout, Enters
  <1>4. QED
    BY <1>3, Stutters DEF ContinuationTimeout, tables, history

LEMMA NotifyStutters ==
    ASSUME TypeInv, OnceInv, TypeInv', OnceInv', NEW x \in Actors,
           IsInProgress(x) \/ CleanMission(x) \/ RemovesTimeOut(x) \/ NotifyAms(x)
    PROVE  UNCHANGED <<callbackMap, Outcome>>
  <1>1. UNCHANGED <<callbackMap, told, dropped>>
    BY DEF IsInProgress, CleanMission, RemovesTimeOut, NotifyAms, tables, history
  <1>2. note[x] \in Note
    BY DEF TypeInv, TypeOK
  <1>3. CASE \E st \in {"found", "notFound", "toPop", "toTell"} : Advance(x, st)
    <2>1. PICK st \in {"found", "notFound", "toPop", "toTell"} : Becomes(x, At(note[x], st))
      BY <1>3 DEF Advance
    <2>2. /\ At(note[x], st) \in Note
          /\ At(note[x], st).cb = note[x].cb /\ At(note[x], st).res = note[x].res
      BY <1>2, NoteType DEF At
    <2>3. SameHands
      BY <2>1, <2>2, BecomesSame
    <2>4. QED
      BY <1>1, <2>3, Stutters
  <1>4. CASE NotifyAms(x)
    <2>1. note[x].cb = None /\ NoNote.cb = None /\ NoNote \in Note /\ Becomes(x, NoNote)
      BY <1>2, <1>4, NoteType DEF NotifyAms, OnceInv, NotesInv, Note, NoNote
    <2>2. SameHands
      BY <2>1, BecomesSame
    <2>3. QED
      BY <1>1, <2>2, Stutters
  <1>5. QED
    BY <1>3, <1>4 DEF IsInProgress, CleanMission, RemovesTimeOut

LEMMA NextRefines ==
    ASSUME TypeInv, OnceInv, TypeInv', OnceInv', [Next]_vars
    PROVE  Migration!MigrationNext \/ UNCHANGED <<callbackMap, Outcome>>
  <1>1. CASE UNCHANGED vars
    BY <1>1, Stutters DEF vars, tables, history, SameHands
  <1>2. ASSUME NEW r \in Requests, ContinueLocalMission(r) \/ RequestStep(r)
        PROVE  Migration!MigrationNext \/ UNCHANGED <<callbackMap, Outcome>>
    <2>1. CASE PushesCallback(r)
      BY <2>1, PushBegins DEF Migration!MigrationNext
    <2>2. CASE PopsCallback(r)
      <3>1. MissionOf[r] \in Missions /\ "dropped" \in Migration!Outcomes
        BY ContinuationAssumption DEF Migration!Outcomes
      <3>2. QED
        BY <2>2, <3>1, PopEnds DEF Migration!MigrationNext
    <2>3. CASE ~PushesCallback(r) /\ ~PopsCallback(r)
      <3>1. UNCHANGED <<callbackMap, told, dropped, note>>
        BY <1>2, <2>3 DEF RequestStep, ContinueLocalMission, CheckRemoteBundleInfo,
             SetContinuationTimeout, ContinueAbility, CheckIfRemoteCanInstall,
             RemoveContinuationTimeout, GetContinuationDevice, SetsInstallationTimeout,
             ContinueAbilityWithFreeInstall, StartContinuationSetsTimeOut, StartsRemote,
             tables, history
      <3>2. QED
        BY <3>1, Stutters DEF SameHands
    <2>4. QED
      BY <2>1, <2>2, <2>3
  <1>3. ASSUME NEW x \in Actors, NotifyStep(x)
        PROVE  Migration!MigrationNext \/ UNCHANGED <<callbackMap, Outcome>>
    <2>1. CASE PopsCallbackToTell(x)
      <3>1. note[x].m \in Missions /\ note[x].res \in Migration!Outcomes
        BY <2>1 DEF PopsCallbackToTell, TypeInv, TypeOK, Note, Results, Migration!Outcomes
      <3>2. QED
        BY <2>1, <3>1, PopToTellEnds DEF Migration!MigrationNext
    <2>2. QED
      BY <1>3, <2>1, TellStutters, NotifyStutters DEF NotifyStep
  <1>4. QED
    BY <1>1, <1>2, <1>3, AnswerStutters, TimeoutStutters DEF Next

(* DSchedContinuation keeps what DmsMigration promises: a mission is continued for one    *)
(* request at a time, and a request whose callback got into the map ends once, with the   *)
(* outcome it had when its callback was popped; what it is told later is that outcome.    *)
THEOREM MigrationRefined == Spec => OneAtATime
  <1>1. Init => Migration!MigrationInit
    <2>1. SUFFICES ASSUME Init
                   PROVE  callbackMap = [m \in Missions |-> None] /\
                          \A r \in Requests : OutcomeOf(r) = "none"
      BY DEF Migration!MigrationInit
    <2>2. \A x \in Actors, r \in Requests : note[x].cb # r
      BY <2>1, NotNone DEF Init, NoNote
    <2>3. QED
      BY <2>1, <2>2 DEF Init, OutcomeOf, BeingTold
  <1>2. TypeInv /\ OnceInv /\ (TypeInv /\ OnceInv)' /\ [Next]_vars
          => [Migration!MigrationNext]_<<callbackMap, [r \in Requests |-> OutcomeOf(r)]>>
    BY NextRefines DEF Outcome
  <1>3. QED
    BY <1>1, <1>2, AlwaysOnceInv, PTL DEF Spec, OneAtATime, Migration!MigrationSpec

-----------------------------------------------------------------------------
(* From here on requests for a mission follow one another, and what comes from outside    *)
(* does not race with the timeout (Serial, ~Overlap).                                      *)

(* A thread of NotifyContinuationCallbackResult that is about mission m, ... *)
Noted(x, m) == note[x].st # "idle" /\ note[x].m = m
(* ... and the request that it will tell. *)
Whose(x) == IF note[x].st \in {"popped", "toTell"} THEN note[x].cb ELSE callbackMap[note[x].m]

(* While a request has a thread nobody tells of its mission, the mission is in its      *)
(* hands alone, and there is no timeout left when it takes its callback back.            *)
ThreadInv ==
    \A r \in Requests : pc[r] \in InThread =>
        /\ \A x \in Actors : ~Noted(x, MissionOf[r])
        /\ callbackMap[MissionOf[r]] = IF pc[r] \in {"checked", "toPush"} THEN None ELSE r
        /\ \A q \in Requests : MissionOf[q] = MissionOf[r] /\ pc[q] \in InThread => q = r
        /\ pc[r] = "undoPop" => timers[MissionOf[r]] = 0
(* Who tells is alone with the mission, finds the callback of one of its requests, and  *)
(* has the result the target gave that very request.                                      *)
NoteInv ==
    \A x \in Actors : note[x].st # "idle" =>
        /\ \A y \in Actors : Noted(y, note[x].m) => y = x
        /\ note[x].st # "notFound"
        /\ Whose(x) \in Requests /\ MissionOf[Whose(x)] = note[x].m
        /\ note[x].res = "ok" <=> answer[Whose(x)] = "ok"
        /\ note[x].st \in {"popped", "toTell"} => callbackMap[note[x].m] = None
        /\ note[x].st \in {"toPop", "popped", "toTell"} /\ note[x].res = "ok" => note[x].m \in cleaned
TimerInv ==
    \A m \in Missions : timers[m] > 0 /\ callbackMap[m] = None =>
        \E x \in Actors : Noted(x, m) /\ note[x].st = "popped"
(* A success in answer to a request that waits is being told. *)
AnswerInv ==
    \A r \in Requests :
        /\ answer[r] # "none" => pc[r] = "over"
        /\ callbackMap[MissionOf[r]] = r /\ answer[r] = "ok" => \E x \in Actors : Noted(x, MissionOf[r])
ToldInv ==
    \A r \in Requests : told[r] # << >> =>
        /\ told[r][1] = "ok" => MissionOf[r] \in cleaned
        /\ told[r][1] = "ok" <=> answer[r] = "ok"
WayInv ==
    \A r \in Requests :
        /\ target[r] \in {None, DeviceOf[r]}
        /\ way[r] # "none" =>
              pc[r] \in {"remote", "late", "over"} /\ (way[r] = "freeInstall" <=> lacking[r])

SerialInv == ThreadInv /\ NoteInv /\ TimerInv /\ AnswerInv /\ ToldInv /\ WayInv

AllInv == TypeInv /\ OnceInv /\ TablesInv /\ SerialInv

LEMMA GotoLeaves ==
    ASSUME TypeInv, NEW r \in Requests, NEW st, Goto(r, st)
    PROVE  pc'[r] = st /\ \A q \in Requests : q # r => pc'[q] = pc[q]
  BY DEF Goto, TypeInv, TypeOK

LEMMA SettersLeave ==
    ASSUME TypeInv, NEW m \in Missions
    PROVE  /\ SetTimeOut(m) => \A n \in Missions : n # m => timers'[n] = timers[n]
           /\ RemoveTimeOut(m) =>
                 timers'[m] = 0 /\ \A n \in Missions : n # m => timers'[n] = timers[n]
  BY DEF SetTimeOut, RemoveTimeOut, TypeInv, TypeOK

LEMMA StillNoted ==
    ASSUME UNCHANGED note
    PROVE  \A x, m : Noted(x, m)' <=> Noted(x, m)
  BY DEF Noted

(* Nobody tells of the mission of a request that has a thread. *)
LEMMA NobodyTells ==
    ASSUME AllInv, NEW r \in Requests, pc[r] \in InThread,
           UNCHANGED <<note, answer, cleaned>>,
           \A n \in Missions : n # MissionOf[r] => callbackMap'[n] = callbackMap[n]
    PROVE  NoteInv'
  <1>1. \A x \in Actors : note[x].st # "idle" => note[x].m \in Missions /\ note[x].m # MissionOf[r]
    BY DEF AllInv, TypeInv, SerialInv, ThreadInv, Noted
  <1>2. \A x \in Actors : note[x].st # "idle" => Whose(x)' = Whose(x)
    BY <1>1 DEF Whose
  <1>3. QED
    BY <1>1, <1>2, StillNoted DEF AllInv, SerialInv, NoteInv

(* A thread of a request goes on, with the timeouts of its mission at most. *)
LEMMA GoesOn ==
    ASSUME AllInv, NEW r \in Requests, pc[r] \in InThread, NEW st, Goto(r, st),
           st # "over" => st \in States,
           st \in InThread => (st \in {"checked", "toPush"} <=> pc[r] \in {"checked", "toPush"}),
           UNCHANGED <<callbackMap, note, answer, told, cleaned>>,
           \A m \in Missions : m # MissionOf[r] => timers'[m] = timers[m],
           pc[r] \in {"checked", "toPush"} => UNCHANGED timers,
           st = "undoPop" => timers'[MissionOf[r]] = 0
    PROVE  ThreadInv' /\ NoteInv' /\ TimerInv' /\ AnswerInv' /\ ToldInv'
  <1> DEFINE n == MissionOf[r]
  <1>1. n \in Missions /\ pc'[r] = st /\ \A q \in Requests : q # r => pc'[q] = pc[q]
    BY ContinuationAssumption, GotoLeaves DEF AllInv
  <1>2. /\ \A x \in Actors : ~Noted(x, n)
        /\ callbackMap[n] = IF pc[r] \in {"checked", "toPush"} THEN None ELSE r
        /\ \A q \in Requests : MissionOf[q] = n /\ pc[q] \in InThread => q = r
    BY DEF AllInv, SerialInv, ThreadInv
  <1>3. ThreadInv'
    <2>1. ASSUME NEW q \in Requests, q # r, pc'[q] \in InThread
          PROVE  MissionOf[q] # n /\ MissionOf[q] \in Missions /\ pc[q] \in InThread
      BY <1>1, <1>2, <2>1, ContinuationAssumption
    <2>2. QED
      BY <1>1, <1>2, <2>1, StillNoted DEF AllInv, SerialInv, ThreadInv
  <1>4. NoteInv'
    BY NobodyTells
  <1>5. TimerInv'
    <2>1. ASSUME NEW m \in Missions, timers'[m] > 0, callbackMap'[m] = None
          PROVE  timers[m] > 0
      BY <1>1, <1>2, <2>1, NotNone
    <2>2. QED
      BY <2>1, StillNoted DEF AllInv, SerialInv, TimerInv
  <1>6. AnswerInv'
    <2>1. pc[r] # "over"
      BY DEF InThread, InCall
    <2>2. QED
      BY <1>1, <2>1, StillNoted DEF AllInv, SerialInv, AnswerInv
  <1>7. ToldInv'
    BY DEF AllInv, SerialInv, ToldInv
  <1>8. QED
    BY <1>3, <1>4, <1>5, <1>6, <1>7

(* The request looks at what its own callback left in the maps. *)
LEMMA OwnTables ==
    ASSUME AllInv, NEW r \in Requests, pc[r] \in InThread \ {"checked", "toPush"}
    PROVE  /\ callbackMap[MissionOf[r]] = r
           /\ continuationDevices[MissionOf[r]] = DeviceOf[r]
           /\ freeInstall[MissionOf[r]] <=> lacking[r]
  <1>1. callbackMap[MissionOf[r]] = r
    BY DEF AllInv, SerialInv, ThreadInv
  <1>2. MissionOf[r] \in Missions /\ r # None
    BY ContinuationAssumption
  <1>3. OneRequest(MissionOf[r])
    BY <1>2 DEF AllInv, TablesInv
  <1>4. QED
    BY <1>1, <1>2, <1>3 DEF OneRequest

(* The way of a request that goes on, from where it has not yet gone any way. *)
LEMMA WayKept ==
    ASSUME AllInv, NEW r \in Requests, NEW st, Goto(r, st),
           pc[r] \notin {"remote", "late", "over"} \/ st \in {"remote", "late", "over"},
           \A q \in Requests : q # r => lacking'[q] = lacking[q],
           lacking'[r] = lacking[r] \/ pc[r] \notin {"remote", "late", "over"},
           \A q \in Requests : target'[q] = target[q] \/ target'[q] = DeviceOf[q],
           UNCHANGED way
    PROVE  WayInv'
  <1>1. pc'[r] = st /\ \A q \in Requests : q # r => pc'[q] = pc[q]
    BY GotoLeaves DEF AllInv
  <1>2. \A q \in Requests : target'[q] \in {None, DeviceOf[q]}
    BY DEF AllInv, SerialInv, WayInv
  <1>3. \A q \in Requests : way'[q] # "none" =>
           pc'[q] \in {"remote", "late", "over"} /\ (way'[q] = "freeInstall" <=> lacking'[q])
    BY <1>1 DEF AllInv, SerialInv, WayInv
  <1>4. QED
    BY <1>2, <1>3 DEF WayInv

LEMMA ChecksSerial ==
    ASSUME AllInv, NEW r \in Requests, CheckRemoteBundleInfo(r)
    PROVE  SerialInv'
  <1>1. /\ pc[r] \in InThread /\ pc[r] = "checked"
        /\ UNCHANGED <<callbackMap, note, answer, told, cleaned, timers, target, way>>
        /\ \A q \in Requests : q # r => lacking'[q] = lacking[q]
    BY DEF CheckRemoteBundleInfo, tables, history, InThread, InCall, AllInv, TypeInv, TypeOK
  <1>2. PICK st \in {"refused", "toPush"} : Goto(r, st)
    BY DEF CheckRemoteBundleInfo
  <1>3. st \in States /\ (st \in InThread <=> st = "toPush") /\ st # "undoPop"
    BY DEF States, InThread, InCall
  <1>4. ThreadInv' /\ NoteInv' /\ TimerInv' /\ AnswerInv' /\ ToldInv'
    BY <1>1, <1>2, <1>3, GoesOn
  <1>5. WayInv'
    BY <1>1, <1>2, WayKept
  <1>6. QED
    BY <1>4, <1>5 DEF SerialInv

(* The steps between the setting of the callback and the call of the target. *)
LEMMA ContinuesSerial ==
    ASSUME AllInv, NEW r \in Requests,
           \/ SetContinuationTimeout(r) \/ ContinueAbility(r) \/ CheckIfRemoteCanInstall(r)
           \/ RemoveContinuationTimeout(r) \/ GetContinuationDevice(r)
           \/ SetsInstallationTimeout(r) \/ ContinueAbilityWithFreeInstall(r)
           \/ StartContinuationSetsTimeOut(r)
    PROVE  SerialInv'
  <1> DEFINE m == MissionOf[r]
  <1> USE DEF SetContinuationTimeout, ContinueAbility, CheckIfRemoteCanInstall,
              RemoveContinuationTimeout, GetContinuationDevice, SetsInstallationTimeout,
              ContinueAbilityWithFreeInstall, StartContinuationSetsTimeOut
  <1>1. /\ pc[r] \in InThread \ {"checked", "toPush"}
        /\ UNCHANGED <<callbackMap, note, answer, told, cleaned, way, lacking>>
    BY DEF tables, history, InThread, InCall
  <1>2. m \in Missions
    BY ContinuationAssumption
  <1>3. \/ SetTimeOut(m) /\ ~Goto(r, "undoPop")
        \/ UNCHANGED timers /\ ~Goto(r, "undoPop")
        \/ RemoveTimeOut(m)
    <2>1. \A st : Goto(r, st) /\ Goto(r, "undoPop") => st = "undoPop"
      BY GotoLeaves DEF AllInv
    <2>2. QED
      BY <2>1 DEF InstallationTimeout
  <1>4. /\ \A n \in Missions : n # m => timers'[n] = timers[n]
        /\ Goto(r, "undoPop") => timers'[m] = 0
    BY <1>2, <1>3, SettersLeave DEF AllInv
  <1>5. PICK st \in {"timed", "continuing", "failed", "querying", "undo", "undoPop", "located",
                     "requeried", "over", "started"} : Goto(r, st)
    OBVIOUS
  <1>6. st \in States /\ st \notin {"checked", "toPush"}
    BY DEF States, InThread, InCall, Outside
  <1>7. \A q \in Requests : target'[q] = target[q] \/ target'[q] = DeviceOf[q]
    <2>1. continuationDevices[m] = DeviceOf[r]
      BY <1>1, OwnTables
    <2>2. target \in [Requests -> Devices \cup {None}]
      BY DEF AllInv, TypeInv, TypeOK
    <2>3. \A d : target' = [target EXCEPT ![r] = d] =>
             target'[r] = d /\ \A q \in Requests : q # r => target'[q] = target[q]
      BY <2>2
    <2>4. UNCHANGED target \/ target' = [target EXCEPT ![r] = DeviceOf[r]]
      BY <2>1
    <2>5. QED
      BY <2>3, <2>4
  <1> HIDE DEF SetContinuationTimeout, ContinueAbility, CheckIfRemoteCanInstall,
              RemoveContinuationTimeout, GetContinuationDevice, SetsInstallationTimeout,
              ContinueAbilityWithFreeInstall, StartContinuationSetsTimeOut, m
  <1>8. ThreadInv' /\ NoteInv' /\ TimerInv' /\ AnswerInv' /\ ToldInv'
    BY <1>1, <1>4, <1>5, <1>6, GoesOn DEF m
  <1>9. WayInv'
    <2>1. pc[r] \notin {"remote", "late", "over"}
      BY <1>1 DEF InThread, InCall
    <2>2. QED
      BY <1>1, <1>5, <1>7, <2>1, WayKept
  <1>10. QED
    BY <1>8, <1>9 DEF SerialInv

LEMMA StartsSerial ==
    ASSUME AllInv, NEW r \in Requests, StartsRemote(r)
    PROVE  SerialInv'
  <1> DEFINE m == MissionOf[r]
  <1>1. /\ pc[r] \in InThread \ {"checked", "toPush"}
        /\ UNCHANGED <<callbackMap, note, answer, told, cleaned, timers, lacking, target>>
    BY DEF StartsRemote, tables, history, InThread, InCall
  <1>2. PICK st \in {"remote", "over"} : Goto(r, st)
    BY DEF StartsRemote
  <1>3. st \in States /\ st \notin InThread
    BY <1>2 DEF States, Outside, InThread, InCall
  <1>4. ThreadInv' /\ NoteInv' /\ TimerInv' /\ AnswerInv' /\ ToldInv'
    BY <1>1, <1>2, <1>3, GoesOn
  <1>5. freeInstall[m] <=> lacking[r]
    BY <1>1, OwnTables
  <1>6. /\ way'[r] = IF freeInstall[m] THEN "freeInstall" ELSE "ability"
        /\ \A q \in Requests : q # r => way'[q] = way[q]
    BY DEF StartsRemote, AllInv, TypeInv, TypeOK
  <1>7. pc'[r] = st /\ \A q \in Requests : q # r => pc'[q] = pc[q]
    BY <1>2, GotoLeaves DEF AllInv
  <1>8. WayInv'
    <2>1. way'[r] = "freeInstall" <=> lacking'[r]
      BY <1>1, <1>5, <1>6
    <2>2. QED
      BY <1>1, <1>2, <1>6, <1>7, <2>1 DEF AllInv, SerialInv, WayInv
  <1>9. QED
    BY <1>4, <1>8 DEF SerialInv

(* The callback comes into the map of a mission nobody tells of, ... *)
LEMMA PushesSerial ==
    ASSUME AllInv, NEW r \in Requests, PushesCallback(r)
    PROVE  SerialInv'
  <1> DEFINE m == MissionOf[r]
  <1>1. /\ pc[r] \in InThread /\ pc[r] = "toPush" /\ Goto(r, "pushed")
        /\ UNCHANGED <<note, answer, told, cleaned, timers, lacking, target, way>>
    BY DEF PushesCallback, history, InThread, InCall
  <1>2. /\ \A x \in Actors : ~Noted(x, m)
        /\ callbackMap[m] = None
        /\ \A q \in Requests : MissionOf[q] = m /\ pc[q] \in InThread => q = r
    BY <1>1 DEF AllInv, SerialInv, ThreadInv
  <1>3. /\ m \in Missions /\ callbackMap'[m] = r
        /\ \A n \in Missions : n # m => callbackMap'[n] = callbackMap[n]
    BY <1>2, ContinuationAssumption DEF PushesCallback, PushCallback, AllInv, TypeInv, TypeOK
  <1>4. pc'[r] = "pushed" /\ \A q \in Requests : q # r => pc'[q] = pc[q]
    BY <1>1, GotoLeaves DEF AllInv
  <1>5. ThreadInv'
    <2>1. ASSUME NEW q \in Requests, q # r, pc'[q] \in InThread
          PROVE  MissionOf[q] # m /\ MissionOf[q] \in Missions /\ pc[q] \in InThread
      BY <1>2, <1>4, <2>1, ContinuationAssumption
    <2>2. QED
      BY <1>1, <1>2, <1>3, <1>4, <2>1, StillNoted DEF AllInv, SerialInv, ThreadInv
  <1>6. NoteInv'
    BY <1>1, <1>3, NobodyTells
  <1>7. TimerInv'
    BY <1>1, <1>3, NotNone, StillNoted DEF AllInv, SerialInv, TimerInv
  <1>8. AnswerInv'
    <2>1. \A q \in Requests : MissionOf[q] \in Missions
      BY ContinuationAssumption
    <2>2. \A q \in Requests : answer[q] # "none" => q # r
      BY <1>1 DEF AllInv, SerialInv, AnswerInv
    <2>3. \A q \in Requests : callbackMap'[MissionOf[q]] = q => q = r \/ callbackMap[MissionOf[q]] = q
      BY <1>3, <2>1
    <2>4. QED
      BY <1>1, <1>4, <2>2, <2>3, StillNoted DEF AllInv, SerialInv, AnswerInv
  <1>9. ToldInv'
    BY <1>1 DEF AllInv, SerialInv, ToldInv
  <1>10. WayInv'
    BY <1>1, WayKept
  <1>11. QED
    BY <1>5, <1>6, <1>7, <1>8, <1>9, <1>10 DEF SerialInv

(* ... and leaves it with its timeout removed. *)
LEMMA TakesBackSerial ==
    ASSUME AllInv, NEW r \in Requests, PopsCallback(r)
    PROVE  SerialInv'
  <1> DEFINE m == MissionOf[r]
  <1>1. /\ pc[r] \in InThread /\ pc[r] = "undoPop" /\ Goto(r, "failed") /\ PopCallback(m)
        /\ UNCHANGED <<note, answer, told, cleaned, timers, lacking, target, way>>
    BY DEF PopsCallback, InThread, InCall
  <1>2. /\ \A x \in Actors : ~Noted(x, m)
        /\ timers[m] = 0
        /\ \A q \in Requests : MissionOf[q] = m /\ pc[q] \in InThread => q = r
    BY <1>1 DEF AllInv, SerialInv, ThreadInv
  <1>3. m \in Missions
    BY ContinuationAssumption
  <1>4. /\ callbackMap'[m] = None
        /\ \A n \in Missions : n # m => callbackMap'[n] = callbackMap[n]
    BY <1>1, <1>3, PopCallbackLeaves DEF AllInv
  <1>5. pc'[r] = "failed" /\ "failed" \notin InThread /\ \A q \in Requests : q # r => pc'[q] = pc[q]
    BY <1>1, GotoLeaves DEF AllInv, InThread, InCall
  <1>6. ThreadInv'
    <2>1. ASSUME NEW q \in Requests, pc'[q] \in InThread
          PROVE  MissionOf[q] # m /\ MissionOf[q] \in Missions /\ pc[q] \in InThread /\ q # r
      BY <1>2, <1>5, <2>1, ContinuationAssumption
    <2>2. QED
      BY <1>1, <1>4, <1>5, <2>1, StillNoted DEF AllInv, SerialInv, ThreadInv
  <1>7. NoteInv'
    BY <1>1, <1>4, NobodyTells
  <1>8. TimerInv'
    BY <1>1, <1>2, <1>4, StillNoted DEF AllInv, SerialInv, TimerInv
  <1>9. AnswerInv'
    <2>1. \A q \in Requests : MissionOf[q] \in Missions
      BY ContinuationAssumption
    <2>2. \A q \in Requests : callbackMap'[MissionOf[q]] = q => callbackMap[MissionOf[q]] = q
      BY <1>4, <2>1, NotNone
    <2>3. \A q \in Requests : answer[q] # "none" => q # r
      BY <1>1 DEF AllInv, SerialInv, AnswerInv
    <2>4. QED
      BY <1>1, <1>5, <2>2, <2>3, StillNoted DEF AllInv, SerialInv, AnswerInv
  <1>10. ToldInv'
    BY <1>1 DEF AllInv, SerialInv, ToldInv
  <1>11. WayInv'
    BY <1>1, WayKept
  <1>12. QED
    BY <1>6, <1>7, <1>8, <1>9, <1>10, <1>11 DEF SerialInv

(* A mission that nobody has in hand has no timeout either. *)
LEMMA Quiet ==
    ASSUME AllInv, NEW m \in Missions, callbackMap[m] = None, \A x \in Actors : ~Noted(x, m)
    PROVE  timers[m] = 0
  <1>1. timers[m] \in Nat /\ ~(timers[m] > 0)
    BY DEF AllInv, TypeInv, TypeOK, SerialInv, TimerInv
  <1>2. QED
    BY <1>1

(* When all other requests of a mission are settled, nobody has it in hand. *)
LEMMA BeginsSerial ==
    ASSUME Serial, AllInv, NEW r \in Requests, ContinueLocalMission(r)
    PROVE  SerialInv'
  <1> DEFINE m == MissionOf[r]
  <1>1. /\ pc[r] = "new"
        /\ UNCHANGED <<callbackMap, note, answer, told, cleaned, timers, lacking, target, way>>
    BY DEF ContinueLocalMission, tables, history
  <1>2. m \in Missions /\ Fresh(r)
    BY <1>1, ContinuationAssumption DEF Fresh
  <1>3. \A q \in Requests : MissionOf[q] = m /\ q # r => Settled(q)
    BY DEF ContinueLocalMission
  <1>4. callbackMap[m] = None
    <2>1. callbackMap[m] \in Requests \cup {None}
      BY <1>2 DEF AllInv, TypeInv, TypeOK
    <2>2. ASSUME NEW q \in Requests, callbackMap[m] = q
          PROVE  MissionOf[q] = m /\ q # r
      BY <1>2, <2>2 DEF AllInv, OnceInv, InMapInv
    <2>3. QED
      BY <1>3, <2>1, <2>2 DEF Settled
  <1>5. ASSUME NEW x \in Actors, Noted(x, m)
        PROVE  FALSE
    <2>1. Whose(x) \in Requests /\ MissionOf[Whose(x)] = m
      BY <1>5 DEF AllInv, SerialInv, NoteInv, Noted
    <2>2. note[x].cb = Whose(x)
      BY <1>4, <1>5, <2>1, NotNone DEF Whose, Noted
    <2>3. Whose(x) # r
      BY <1>2, <2>1, <2>2 DEF AllInv, OnceInv, HeldInv
    <2>4. QED
      BY <1>3, <1>5, <2>1, <2>2, <2>3 DEF Settled, Noted
  <1>6. Goto(r, "checked")
    BY <1>4 DEF ContinueLocalMission, IsInContinuationProgress
  <1>7. pc'[r] = "checked" /\ \A q \in Requests : q # r => pc'[q] = pc[q]
    BY <1>6, GotoLeaves DEF AllInv
  <1>8. ThreadInv'
    <2>1. \A q \in Requests : q # r /\ pc'[q] \in InThread => MissionOf[q] # m /\ pc[q] \in InThread
      BY <1>3, <1>7 DEF Settled
    <2>2. QED
      BY <1>1, <1>4, <1>5, <1>7, <2>1, StillNoted DEF AllInv, SerialInv, ThreadInv
  <1>9. NoteInv' /\ TimerInv' /\ ToldInv'
    BY <1>1, StillNoted DEF AllInv, SerialInv, NoteInv, TimerInv, ToldInv, Whose
  <1>10. AnswerInv'
    BY <1>1, <1>7, StillNoted DEF AllInv, SerialInv, AnswerInv
  <1>11. WayInv'
    BY <1>1, <1>6, WayKept
  <1>12. QED
    BY <1>8, <1>9, <1>10, <1>11 DEF SerialInv

-----------------------------------------------------------------------------
(* What comes in time comes to a request whose callback waits, untold. *)
LEMMA ComesInTime ==
    ASSUME ~Overlap, AllInv, NEW r \in Requests, InTime(r)
    PROVE  /\ callbackMap[MissionOf[r]] = r
           /\ \A x \in Actors : ~Noted(x, MissionOf[r])
           /\ \A q \in Requests : MissionOf[q] = MissionOf[r] /\ pc[q] \in InThread => q = r
  <1>1. callbackMap[MissionOf[r]] = r /\ Notifying(MissionOf[r]) = {}
    BY DEF InTime
  <1>2. \A x \in Actors : ~Noted(x, MissionOf[r])
    BY <1>1 DEF Notifying, Noted
  <1>3. \A q \in Requests : MissionOf[q] = MissionOf[r] /\ pc[q] \in InThread => q = r
    BY <1>1, NotNone DEF AllInv, SerialInv, ThreadInv
  <1>4. QED
    BY <1>1, <1>2, <1>3

(* The request gets a thread, or nothing comes of it. *)
LEMMA ReturnsSerial ==
    ASSUME ~Overlap, AllInv, NEW r \in Requests, InTime(r), pc[r] \in {"querying", "continuing"},
           NEW st \in {"queried", "started", "unarmed", "over"}, Goto(r, st),
           UNCHANGED <<callbackMap, note, answer, told, cleaned, lacking, target, way>>,
           UNCHANGED timers \/ RemoveTimeOut(MissionOf[r])
    PROVE  SerialInv'
  <1> DEFINE m == MissionOf[r]
  <1>1. /\ m \in Missions /\ callbackMap[m] = r /\ r # None
        /\ \A x \in Actors : ~Noted(x, m)
        /\ \A q \in Requests : MissionOf[q] = m /\ pc[q] \in InThread => q = r
    BY ComesInTime, ContinuationAssumption
  <1>2. pc'[r] = st /\ \A q \in Requests : q # r => pc'[q] = pc[q]
    BY GotoLeaves DEF AllInv
  <1>3. \A n \in Missions : n # m => timers'[n] = timers[n]
    BY <1>1, SettersLeave DEF AllInv
  <1>4. ThreadInv'
    <2>1. \A q \in Requests : q # r /\ pc'[q] \in InThread =>
             MissionOf[q] # m /\ MissionOf[q] \in Missions /\ pc[q] \in InThread
      BY <1>1, <1>2, ContinuationAssumption
    <2>2. QED
      BY <1>1, <1>2, <1>3, <2>1, StillNoted DEF AllInv, SerialInv, ThreadInv
  <1>5. NoteInv' /\ ToldInv'
    BY StillNoted DEF AllInv, SerialInv, NoteInv, ToldInv, Whose
  <1>6. TimerInv'
    BY <1>1, <1>3, StillNoted DEF AllInv, SerialInv, TimerInv
  <1>7. AnswerInv'
    BY <1>2, StillNoted DEF AllInv, SerialInv, AnswerInv
  <1>8. WayInv'
    BY WayKept
  <1>9. QED
    BY <1>4, <1>5, <1>6, <1>7, <1>8 DEF SerialInv

(* A thread begins to tell the request that waits what the target said of it. *)
LEMMA EntersSerial ==
    ASSUME AllInv, NEW x \in Actors, NEW m \in Missions, NEW r \in Requests, MissionOf[r] = m,
           NEW res \in Results, Enters(x, m, res),
           callbackMap[m] = r, note[x].st = "idle",
           \A y \in Actors : ~Noted(y, m),
           res = "ok" <=> answer'[r] = "ok",
           \A q \in Requests : q # r => answer'[q] = answer[q],
           UNCHANGED <<callbackMap, cleaned>>
    PROVE  /\ NoteInv'
           /\ Noted(x, m)'
           /\ \A y \in Actors, n \in Missions : n # m => (Noted(y, n)' <=> Noted(y, n))
           /\ \A y \in Actors, n \in Missions :
                 n # m => ((Noted(y, n) /\ note[y].st = "popped")' <=> Noted(y, n) /\ note[y].st = "popped")
  <1>1. note'[x] = Notification(m, res) /\ \A y \in Actors : y # x => note'[y] = note[y]
    BY NoteType, BecomesNotes DEF Enters, AllInv
  <1>2. note'[x].st = "entered" /\ note'[x].m = m /\ note'[x].res = res
    BY <1>1 DEF Notification
  <1>3. Noted(x, m)' /\ \A n : n # m => ~Noted(x, n) /\ ~Noted(x, n)'
    BY <1>2 DEF Noted
  <1>4. \A n : \A y \in Actors : y # x => (Noted(y, n)' <=> Noted(y, n))
    BY <1>1 DEF Noted
  <1>5. NoteInv'
    <2>1. ASSUME NEW y \in Actors, y # x, note'[y].st # "idle"
          PROVE  /\ note'[y] = note[y] /\ note[y].m # m /\ note[y].st # "idle"
                 /\ Whose(y)' = Whose(y) /\ answer'[Whose(y)] = answer[Whose(y)]
      <3>1. note'[y] = note[y] /\ note[y].m # m
        BY <1>1, <2>1 DEF Noted
      <3>2. Whose(y)' = Whose(y)
        BY <3>1 DEF Whose
      <3>3. Whose(y) \in Requests /\ Whose(y) # r
        BY <2>1, <3>1 DEF AllInv, SerialInv, NoteInv
      <3>4. QED
        BY <2>1, <3>1, <3>2, <3>3
    <2>2. Whose(x)' = r
      BY <1>2 DEF Whose
    <2>3. ASSUME NEW y \in Actors, y # x, note'[y].st # "idle", NEW z \in Actors,
                 note'[z].st # "idle", note'[z].m = note'[y].m
          PROVE  z = y
      BY <1>1, <1>2, <2>1, <2>3 DEF AllInv, SerialInv, NoteInv, Noted
    <2>4. \A z \in Actors : note'[z].st # "idle" /\ note'[z].m = m => z = x
      BY <1>4 DEF Noted
    <2>5. ASSUME NEW y \in Actors, y # x, note'[y].st # "idle"
          PROVE  /\ note'[y].st # "notFound"
                 /\ Whose(y)' \in Requests /\ MissionOf[Whose(y)'] = note'[y].m
                 /\ note'[y].res = "ok" <=> answer'[Whose(y)'] = "ok"
                 /\ note'[y].st \in {"popped", "toTell"} => callbackMap'[note'[y].m] = None
                 /\ note'[y].st \in {"toPop", "popped", "toTell"} /\ note'[y].res = "ok" =>
                       note'[y].m \in cleaned'
      BY <2>1, <2>5 DEF AllInv, SerialInv, NoteInv
    <2>6. QED
      BY <1>2, <2>2, <2>3, <2>4, <2>5 DEF NoteInv, Noted
  <1>6. \A y \in Actors, n \in Missions : n # m => (Noted(y, n)' <=> Noted(y, n))
    BY <1>3, <1>4
  <1>7. \A y \in Actors, n \in Missions : n # m =>
           ((Noted(y, n) /\ note[y].st = "popped")' <=> Noted(y, n) /\ note[y].st = "popped")
    BY <1>1, <1>3, <1>4
  <1>8. QED
    BY <1>3, <1>5, <1>6, <1>7

(* The request itself is told, and has no thread then. *)
LEMMA AnswersSerial ==
    ASSUME ~Overlap, AllInv, NEW r \in Requests, InTime(r), note[r].st = "idle",
           pc[r] \in {"querying", "continuing", "remote", "late"},
           NEW st \in {"over", "late"}, Goto(r, st), NEW res \in Results, Enters(r, MissionOf[r], res),
           \/ res = "failed" /\ UNCHANGED answer
           \/ st = "over" /\ answer' = [answer EXCEPT ![r] = res],
           UNCHANGED <<callbackMap, timers, told, cleaned, lacking, target, way>>
    PROVE  SerialInv'
  <1> DEFINE m == MissionOf[r]
  <1>1. /\ m \in Missions /\ callbackMap[m] = r /\ r # None /\ r \in Actors
        /\ \A x \in Actors : ~Noted(x, m)
        /\ \A q \in Requests : MissionOf[q] = m /\ pc[q] \in InThread => q = r
    BY ComesInTime, ContinuationAssumption DEF Actors
  <1>2. pc'[r] = st /\ st \notin InThread /\ \A q \in Requests : q # r => pc'[q] = pc[q]
    BY GotoLeaves DEF AllInv, InThread, InCall
  <1>3. /\ \A q \in Requests : q # r => answer'[q] = answer[q]
        /\ res = "ok" <=> answer'[r] = "ok"
        /\ answer'[r] # "none" => st = "over"
    <2>1. answer[r] = "none"
      BY DEF AllInv, SerialInv, AnswerInv
    <2>2. QED
      BY <2>1 DEF AllInv, TypeInv, TypeOK, Results
  <1>4. /\ NoteInv'
        /\ Noted(r, m)'
        /\ \A y \in Actors, n \in Missions : n # m => (Noted(y, n)' <=> Noted(y, n))
        /\ \A y \in Actors, n \in Missions :
              n # m => ((Noted(y, n) /\ note[y].st = "popped")' <=> Noted(y, n) /\ note[y].st = "popped")
    BY <1>1, <1>3, EntersSerial
  <1>5. ThreadInv'
    <2>1. \A q \in Requests : pc'[q] \in InThread =>
             MissionOf[q] # m /\ MissionOf[q] \in Missions /\ pc[q] \in InThread /\ pc'[q] = pc[q]
      BY <1>1, <1>2, ContinuationAssumption
    <2>2. QED
      BY <1>4, <2>1 DEF AllInv, SerialInv, ThreadInv
  <1>6. TimerInv'
    <2>1. \A n \in Missions : callbackMap'[n] = None => n # m /\ callbackMap[n] = None
      BY <1>1
    <2>2. QED
      BY <1>4, <2>1 DEF AllInv, SerialInv, TimerInv
  <1>7. AnswerInv'
    <2>1. \A q \in Requests : MissionOf[q] \in Missions
      BY ContinuationAssumption
    <2>2. \A q \in Requests : q # r /\ callbackMap'[MissionOf[q]] = q => MissionOf[q] # m
      BY <1>1
    <2>3. QED
      BY <1>1, <1>2, <1>3, <1>4, <2>1, <2>2 DEF AllInv, SerialInv, AnswerInv
  <1>8. ToldInv'
    <2>1. told[r] = << >>
      BY <1>1 DEF AllInv, OnceInv, InMapInv, Gone
    <2>2. QED
      BY <1>3, <2>1 DEF AllInv, SerialInv, ToldInv
  <1>9. WayInv'
    <2>1. st \in {"remote", "late", "over"}
      OBVIOUS
    <2>2. QED
      BY <2>1, WayKept
  <1>10. QED
    BY <1>4, <1>5, <1>6, <1>7, <1>8, <1>9 DEF SerialInv

LEMMA AnswerSerialInv ==
    ASSUME ~Overlap, AllInv, NEW r \in Requests,
           \/ OnQueryInstallationFinished(r) \/ StartContinuation(r)
           \/ NotifyCompleteFreeInstallFromRemote(r) \/ NotifyContinuationResultFromRemote(r)
    PROVE  SerialInv'
  <1> DEFINE m == MissionOf[r]
  <1>1. /\ InTime(r) /\ pc[r] \in {"querying", "continuing", "remote", "late"}
        /\ UNCHANGED <<callbackMap, told, cleaned, lacking, target, way>>
    BY DEF OnQueryInstallationFinished, StartContinuation, NotifyCompleteFreeInstallFromRemote,
           NotifyContinuationResultFromRemote, tables, history
  <1>2. note[r].st = "idle"
    BY DEF OnQueryInstallationFinished, StartContinuation, NotifyCompleteFreeInstallFromRemote,
           NotifyContinuationResultFromRemote, AllInv, OnceInv, NotesInv
  <1>3. \/ /\ \E st \in {"queried", "started", "unarmed", "over"} : Goto(r, st)
           /\ pc[r] \in {"querying", "continuing"}
           /\ UNCHANGED <<note, answer>> /\ (UNCHANGED timers \/ RemoveTimeOut(m))
        \/ /\ \E st \in {"over", "late"} : Goto(r, st)
           /\ Enters(r, m, "failed") /\ UNCHANGED <<answer, timers>>
        \/ /\ Goto(r, "over") /\ UNCHANGED timers
           /\ \E res \in Results : Enters(r, m, res) /\ answer' = [answer EXCEPT ![r] = res]
    BY DEF OnQueryInstallationFinished, StartContinuation, NotifyCompleteFreeInstallFromRemote,
           NotifyContinuationResultFromRemote, ResultCode, Results, history
  <1>4. CASE /\ \E st \in {"queried", "started", "unarmed", "over"} : Goto(r, st)
             /\ pc[r] \in {"querying", "continuing"}
             /\ UNCHANGED <<note, answer>> /\ (UNCHANGED timers \/ RemoveTimeOut(m))
    BY <1>1, <1>4, ReturnsSerial
  <1>5. CASE /\ \E st \in {"over", "late"} : Goto(r, st)
             /\ Enters(r, m, "failed") /\ UNCHANGED <<answer, timers>>
    BY <1>1, <1>2, <1>5, AnswersSerial DEF Results
  <1>6. CASE /\ Goto(r, "over") /\ UNCHANGED timers
             /\ \E res \in Results : Enters(r, m, res) /\ answer' = [answer EXCEPT ![r] = res]
    BY <1>1, <1>2, <1>6, AnswersSerial
  <1>7. QED
    BY <1>3, <1>4, <1>5, <1>6

(* A timeout finds the callback it was set for. *)
LEMMA TimeoutSerialInv ==
    ASSUME ~Overlap, AllInv, NEW m \in Missions, ContinuationTimeout(m)
    PROVE  SerialInv'
  <1> DEFINE r == callbackMap[m]
  <1>1. /\ note[Handler].st = "idle" /\ timers[m] > 0 /\ Enters(Handler, m, "failed")
        /\ UNCHANGED <<callbackMap, answer, told, cleaned, pc, lacking, target, way>>
        /\ timers' = [timers EXCEPT ![m] = @ - 1]
        /\ Notifying(m) = {}
        /\ \A q \in Requests : MissionOf[q] = m => pc[q] \notin InThread
    BY DEF ContinuationTimeout, Pending, tables, history
  <1>2. \A x \in Actors : ~Noted(x, m)
    BY <1>1 DEF Notifying, Noted
  <1>3. r # None
    BY <1>1, <1>2 DEF AllInv, SerialInv, TimerInv
  <1>4. r \in Requests /\ MissionOf[r] = m /\ told[r] = << >>
    BY <1>3 DEF AllInv, TypeInv, TypeOK, OnceInv, InMapInv, Gone
  <1>5. answer[r] # "ok"
    BY <1>2, <1>4 DEF AllInv, SerialInv, AnswerInv
  <1>6. Handler \in Actors /\ "failed" \in Results
    BY DEF Actors, Results
  <1> HIDE DEF r
  <1>7. /\ NoteInv'
        /\ Noted(Handler, m)'
        /\ \A y \in Actors, n \in Missions : n # m => (Noted(y, n)' <=> Noted(y, n))
        /\ \A y \in Actors, n \in Missions :
              n # m => ((Noted(y, n) /\ note[y].st = "popped")' <=> Noted(y, n) /\ note[y].st = "popped")
    BY <1>1, <1>2, <1>4, <1>5, <1>6, EntersSerial DEF r
  <1>8. \A n \in Missions : n # m => timers'[n] = timers[n]
    BY <1>1 DEF AllInv, TypeInv, TypeOK
  <1>9. ThreadInv'
    <2>1. \A q \in Requests : pc'[q] \in InThread =>
             MissionOf[q] # m /\ MissionOf[q] \in Missions /\ pc'[q] = pc[q]
      BY <1>1, ContinuationAssumption
    <2>2. QED
      BY <1>1, <1>7, <1>8, <2>1 DEF AllInv, SerialInv, ThreadInv
  <1>10. TimerInv'
    <2>1. \A n \in Missions : callbackMap'[n] = None => n # m /\ callbackMap[n] = None
      BY <1>1, <1>3 DEF r
    <2>2. QED
      BY <1>7, <1>8, <2>1 DEF AllInv, SerialInv, TimerInv
  <1>11. AnswerInv'
    <2>1. \A q \in Requests : MissionOf[q] \in Missions
      BY ContinuationAssumption
    <2>2. \A q \in Requests : callbackMap'[MissionOf[q]] = q =>
             callbackMap[MissionOf[q]] = q /\ (q = r \/ MissionOf[q] # m)
      BY <1>1 DEF r
    <2>3. QED
      BY <1>1, <1>5, <1>7, <2>1, <2>2 DEF AllInv, SerialInv, AnswerInv
  <1>12. ToldInv' /\ WayInv'
    BY <1>1 DEF AllInv, SerialInv, ToldInv, WayInv
  <1>13. QED
    BY <1>7, <1>9, <1>10, <1>11, <1>12 DEF SerialInv

-----------------------------------------------------------------------------
(* What NotifyContinuationCallbackResult knows, run by x for the mission of its note. *)
LEMMA AloneWithMission ==
    ASSUME AllInv, NEW x \in Actors, note[x].st # "idle"
    PROVE  /\ note[x] \in Note /\ note[x].m \in Missions /\ Noted(x, note[x].m)
           /\ \A y \in Actors : y # x => ~Noted(y, note[x].m)
           /\ \A q \in Requests : MissionOf[q] = note[x].m => pc[q] \notin InThread
           /\ Whose(x) \in Requests /\ MissionOf[Whose(x)] = note[x].m
           /\ note[x].res = "ok" <=> answer[Whose(x)] = "ok"
  BY DEF AllInv, TypeInv, TypeOK, SerialInv, NoteInv, ThreadInv, Noted

(* Its note goes on, about the same mission and the same request. *)
LEMMA NoteGoesOn ==
    ASSUME AllInv, NEW x \in Actors, note[x].st # "idle", NEW n \in Note,
           n.st \notin {"idle", "notFound"}, n.m = note[x].m, n.res = note[x].res, Becomes(x, n),
           \/ note[x].st \notin {"popped", "toTell"} /\ n.st \notin {"popped", "toTell"}
              /\ callbackMap'[n.m] = callbackMap[n.m]
           \/ n.st \in {"popped", "toTell"} /\ n.cb = Whose(x) /\ callbackMap'[n.m] = None,
           n.st \in {"toPop", "popped", "toTell"} /\ n.res = "ok" => n.m \in cleaned',
           \A m \in Missions : m # n.m => callbackMap'[m] = callbackMap[m],
           cleaned \subseteq cleaned', UNCHANGED answer
    PROVE  NoteInv' /\ \A y \in Actors, m \in Missions : Noted(y, m)' <=> Noted(y, m)
  <1>1. note'[x] = n /\ \A y \in Actors : y # x => note'[y] = note[y]
    BY BecomesNotes DEF AllInv
  <1>2. \A y \in Actors, m \in Missions : Noted(y, m)' <=> Noted(y, m)
    BY <1>1 DEF Noted
  <1>3. Whose(x)' = Whose(x)
    BY <1>1 DEF Whose
  <1>4. ASSUME NEW y \in Actors, y # x, note'[y].st # "idle"
        PROVE  note'[y] = note[y] /\ note[y].m # n.m /\ note[y].m \in Missions /\ Whose(y)' = Whose(y)
    <2>1. note'[y] = note[y] /\ note[y].m # n.m /\ note[y].m \in Missions
      BY <1>1, <1>4, AloneWithMission DEF Noted, AllInv, TypeInv
    <2>2. QED
      BY <2>1 DEF Whose
  <1>5. ASSUME NEW y \in Actors, note'[y].st # "idle", NEW z \in Actors,
               note'[z].st # "idle", note'[z].m = note'[y].m
        PROVE  z = y
    BY <1>1, <1>5 DEF AllInv, SerialInv, NoteInv, Noted
  <1>6. ASSUME NEW y \in Actors, y # x, note'[y].st # "idle"
        PROVE  /\ note'[y].st # "notFound"
               /\ Whose(y)' \in Requests /\ MissionOf[Whose(y)'] = note'[y].m
               /\ note'[y].res = "ok" <=> answer'[Whose(y)'] = "ok"
               /\ note'[y].st \in {"popped", "toTell"} => callbackMap'[note'[y].m] = None
               /\ note'[y].st \in {"toPop", "popped", "toTell"} /\ note'[y].res = "ok" =>
                     note'[y].m \in cleaned'
    BY <1>4, <1>6 DEF AllInv, SerialInv, NoteInv
  <1>7. /\ note'[x].st # "notFound"
        /\ Whose(x)' \in Requests /\ MissionOf[Whose(x)'] = note'[x].m
        /\ note'[x].res = "ok" <=> answer'[Whose(x)'] = "ok"
        /\ note'[x].st \in {"popped", "toTell"} => callbackMap'[note'[x].m] = None
        /\ note'[x].st \in {"toPop", "popped", "toTell"} /\ note'[x].res = "ok" =>
              note'[x].m \in cleaned'
    BY <1>1, <1>3, AloneWithMission
  <1>8. NoteInv'
    BY <1>5, <1>6, <1>7 DEF NoteInv, Noted
  <1>9. QED
    BY <1>2, <1>8

(* The rest is as before if only the note goes on. *)
LEMMA OnlyNotes ==
    ASSUME AllInv, NEW x \in Actors, note[x].st \notin {"idle", "popped"}, NoteInv',
           \A y \in Actors, m \in Missions : Noted(y, m)' <=> Noted(y, m),
           \A y \in Actors : y # x => note'[y] = note[y],
           UNCHANGED <<callbackMap, timers, pc, lacking, target, way, answer, told>>,
           cleaned \subseteq cleaned'
    PROVE  SerialInv'
  <1>1. \A q \in Requests : MissionOf[q] \in Missions
    BY ContinuationAssumption
  <1>2. ThreadInv' /\ AnswerInv' /\ ToldInv' /\ WayInv'
    BY <1>1 DEF AllInv, SerialInv, ThreadInv, AnswerInv, ToldInv, WayInv
  <1>3. TimerInv'
    BY DEF AllInv, SerialInv, TimerInv
  <1>4. QED
    BY <1>2, <1>3 DEF SerialInv

LEMMA InProgressSerial ==
    ASSUME AllInv, NEW x \in Actors, IsInProgress(x) \/ CleanMission(x)
    PROVE  SerialInv'
  <1> DEFINE m == note[x].m
  <1>1. /\ note[x].st \in {"entered", "found"}
        /\ UNCHANGED <<callbackMap, timers, pc, lacking, target, way, answer, told>>
        /\ cleaned \subseteq cleaned'
    BY DEF IsInProgress, CleanMission, tables, history
  <1>2. callbackMap[m] # None
    BY <1>1, AloneWithMission, NotNone DEF Whose
  <1>3. PICK st \in {"found", "toPop"} : Advance(x, st) /\ (st = "toPop" <=> CleanMission(x))
    BY <1>2 DEF IsInProgress, CleanMission, IsInContinuationProgress
  <1>4. At(note[x], st) \in Note /\ At(note[x], st).st = st /\ At(note[x], st).m = m
        /\ At(note[x], st).res = note[x].res
    BY <1>1, NoteType, AloneWithMission DEF At
  <1>5. st = "toPop" /\ note[x].res = "ok" => m \in cleaned'
    BY <1>3 DEF CleanMission, Cleans
  <1>6. Becomes(x, At(note[x], st))
    BY <1>3 DEF Advance
  <1> DEFINE n == At(note[x], st)
  <1> HIDE DEF n
  <1>7. NoteInv' /\ \A y \in Actors, k \in Missions : Noted(y, k)' <=> Noted(y, k)
    <2>1. /\ n \in Note /\ n.st = st /\ n.m = m /\ n.res = note[x].res /\ Becomes(x, n)
      BY <1>4, <1>6 DEF n
    <2>2. /\ note[x].st \notin {"idle", "popped", "toTell"}
          /\ n.st \notin {"idle", "notFound", "popped", "toTell"}
      BY <1>1, <2>1
    <2>3. QED
      BY <1>1, <1>5, <2>1, <2>2, NoteGoesOn
  <1>8. \A y \in Actors : y # x => note'[y] = note[y]
    BY <1>4, <1>6, BecomesNotes DEF AllInv
  <1>9. QED
    BY <1>1, <1>7, <1>8, OnlyNotes

(* The callback leaves the map, and the timeout follows it at once. *)
LEMMA PopsToTellSerial ==
    ASSUME AllInv, NEW x \in Actors, PopsCallbackToTell(x)
    PROVE  SerialInv'
  <1> DEFINE m == note[x].m
             n == Holding(note[x], callbackMap[m])
  <1>1. /\ note[x].st = "toPop" /\ Becomes(x, n) /\ PopCallback(m)
        /\ UNCHANGED <<timers, pc, lacking, target, way, answer, told, cleaned>>
    BY DEF PopsCallbackToTell, history
  <1>2. /\ note[x] \in Note /\ m \in Missions
        /\ Whose(x) = callbackMap[m] /\ callbackMap[m] \in Requests
        /\ \A q \in Requests : MissionOf[q] = m => pc[q] \notin InThread
    BY <1>1, AloneWithMission DEF Whose
  <1>3. /\ n \in Note /\ n.st = "popped" /\ n.m = m /\ n.res = note[x].res /\ n.cb = callbackMap[m]
    BY <1>2, NoteType DEF Holding
  <1>4. /\ callbackMap'[m] = None
        /\ \A k \in Missions : k # m => callbackMap'[k] = callbackMap[k]
    BY <1>1, <1>2, PopCallbackLeaves DEF AllInv
  <1>5. note[x].res = "ok" => m \in cleaned
    BY <1>1 DEF AllInv, SerialInv, NoteInv
  <1>6. note'[x] = n /\ \A y \in Actors : y # x => note'[y] = note[y]
    BY <1>1, <1>3, BecomesNotes DEF AllInv
  <1> HIDE DEF n
  <1>7. NoteInv' /\ \A y \in Actors, k \in Missions : Noted(y, k)' <=> Noted(y, k)
    BY <1>1, <1>2, <1>3, <1>4, <1>5, NoteGoesOn
  <1>8. ThreadInv'
    <2>1. \A q \in Requests : pc'[q] \in InThread =>
             MissionOf[q] # m /\ MissionOf[q] \in Missions /\ pc'[q] = pc[q]
      BY <1>1, <1>2, ContinuationAssumption
    <2>2. QED
      BY <1>1, <1>4, <1>7, <2>1 DEF AllInv, SerialInv, ThreadInv
  <1>9. TimerInv'
    <2>1. note'[x].m = m /\ note'[x].st = "popped"
      BY <1>3, <1>6
    <2>2. ASSUME NEW k \in Missions, k # m, timers'[k] > 0, callbackMap'[k] = None
          PROVE  \E y \in Actors : Noted(y, k)' /\ note'[y].st = "popped"
      <3>1. PICK y \in Actors : Noted(y, k) /\ note[y].st = "popped"
        BY <1>1, <1>4, <2>2 DEF AllInv, SerialInv, TimerInv
      <3>2. y # x
        BY <1>1, <3>1
      <3>3. QED
        BY <1>6, <1>7, <3>1, <3>2
    <2>3. QED
      BY <2>1, <2>2 DEF TimerInv, Noted
  <1>10. AnswerInv'
    <2>1. \A q \in Requests : MissionOf[q] \in Missions
      BY ContinuationAssumption
    <2>2. \A q \in Requests : callbackMap'[MissionOf[q]] = q => callbackMap[MissionOf[q]] = q
      BY <1>4, <2>1, NotNone
    <2>3. QED
      BY <1>1, <1>7, <2>1, <2>2 DEF AllInv, SerialInv, AnswerInv
  <1>11. ToldInv' /\ WayInv'
    BY <1>1 DEF AllInv, SerialInv, ToldInv, WayInv
  <1>12. QED
    BY <1>7, <1>8, <1>9, <1>10, <1>11 DEF SerialInv

LEMMA RemovesSerial ==
    ASSUME AllInv, NEW x \in Actors, RemovesTimeOut(x)
    PROVE  SerialInv'
  <1> DEFINE m == note[x].m
             n == At(note[x], "toTell")
  <1>1. /\ note[x].st = "popped" /\ Becomes(x, n) /\ RemoveTimeOut(m)
        /\ UNCHANGED <<callbackMap, pc, lacking, target, way, answer, told, cleaned>>
    BY DEF RemovesTimeOut, Advance, tables, history
  <1>2. /\ note[x] \in Note /\ m \in Missions /\ Whose(x) = note[x].cb
        /\ \A y \in Actors : y # x => ~Noted(y, m)
        /\ \A q \in Requests : MissionOf[q] = m => pc[q] \notin InThread
    BY <1>1, AloneWithMission DEF Whose
  <1>3. n \in Note /\ n.st = "toTell" /\ n.m = m /\ n.res = note[x].res /\ n.cb = note[x].cb
    BY <1>2, NoteType DEF At
  <1>4. timers'[m] = 0 /\ \A k \in Missions : k # m => timers'[k] = timers[k]
    BY <1>1, <1>2, SettersLeave DEF AllInv
  <1>5. (note[x].res = "ok" => m \in cleaned) /\ callbackMap[m] = None
    BY <1>1 DEF AllInv, SerialInv, NoteInv
  <1>6. note'[x] = n /\ \A y \in Actors : y # x => note'[y] = note[y]
    BY <1>1, <1>3, BecomesNotes DEF AllInv
  <1> HIDE DEF n
  <1>7. NoteInv' /\ \A y \in Actors, k \in Missions : Noted(y, k)' <=> Noted(y, k)
    BY <1>1, <1>2, <1>3, <1>5, NoteGoesOn
  <1>8. ThreadInv'
    <2>1. \A q \in Requests : pc'[q] \in InThread =>
             MissionOf[q] # m /\ MissionOf[q] \in Missions /\ pc'[q] = pc[q]
      BY <1>1, <1>2, ContinuationAssumption
    <2>2. QED
      BY <1>1, <1>4, <1>7, <2>1 DEF AllInv, SerialInv, ThreadInv
  <1>9. TimerInv'
    <2>1. ASSUME NEW k \in Missions, timers'[k] > 0, callbackMap'[k] = None
          PROVE  \E y \in Actors : Noted(y, k)' /\ note'[y].st = "popped"
      <3>1. k # m
        BY <1>4, <2>1
      <3>2. PICK y \in Actors : Noted(y, k) /\ note[y].st = "popped"
        BY <1>1, <1>4, <2>1, <3>1 DEF AllInv, SerialInv, TimerInv
      <3>3. y # x
        BY <3>1, <3>2 DEF Noted
      <3>4. QED
        BY <1>6, <1>7, <3>2, <3>3
    <2>2. QED
      BY <2>1 DEF TimerInv
  <1>10. AnswerInv' /\ ToldInv' /\ WayInv'
    <2>1. \A q \in Requests : MissionOf[q] \in Missions
      BY ContinuationAssumption
    <2>2. QED
      BY <1>1, <1>7, <2>1 DEF AllInv, SerialInv, AnswerInv, ToldInv, WayInv
  <1>11. QED
    BY <1>7, <1>8, <1>9, <1>10 DEF SerialInv

(* The callback is told; nobody has the mission in hand any more, and it has no timeout. *)
LEMMA TellsSerial ==
    ASSUME AllInv, NEW x \in Actors, TellsCallback(x)
    PROVE  SerialInv'
  <1> DEFINE m == note[x].m
             r == note[x].cb
  <1>1. /\ note[x].st = "toTell" /\ Becomes(x, NoNote)
        /\ told' = [q \in Requests |-> IF q = r THEN Append(told[q], note[x].res) ELSE told[q]]
        /\ UNCHANGED <<callbackMap, timers, pc, lacking, target, way, answer, cleaned>>
    BY DEF TellsCallback, tables
  <1>2. /\ note[x] \in Note /\ m \in Missions /\ Noted(x, m) /\ Whose(x) = r
        /\ r \in Requests /\ MissionOf[r] = m
        /\ note[x].res = "ok" <=> answer[r] = "ok"
        /\ \A y \in Actors : y # x => ~Noted(y, m)
    BY <1>1, AloneWithMission DEF Whose
  <1>3. (note[x].res = "ok" => m \in cleaned) /\ callbackMap[m] = None
    BY <1>1 DEF AllInv, SerialInv, NoteInv
  <1>4. note'[x].st = "idle" /\ \A y \in Actors : y # x => note'[y] = note[y]
    BY <1>1, NoteType, BecomesNotes DEF AllInv
  <1>5. /\ \A y \in Actors, k \in Missions : Noted(y, k)' => Noted(y, k)
        /\ \A y \in Actors, k \in Missions : k # m => (Noted(y, k)' <=> Noted(y, k))
        /\ \A y \in Actors : note'[y].st # "idle" => note'[y].m # m
    BY <1>2, <1>4 DEF Noted
  <1>6. told'[r][1] = note[x].res /\ \A q \in Requests : q # r => told'[q] = told[q]
    <2>1. told[r] = << >>
      BY <1>2 DEF AllInv, OnceInv, HeldInv, Gone
    <2>2. QED
      BY <1>1, <1>2, <2>1
  <1> HIDE DEF r
  <1>7. ThreadInv'
    <2>1. \A q \in Requests : MissionOf[q] \in Missions
      BY ContinuationAssumption
    <2>2. QED
      BY <1>1, <1>5, <2>1 DEF AllInv, SerialInv, ThreadInv
  <1>8. NoteInv'
    <2>1. \A y \in Actors : note'[y].st # "idle" => y # x /\ note'[y] = note[y] /\ Whose(y)' = Whose(y)
      BY <1>1, <1>4 DEF Whose
    <2>2. QED
      BY <1>1, <2>1 DEF AllInv, SerialInv, NoteInv, Noted
  <1>9. TimerInv'
    <2>1. ASSUME NEW k \in Missions, timers'[k] > 0, callbackMap'[k] = None
          PROVE  \E y \in Actors : Noted(y, k)' /\ note'[y].st = "popped"
      <3>1. PICK y \in Actors : Noted(y, k) /\ note[y].st = "popped"
        BY <1>1, <2>1 DEF AllInv, SerialInv, TimerInv
      <3>2. y # x
        BY <1>1, <3>1
      <3>3. QED
        BY <1>2, <1>4, <1>5, <3>1, <3>2
    <2>2. QED
      BY <2>1 DEF TimerInv
  <1>10. AnswerInv'
    <2>1. \A q \in Requests : MissionOf[q] \in Missions
      BY ContinuationAssumption
    <2>2. \A q \in Requests : callbackMap[MissionOf[q]] = q => MissionOf[q] # m
      BY <1>3, NotNone
    <2>3. QED
      BY <1>1, <1>5, <2>1, <2>2 DEF AllInv, SerialInv, AnswerInv
  <1>11. ToldInv'
    BY <1>1, <1>2, <1>3, <1>6 DEF AllInv, SerialInv, ToldInv
  <1>12. WayInv'
    BY <1>1 DEF AllInv, SerialInv, WayInv
  <1>13. QED
    BY <1>7, <1>8, <1>9, <1>10, <1>11, <1>12 DEF SerialInv

LEMMA NotifySerialInv ==
    ASSUME AllInv, NEW x \in Actors, NotifyStep(x)
    PROVE  SerialInv'
  <1>1. ~NotifyAms(x)
    BY DEF NotifyAms, AllInv, SerialInv, NoteInv
  <1>2. QED
    BY <1>1, InProgressSerial, PopsToTellSerial, RemovesSerial, TellsSerial DEF NotifyStep

LEMMA NextSerialInv ==
    ASSUME Serial, ~Overlap, AllInv, [Next]_vars
    PROVE  SerialInv'
  <1>1. CASE UNCHANGED vars
    <2>1. ThreadInv' /\ TimerInv'
      BY <1>1, StillNoted DEF vars, tables, AllInv, SerialInv, ThreadInv, TimerInv
    <2>2. NoteInv'
      BY <1>1 DEF vars, tables, history, AllInv, SerialInv, NoteInv, Noted, Whose
    <2>3. AnswerInv' /\ ToldInv' /\ WayInv'
      BY <1>1, StillNoted DEF vars, tables, history, AllInv, SerialInv, AnswerInv, ToldInv, WayInv
    <2>4. QED
      BY <2>1, <2>2, <2>3 DEF SerialInv
  <1>2. ASSUME NEW r \in Requests, RequestStep(r)
        PROVE  SerialInv'
    BY <1>2, ChecksSerial, PushesSerial, ContinuesSerial, TakesBackSerial, StartsSerial DEF RequestStep
  <1>3. QED
    BY <1>1, <1>2, BeginsSerial, AnswerSerialInv, TimeoutSerialInv, NotifySerialInv DEF Next

LEMMA AlwaysAllInv ==
    ASSUME Serial, ~Overlap
    PROVE  Spec => []AllInv
  <1>1. Init => TablesInv
    BY DEF Init, TablesInv, OneRequest
  <1>2. Init => OnceInv
    BY NotNone DEF Init, OnceInv, NotesInv, InMapInv, HeldInv, GoneInv, Gone, Fresh, NoNote, Actors
  <1>3. Init => SerialInv
    <2>1. SUFFICES ASSUME Init PROVE SerialInv
      OBVIOUS
    <2>2. \A x \in Actors : note[x].st = "idle"
      BY <2>1, NoteType DEF Init
    <2>3. \A m \in Missions : timers[m] = 0
      BY <2>1 DEF Init
    <2>4. ThreadInv /\ NoteInv /\ TimerInv
      BY <2>1, <2>2, <2>3 DEF Init, ThreadInv, NoteInv, TimerInv, InThread, InCall
    <2>5. AnswerInv /\ ToldInv /\ WayInv
      BY <2>1 DEF Init, AnswerInv, ToldInv, WayInv
    <2>6. QED
      BY <2>4, <2>5 DEF SerialInv
  <1>4. AllInv /\ [Next]_vars => AllInv'
    <2>1. SUFFICES ASSUME AllInv, [Next]_vars PROVE AllInv'
      OBVIOUS
    <2>2. TypeInv'
      <3>1. CASE UNCHANGED vars
        BY <2>1, <3>1 DEF vars, tables, history, AllInv, TypeInv, TypeOK
      <3>2. CASE Next
        BY <2>1, <3>2, RequestTypeInv, AnswerTypeInv, TimeoutTypeInv, NotifyTypeInv DEF Next, AllInv
      <3>3. QED
        BY <2>1, <3>1, <3>2
    <2>3. OnceInv' /\ TablesInv'
      BY <2>1, NextOnceInv, NextTablesInv DEF AllInv
    <2>4. QED
      BY <2>1, <2>2, <2>3, NextSerialInv DEF AllInv
  <1>5. Init => AllInv
    BY <1>1, <1>2, <1>3, InitTypeInv DEF AllInv
  <1>6. QED
    BY <1>4, <1>5, PTL DEF Spec

(* If a mission is requested anew only when its last request is settled, and answers do  *)
(* not race with the timeout, each callback is told what became of its own request, for  *)
(* any number of requests that follow one another and any missions that do not wait.      *)
THEOREM ToldTheTruthCorrect ==
    ASSUME Serial, ~Overlap
    PROVE  Spec => []ToldTheTruth
  <1>1. AllInv => ToldTheTruth
    <2>1. SUFFICES ASSUME AllInv, NEW r \in Requests, NEW i \in 1..Len(told[r])
                   PROVE  /\ told[r][i] = "ok" => MissionOf[r] \in cleaned
                          /\ told[r][i] = "ok" <=> answer[r] = "ok"
      BY DEF ToldTheTruth
    <2>2. told[r] # << >>
      BY <2>1 DEF AllInv, TypeInv, TypeOK
    <2>3. Len(told[r]) = 1
      BY <2>1, <2>2, Zenon DEF AllInv, OnceInv, GoneInv
    <2>4. i = 1
      BY <2>3
    <2>5. QED
      BY <2>1, <2>2, <2>4 DEF AllInv, SerialInv, ToldInv
  <1>2. QED
    BY <1>1, AlwaysAllInv, PTL

(* Under the same conditions a request goes to its own device by its own way, although   *)
(* both are looked up by the mission, in a later call.                                    *)
THEOREM GoesItsOwnWayCorrect ==
    ASSUME Serial, ~Overlap
    PROVE  Spec => []GoesItsOwnWay
  <1>1. AllInv => GoesItsOwnWay
    BY DEF AllInv, SerialInv, WayInv, GoesItsOwnWay
  <1>2. QED
    BY <1>1, AlwaysAllInv, PTL

(* Under the same conditions no timeout outlives its callback once everything has run:    *)
(* the threads that leave one set are those that tell, and remove it next.                 *)
THEOREM NoStrayTimerCorrect ==
    ASSUME Serial, ~Overlap
    PROVE  Spec => []NoStrayTimer
  <1>1. AllInv => NoStrayTimer
    BY DEF AllInv, SerialInv, TimerInv, NoStrayTimer, Notifying, Noted
  <1>2. QED
    BY <1>1, AlwaysAllInv, PTL
=============================================================================
