-------------------------- MODULE DmsMissionSyncProofs --------------------------
(***************************************************************************)
(* What DmsMissionSync promises for any clients and applications, however  *)
(* their calls, the tasks of the server and the failures interleave.       *)
(***************************************************************************)
EXTENDS DmsMissionSync, SequenceTheorems, TLAPS

-----------------------------------------------------------------------------
(* Types, by who keeps the state. *)
ListenerType ==
    /\ listenerSet \in [Clients -> SUBSET Apps]
    /\ cache \in [Clients -> Versions \cup {None}]
    /\ remoteDms \in [Clients -> {"none", "live", "dead"}]
TaskType ==
    /\ died \in SUBSET Apps /\ dmsDied \in SUBSET Clients
    /\ retries \in [Clients -> SUBSET (0..MaxRetryTimes - 1)]
ThreadType ==
    /\ th \in [Threads -> Thread]
    /\ serving \in [Threads -> {"idle", "called", "added"}]
ServerType ==
    /\ syncSet \in SUBSET Clients /\ away \in SUBSET Clients
    /\ queue \in Seq({"register", "unregister"})
ChangeType ==
    /\ changes \in Nat /\ reading \in Versions \cup {None}
    /\ outbox \in [Clients -> Seq(Versions)]
    /\ reading # None => changes > 0
EnvType ==
    /\ missions \in Versions /\ alive \in SUBSET Apps /\ overlap \in Overlaps
    /\ deaths \in 0..MaxDeaths
LinkType ==
    /\ downs \in 0..MaxDowns
    /\ clientEvents \in [Clients -> Seq({"offline", "online"})]
    /\ serverEvents \in [Clients -> Seq({"offline", "online"})]
GhostType == loose \in SUBSET Clients /\ missed \in SUBSET Clients
FlagType ==
    /\ called \in [Clients -> BOOLEAN] /\ link \in [Clients -> BOOLEAN]
    /\ up \in BOOLEAN /\ isReg \in BOOLEAN /\ unheard \in BOOLEAN

TypeInv ==
    /\ ListenerType /\ TaskType /\ ThreadType /\ ServerType
    /\ ChangeType /\ EnvType /\ LinkType /\ GhostType /\ FlagType

LEMMA TypeInvType == TypeInv => TypeOK
  BY DEF TypeInv, TypeOK, ListenerType, TaskType, ThreadType, ServerType, ChangeType, EnvType,
         LinkType, GhostType, FlagType

(* The threads of a client, and what they can be doing. *)
LEMMA HomeType == \A x \in Threads : Home(x) \in Clients
  BY MissionSyncAssumption DEF Threads, Home

LEMMA IdleType ==
    /\ Idle \in Thread
    /\ \A place \in Places : At(place) \in Thread /\ At(place).pc = place
    /\ \A tries \in 0..MaxRetryTimes :
          [At("getDms") EXCEPT !.tries = tries] \in Thread
    /\ \A infos \in Versions :
          [At("replied") EXCEPT !.infos = infos] \in Thread
  <1>1. 0 \in 0..MaxRetryTimes /\ 0 \in Versions /\ {"idle", "getDms", "replied"} \subseteq Places
    BY MissionSyncAssumption DEF Versions, Places
  <1>2. Idle \in Thread
    BY <1>1 DEF Idle, Thread
  <1>3. \A place \in Places : At(place) = [pc |-> place, tries |-> 0, infos |-> 0]
    BY DEF At, Idle
  <1>4. \A place \in Places : At(place) \in Thread /\ At(place).pc = place
    BY <1>1, <1>3 DEF Thread
  <1>5. At("getDms") \in Thread /\ At("replied") \in Thread
    BY <1>1, <1>4
  <1>6. QED
    BY <1>2, <1>4, <1>5 DEF Thread

LEMMA GoesType ==
    ASSUME ThreadType, NEW x \in Threads, NEW r \in Thread, Goes(x, r)
    PROVE  th' \in [Threads -> Thread]
  BY DEF ThreadType, Goes

LEMMA InitType == Init => TypeInv
  <1>1. SUFFICES ASSUME Init PROVE TypeInv
    OBVIOUS
  <1>2. ListenerType /\ TaskType
    BY <1>1 DEF Init, ListenerType, TaskType
  <1>3. ThreadType
    BY <1>1, IdleType DEF Init, ThreadType
  <1>4. ServerType
    BY <1>1 DEF Init, ServerType
  <1>5. ChangeType
    BY <1>1 DEF Init, ChangeType
  <1>6. EnvType
    BY <1>1, MissionSyncAssumption DEF Init, EnvType, Versions
  <1>7. LinkType /\ GhostType
    BY <1>1, MissionSyncAssumption DEF Init, LinkType, GhostType
  <1>8. FlagType
    BY <1>1, Zenon DEF Init, FlagType
  <1>9. QED
    BY <1>2, <1>3, <1>4, <1>5, <1>6, <1>7, <1>8 DEF TypeInv

LEMMA CallType ==
    ASSUME TypeInv, NEW a \in Apps, AppStep(a) \/ Call(a) \/ AppDies(a)
    PROVE  TypeInv'
  <1> DEFINE c == ClientOf[a]
  <1> USE DEF AppStep, Call, AppDies, RegisterMissionListener, SetsCalled, OnMissionListenerDied,
              RegistersListener, UnRegisterMissionListener, StartSyncRemoteMissions,
              StopSyncRemoteMissions
  <1>1. c \in Clients /\ a \in Threads /\ c \in Threads
    BY MissionSyncAssumption DEF Threads
  <1>2. UNCHANGED <<serverVars, serving, notifyVars, linkVars, missions, deaths, overlap>>
    BY DEF envVars
  <1>3. ListenerType'
    <2>1. UNCHANGED remoteDms /\ (UNCHANGED cache \/ Cleaned(c))
      BY DEF clientVars
    <2>2. \/ UNCHANGED listenerSet
          \/ \E S \in SUBSET Apps : listenerSet' = [listenerSet EXCEPT ![c] = S]
      BY <1>1 DEF clientVars, EraseListener, Without, TypeInv, ListenerType
    <2>3. QED
      BY <1>1, <2>1, <2>2 DEF TypeInv, ListenerType, Cleaned
  <1>4. TaskType'
    BY <1>1 DEF TypeInv, TaskType, taskVars
  <1>5. ThreadType'
    <2>1. \/ UNCHANGED th
          \/ Goes(c, At("toStop"))
          \/ \E place \in Places : Goes(a, At(place))
          \/ Goes(a, Idle)
      BY DEF Places
    <2>2. th' \in [Threads -> Thread]
      BY <1>1, <2>1, GoesType, IdleType DEF Places, TypeInv, ThreadType
    <2>3. QED
      BY <1>2, <2>2 DEF TypeInv, ThreadType
  <1>6. GhostType'
    BY <1>1 DEF TypeInv, GhostType, ghosts
  <1>7. EnvType'
    BY <1>2 DEF TypeInv, EnvType, envVars
  <1>8. ServerType' /\ ChangeType' /\ LinkType'
    BY <1>2 DEF TypeInv, ServerType, ChangeType, LinkType, serverVars, linkVars, notifyVars
  <1>9. FlagType'
    <2>1. UNCHANGED <<link, up, isReg, unheard>>
      BY <1>2 DEF linkVars, serverVars, ghosts
    <2>2. \/ UNCHANGED called
          \/ called' = [called EXCEPT ![c] = TRUE]
          \/ called' = [called EXCEPT ![c] = FALSE]
      <3>1. UNCHANGED called \/ EraseListener(c, a) \/
            called' = [called EXCEPT ![c] = listenerSet[c] # {}]
        BY DEF clientVars
      <3>2. CASE EraseListener(c, a)
        <4>1. CASE called[c] /\ Without(c, a) # {}
          BY <3>2, <4>1 DEF EraseListener
        <4>2. CASE ~(called[c] /\ Without(c, a) # {})
          BY <3>2, <4>2 DEF EraseListener
        <4>3. QED
          BY <4>1, <4>2
      <3>3. CASE called' = [called EXCEPT ![c] = listenerSet[c] # {}]
        <4>1. CASE listenerSet[c] # {}
          BY <3>3, <4>1
        <4>2. CASE ~(listenerSet[c] # {})
          BY <3>3, <4>2
        <4>3. QED
          BY <4>1, <4>2
      <3>4. QED
        BY <3>1, <3>2, <3>3
    <2>3. QED
      BY <1>1, <2>1, <2>2, Zenon DEF TypeInv, FlagType
  <1>10. QED
    BY <1>3, <1>4, <1>5, <1>6, <1>7, <1>8, <1>9 DEF TypeInv

LEMMA QueueType ==
    ASSUME ServerType, NEW task \in {"register", "unregister"}
    PROVE  Append(queue, task) \in Seq({"register", "unregister"})
  BY DEF ServerType

LEMMA ThreadStepType ==
    ASSUME TypeInv, NEW x \in Threads, ThreadStep(x)
    PROVE  TypeInv'
  <1> DEFINE c == Home(x)
  <1> USE DEF ThreadStep, CallsStart, AddsSyncDevice, AnswersStart, StartFails,
              RebornMissionCache, StopsRemote
  <1>1. c \in Clients
    BY HomeType
  <1>2. UNCHANGED <<listenerSet, called, died, dmsDied, up, isReg, away, notifyVars, envVars, unheard>>
    BY DEF clientVars, serverVars, taskVars, ghosts
  <1>3. ListenerType'
    <2>1. \/ UNCHANGED remoteDms
          \/ remoteDms' = [remoteDms EXCEPT ![c] = "live"]
      BY DEF KeepsDms, clientVars
    <2>2. \/ UNCHANGED cache
          \/ \E infos \in Versions : cache' = [cache EXCEPT ![c] = infos]
      BY DEF clientVars, Receives, TypeInv, ThreadType, Thread
    <2>3. QED
      BY <1>1, <1>2, <2>1, <2>2 DEF TypeInv, ListenerType
  <1>4. TaskType'
    <2>1. \/ UNCHANGED retries
          \/ \E tries \in 0..MaxRetryTimes - 1 :
                retries' = [retries EXCEPT ![c] = retries[c] \cup {tries}]
      <3>1. th[x].tries \in 0..MaxRetryTimes
        BY DEF TypeInv, ThreadType, Thread
      <3>2. PICK tries \in Nat : UNCHANGED retries \/ RetryStartSyncRemoteMissions(c, tries)
        <4>1. UNCHANGED retries \/ RetryStartSyncRemoteMissions(c, 0)
                                \/ RetryStartSyncRemoteMissions(c, th[x].tries + 1)
          BY DEF taskVars
        <4>2. QED
          BY <3>1, <4>1
      <3>3. CASE tries < MaxRetryTimes
        <4>1. tries \in 0..MaxRetryTimes - 1
          BY <3>3, MissionSyncAssumption
        <4>2. QED
          BY <3>2, <4>1 DEF RetryStartSyncRemoteMissions
      <3>4. CASE ~(tries < MaxRetryTimes)
        BY <3>2, <3>4 DEF RetryStartSyncRemoteMissions, MayRetry
      <3>5. QED
        BY <3>3, <3>4
    <2>2. QED
      BY <1>1, <1>2, <2>1 DEF TypeInv, TaskType
  <1>5. ThreadType'
    <2>1. \/ UNCHANGED th
          \/ Goes(x, Idle)
          \/ \E place \in Places : Goes(x, At(place))
          \/ Goes(x, [At("replied") EXCEPT !.infos = missions])
      BY DEF Places
    <2>2. missions \in Versions
      BY DEF TypeInv, EnvType
    <2>3. th' \in [Threads -> Thread]
      BY <2>1, <2>2, GoesType, IdleType DEF TypeInv, ThreadType
    <2>4. \/ UNCHANGED serving
          \/ \E w \in {"idle", "called", "added"} : serving' = [serving EXCEPT ![x] = w]
      OBVIOUS
    <2>5. QED
      BY <2>3, <2>4 DEF TypeInv, ThreadType
  <1>6. ServerType'
    <2>1. \/ UNCHANGED queue
          \/ \E task \in {"register", "unregister"} : queue' = Append(queue, task)
      BY DEF Withdraws, serverVars
    <2>2. \/ UNCHANGED syncSet
          \/ syncSet' = syncSet \cup {c}
          \/ syncSet' = syncSet \ {c}
      BY DEF Withdraws, serverVars
    <2>3. QED
      BY <1>1, <1>2, <2>1, <2>2, QueueType DEF TypeInv, ServerType
  <1>7. GhostType'
    <2>1. \/ UNCHANGED loose
          \/ loose' = loose \cup {c}
          \/ loose' = loose \ {c}
      BY DEF RetryStartSyncRemoteMissions, ghosts
    <2>2. \/ UNCHANGED missed
          \/ missed' = missed \cup {c}
          \/ missed' = missed \ {c}
      BY DEF Receives, ghosts
    <2>3. QED
      BY <1>1, <2>1, <2>2 DEF TypeInv, GhostType
  <1>8. ChangeType' /\ EnvType' /\ LinkType'
    BY <1>2 DEF TypeInv, ChangeType, EnvType, LinkType, notifyVars, envVars, linkVars
  <1>9. FlagType'
    BY <1>2 DEF TypeInv, FlagType, envVars, linkVars
  <1>10. QED
    BY <1>3, <1>4, <1>5, <1>6, <1>7, <1>8, <1>9 DEF TypeInv

LEMMA HandlerStepType ==
    ASSUME TypeInv, NEW c \in Clients, HandlerStep(c)
    PROVE  TypeInv'
  <1> USE DEF HandlerStep, RetryFunc, OnRemoteDmsDied
  <1>1. UNCHANGED <<listenerSet, called, cache, died, serverVars, serving, notifyVars, envVars, ghosts>>
    BY DEF clientVars
  <1>2. ListenerType'
    BY <1>1 DEF TypeInv, ListenerType, clientVars
  <1>3. TaskType'
    <2>1. \/ UNCHANGED retries
          \/ \E tries \in retries[c] : retries' = [retries EXCEPT ![c] = retries[c] \ {tries}]
          \/ retries' = [retries EXCEPT ![c] = retries[c] \cup {0}]
      OBVIOUS
    <2>2. UNCHANGED dmsDied \/ dmsDied' = dmsDied \ {c}
      OBVIOUS
    <2>3. QED
      BY <1>1, <2>1, <2>2, MissionSyncAssumption DEF TypeInv, TaskType
  <1>4. ThreadType'
    <2>1. \/ UNCHANGED th
          \/ \E tries \in retries[c] : Goes(c, [At("getDms") EXCEPT !.tries = tries])
      OBVIOUS
    <2>2. c \in Threads /\ retries[c] \subseteq 0..MaxRetryTimes
      BY MissionSyncAssumption DEF Threads, TypeInv, TaskType
    <2>3. th' \in [Threads -> Thread]
      BY <2>1, <2>2, GoesType, IdleType DEF TypeInv, ThreadType
    <2>4. QED
      BY <1>1, <2>3 DEF TypeInv, ThreadType
  <1>5. ServerType' /\ ChangeType' /\ EnvType' /\ LinkType' /\ GhostType'
    BY <1>1 DEF TypeInv, ServerType, ChangeType, EnvType, LinkType, GhostType, serverVars,
                notifyVars, envVars, linkVars, ghosts
  <1>6. FlagType'
    BY <1>1 DEF TypeInv, FlagType, serverVars, envVars, linkVars, ghosts
  <1>7. QED
    BY <1>2, <1>3, <1>4, <1>5, <1>6 DEF TypeInv

LEMMA EventsType ==
    ASSUME LinkType, NEW c \in Clients, NEW event \in {"offline", "online"}, LinkChange(c, event)
    PROVE  /\ clientEvents' \in [Clients -> Seq({"offline", "online"})]
           /\ serverEvents' \in [Clients -> Seq({"offline", "online"})]
  BY DEF LinkType, LinkChange

LEMMA DeviceStepType ==
    ASSUME TypeInv, NEW c \in Clients, DeviceStep(c) \/ LinkDown(c) \/ LinkUp(c)
    PROVE  TypeInv'
  <1> USE DEF DeviceStep, NotifyMissionsChangedFromRemote, ClientNotified, ServerNotified,
              LinkDown, LinkUp
  <1>1. UNCHANGED <<taskVars, th, up, isReg, serving, changes, reading, missions, alive, deaths,
                    overlap, unheard>>
    BY DEF serverVars, notifyVars, envVars, ghosts
  <1>2. ListenerType'
    <2>1. \/ UNCHANGED cache
          \/ Cleaned(c)
          \/ \E infos \in Versions : cache' = [cache EXCEPT ![c] = infos]
      <3>1. outbox[c] # << >> => Head(outbox[c]) \in Versions
        BY DEF TypeInv, ChangeType
      <3>2. QED
        BY <3>1 DEF clientVars, Receives
    <2>2. UNCHANGED remoteDms \/ remoteDms' = [remoteDms EXCEPT ![c] = "none"]
      BY DEF clientVars
    <2>3. UNCHANGED listenerSet \/ listenerSet' = [listenerSet EXCEPT ![c] = {}]
      BY DEF clientVars
    <2>4. QED
      BY <2>1, <2>2, <2>3 DEF TypeInv, ListenerType, Cleaned
  <1>3. TaskType' /\ ThreadType'
    BY <1>1 DEF TypeInv, TaskType, ThreadType, taskVars
  <1>4. ServerType'
    <2>1. UNCHANGED queue \/ queue' = Append(queue, "unregister")
      BY DEF serverVars, Withdraws
    <2>2. UNCHANGED syncSet \/ syncSet' = syncSet \ {c}
      BY DEF serverVars, Withdraws
    <2>3. UNCHANGED away \/ away' = away \cup {c} \/ away' = away \ {c}
      BY DEF serverVars
    <2>4. QED
      BY <2>1, <2>2, <2>3, QueueType DEF TypeInv, ServerType
  <1>5. ChangeType'
    <2>1. UNCHANGED outbox \/ (outbox[c] # << >> /\ outbox' = [outbox EXCEPT ![c] = Tail(outbox[c])])
      BY DEF notifyVars
    <2>2. QED
      BY <1>1, <2>1 DEF TypeInv, ChangeType
  <1>6. EnvType'
    BY <1>1 DEF TypeInv, EnvType
  <1>7. LinkType'
    <2>1. downs' \in 0..MaxDowns
      BY MissionSyncAssumption DEF TypeInv, LinkType, envVars, linkVars
    <2>2. CASE LinkDown(c) \/ LinkUp(c)
      BY <2>1, <2>2, EventsType DEF TypeInv, LinkType
    <2>3. CASE DeviceStep(c)
      <3>1. \/ UNCHANGED clientEvents
            \/ clientEvents[c] # << >> /\ clientEvents' = [clientEvents EXCEPT ![c] = Tail(clientEvents[c])]
        BY <2>3 DEF envVars, linkVars
      <3>2. \/ UNCHANGED serverEvents
            \/ serverEvents[c] # << >> /\ serverEvents' = [serverEvents EXCEPT ![c] = Tail(serverEvents[c])]
        BY <2>3 DEF envVars, linkVars
      <3>3. \A e \in Seq({"offline", "online"}) :
               e # << >> => Tail(e) \in Seq({"offline", "online"})
        OBVIOUS
      <3>4. clientEvents' \in [Clients -> Seq({"offline", "online"})]
        BY <3>1, <3>3 DEF TypeInv, LinkType
      <3>5. serverEvents' \in [Clients -> Seq({"offline", "online"})]
        BY <3>2, <3>3 DEF TypeInv, LinkType
      <3>6. QED
        BY <2>1, <3>4, <3>5 DEF LinkType
    <2>4. QED
      BY <2>2, <2>3
  <1>8. GhostType'
    <2>1. UNCHANGED loose \/ loose' = loose \ {c}
      BY DEF ghosts
    <2>2. UNCHANGED missed \/ missed' = missed \cup {c} \/ missed' = missed \ {c}
      BY DEF ghosts, Receives
    <2>3. QED
      BY <2>1, <2>2 DEF TypeInv, GhostType
  <1>9. FlagType'
    <2>1. UNCHANGED called \/ called' = [called EXCEPT ![c] = FALSE]
      BY DEF clientVars
    <2>2. UNCHANGED link \/ link' = [link EXCEPT ![c] = TRUE] \/ link' = [link EXCEPT ![c] = FALSE]
      BY DEF envVars, linkVars
    <2>3. QED
      BY <1>1, <2>1, <2>2, Zenon DEF TypeInv, FlagType
  <1>10. QED
    BY <1>2, <1>3, <1>4, <1>5, <1>6, <1>7, <1>8, <1>9 DEF TypeInv

LEMMA QueueLeft ==
    ASSUME ServerType,
           UNCHANGED queue \/ (queue # << >> /\ queue' = Tail(queue)) \/ queue' = << >>
    PROVE  queue' \in Seq({"register", "unregister"})
  <1>1. << >> \in Seq({"register", "unregister"})
    OBVIOUS
  <1>2. queue \in Seq({"register", "unregister"})
    BY DEF ServerType
  <1>3. queue # << >> => Tail(queue) \in Seq({"register", "unregister"})
    BY <1>2
  <1>4. QED
    BY <1>1, <1>2, <1>3

LEMMA EventsLeft ==
    ASSUME LinkType, UNCHANGED serverEvents \/ serverEvents' = [c \in Clients |-> << >>]
    PROVE  serverEvents' \in [Clients -> Seq({"offline", "online"})]
  <1>1. << >> \in Seq({"offline", "online"})
    OBVIOUS
  <1>2. [c \in Clients |-> << >>] \in [Clients -> Seq({"offline", "online"})]
    BY <1>1
  <1>3. QED
    BY <1>2 DEF LinkType

LEMMA ServerStepType ==
    ASSUME TypeInv, ServerStep \/ MissionsChange \/ ServerDies
    PROVE  TypeInv'
  <1> USE DEF ServerStep, RunsTask, NotifyLocalMissionsChanged, NotifyMissionsChangedToRemote,
              ServerStarts, MissionsChange, ServerDies
  <1>1. UNCHANGED <<listenerSet, called, cache, died, retries, alive, overlap, link, downs,
                    clientEvents, loose>>
    BY DEF clientVars, taskVars, envVars, linkVars, ghosts
  <1>2. ListenerType'
    BY <1>1 DEF TypeInv, ListenerType, clientVars
  <1>3. TaskType'
    BY <1>1 DEF TypeInv, TaskType, taskVars
  <1>4. ThreadType'
    BY IdleType DEF TypeInv, ThreadType
  <1>5. ServerType'
    <2>1. UNCHANGED queue \/ (queue # << >> /\ queue' = Tail(queue)) \/ queue' = << >>
      BY DEF serverVars
    <2>2. UNCHANGED syncSet \/ syncSet' = {}
      BY DEF serverVars
    <2>3. UNCHANGED away \/ away' \subseteq Clients
      BY DEF serverVars
    <2>4. queue' \in Seq({"register", "unregister"})
      BY <2>1, QueueLeft DEF TypeInv
    <2>5. QED
      BY <2>2, <2>3, <2>4 DEF TypeInv, ServerType
  <1>6. ChangeType'
    <2>1. CASE NotifyMissionsChangedToRemote
      <3>1. /\ reading \in Versions /\ changes > 0 /\ reading' = None /\ changes' = changes - 1
            /\ outbox' = [c \in Clients |-> IF c \in syncSet \ away THEN Append(outbox[c], reading)
                                                                   ELSE outbox[c]]
        BY <2>1 DEF TypeInv, ChangeType
      <3>2. changes' \in Nat
        BY <3>1 DEF TypeInv, ChangeType
      <3>3. QED
        BY <3>1, <3>2 DEF TypeInv, ChangeType
    <2>2. CASE MissionsChange
      <3>1. changes' \in {changes, changes + 1} /\ UNCHANGED <<reading, outbox>>
        BY <2>2 DEF Posted
      <3>2. QED
        BY <3>1 DEF TypeInv, ChangeType
    <2>3. CASE NotifyLocalMissionsChanged
      <3>1. \/ reading' = missions /\ changes > 0 /\ UNCHANGED changes
            \/ reading = None /\ changes > 0 /\ changes' = changes - 1 /\ UNCHANGED reading
        BY <2>3
      <3>2. UNCHANGED outbox
        BY <2>3
      <3>3. QED
        BY <3>1, <3>2 DEF TypeInv, ChangeType, EnvType
    <2>4. CASE ServerDies
      BY <2>4 DEF TypeInv, ChangeType
    <2>5. CASE RunsTask \/ ServerStarts
      BY <2>5 DEF TypeInv, ChangeType, notifyVars
    <2>6. QED
      BY <2>1, <2>2, <2>3, <2>4, <2>5
  <1>7. EnvType'
    <2>1. UNCHANGED missions \/ (missions < MaxVersion /\ missions' = missions + 1)
      BY DEF envVars
    <2>2. missions' \in Versions
      <3>1. missions \in 0..MaxVersion /\ MaxVersion \in Nat
        BY MissionSyncAssumption DEF TypeInv, EnvType, Versions
      <3>2. QED
        BY <2>1, <3>1 DEF Versions
    <2>3. UNCHANGED deaths \/ (deaths < MaxDeaths /\ deaths' = deaths + 1)
      BY DEF envVars
    <2>4. deaths' \in 0..MaxDeaths
      <3>1. deaths \in 0..MaxDeaths /\ MaxDeaths \in Nat
        BY MissionSyncAssumption DEF TypeInv, EnvType
      <3>2. QED
        BY <2>3, <3>1
    <2>5. QED
      BY <1>1, <2>2, <2>4 DEF TypeInv, EnvType
  <1>8. LinkType'
    <2>1. UNCHANGED serverEvents \/ serverEvents' = [c \in Clients |-> << >>]
      BY DEF envVars, linkVars
    <2>2. serverEvents' \in [Clients -> Seq({"offline", "online"})]
      BY <2>1, EventsLeft DEF TypeInv
    <2>3. QED
      BY <1>1, <2>2 DEF TypeInv, LinkType
  <1>9. GhostType'
    <2>1. UNCHANGED missed \/ missed' = missed \cup syncSet \/ missed' = missed \cup (syncSet \cap away)
      BY DEF ghosts
    <2>2. QED
      BY <1>1, <2>1 DEF TypeInv, GhostType, ServerType
  <1>10. FlagType'
    <2>1. up' \in {up, TRUE, FALSE}
      BY DEF serverVars
    <2>2. isReg' \in {isReg, TRUE, FALSE}
      BY DEF serverVars, IsRegAfter
    <2>3. unheard' = unheard \/ unheard' = TRUE \/ unheard' = FALSE
      BY DEF ghosts
    <2>4. QED
      BY <1>1, <2>1, <2>2, <2>3 DEF TypeInv, FlagType
  <1>11. QED
    BY <1>2, <1>3, <1>4, <1>5, <1>6, <1>7, <1>8, <1>9, <1>10 DEF TypeInv

LEMMA NextType == TypeInv /\ [Next]_vars => TypeInv'
  <1>1. SUFFICES ASSUME TypeInv, [Next]_vars PROVE TypeInv'
    OBVIOUS
  <1>2. CASE UNCHANGED vars
    BY <1>1, <1>2 DEF TypeInv, ListenerType, TaskType, ThreadType, ServerType, ChangeType, EnvType,
          LinkType, GhostType, FlagType, vars, clientVars, taskVars, serverVars, notifyVars,
          envVars, linkVars, ghosts
  <1>3. CASE Next
    BY <1>1, <1>3, CallType, ThreadStepType, HandlerStepType, DeviceStepType, ServerStepType DEF Next
  <1>4. QED
    BY <1>1, <1>2, <1>3

(* Both ends keep the types of their maps, tasks and events. *)
THEOREM TypeCorrect == Spec => []TypeOK
  <1>1. QED
    BY InitType, NextType, TypeInvType, PTL DEF Spec

-----------------------------------------------------------------------------
(* Registration at the ability manager. *)

(* A call the server is still at is one whose thread waits for it, or has given it up. *)
ServingInv == \A x \in Threads : serving[x] # "idle" => th[x].pc \in {"idle", "calling"}

LEMMA ServingKept ==
    ASSUME ServingInv,
           \A x \in Threads : serving'[x] # "idle" =>
              th'[x].pc \in {"idle", "calling"} \/ (serving'[x] = serving[x] /\ th'[x] = th[x])
    PROVE  ServingInv'
  BY DEF ServingInv

(* What one thread goes on to, which the server does not serve or which then waits. *)
LEMMA GoesServing ==
    ASSUME TypeInv, ServingInv, NEW x \in Threads, NEW r \in Thread, Goes(x, r),
           serving[x] = "idle" \/ r.pc \in {"idle", "calling"},
           UNCHANGED serving \/ (\E w \in {"idle", "called"} : serving' = [serving EXCEPT ![x] = w]
                                     /\ (w = "idle" \/ r.pc = "calling"))
    PROVE  ServingInv'
  <1>1. th'[x] = r /\ \A y \in Threads : y # x => th'[y] = th[y]
    BY DEF Goes, TypeInv, ThreadType
  <1>2. \A y \in Threads : y # x => serving'[y] = serving[y]
    BY DEF TypeInv, ThreadType
  <1>3. serving'[x] = "idle" \/ r.pc \in {"idle", "calling"}
    BY DEF TypeInv, ThreadType
  <1>4. QED
    BY <1>1, <1>2, <1>3, ServingKept

LEMMA NextServing ==
    ASSUME TypeInv, ServingInv, [Next]_vars
    PROVE  ServingInv'
  <1>1. CASE UNCHANGED <<th, serving>>
    BY <1>1 DEF ServingInv
  <1>2. ASSUME NEW x \in Threads, ThreadStep(x)
        PROVE  ServingInv'
    <2>1. th[x].pc # "calling" /\ th[x].pc # "idle" => serving[x] = "idle"
      BY DEF ServingInv, TypeInv, ThreadType
    <2>2. missions \in Versions /\ {"calling", "toCall"} \subseteq Places
      BY DEF TypeInv, EnvType, Places
    <2>3. CASE CallsStart(x)
      BY <2>1, <2>2, <2>3, IdleType, GoesServing DEF CallsStart, Idle
    <2>4. CASE AddsSyncDevice(x)
      <3>1. UNCHANGED th /\ \A y \in Threads : serving'[y] = serving[y] \/ (y = x /\ serving[x] # "idle")
        BY <2>4 DEF AddsSyncDevice, TypeInv, ThreadType
      <3>2. QED
        BY <3>1, ServingKept DEF ServingInv
    <2>5. CASE AnswersStart(x)
      <3>1. PICK r \in Thread : Goes(x, r)
        BY <2>2, <2>5, IdleType DEF AnswersStart
      <3>2. th'[x] = r /\ serving'[x] = "idle" /\ \A y \in Threads : y # x => th'[y] = th[y] /\ serving'[y] = serving[y]
        BY <2>5, <3>1 DEF AnswersStart, Goes, TypeInv, ThreadType
      <3>3. QED
        BY <3>2, ServingKept
    <2>6. CASE StartFails(x)
      BY <2>6, IdleType, GoesServing DEF StartFails, Idle
    <2>7. CASE RebornMissionCache(x)
      BY <2>1, <2>2, <2>7, IdleType, GoesServing DEF RebornMissionCache
    <2>8. CASE StopsRemote(x)
      BY <2>1, <2>8, IdleType, GoesServing DEF StopsRemote
    <2>9. QED
      BY <1>2, <2>3, <2>4, <2>5, <2>6, <2>7, <2>8 DEF ThreadStep
  <1>3. ASSUME NEW a \in Apps, AppStep(a) \/ Call(a) \/ AppDies(a)
        PROVE  ServingInv'
    <2>1. a \in Threads /\ ClientOf[a] \in Threads /\ {"toRegister", "toStop", "getDms"} \subseteq Places
      BY MissionSyncAssumption DEF Threads, Places
    <2>2. UNCHANGED serving
      BY <1>3 DEF AppStep, Call, AppDies, RegisterMissionListener, SetsCalled, OnMissionListenerDied,
           RegistersListener, UnRegisterMissionListener, StartSyncRemoteMissions,
           StopSyncRemoteMissions
    <2>3. \/ UNCHANGED th
          \/ Goes(a, Idle)
          \/ serving[a] = "idle" /\ \E place \in {"toRegister", "toStop", "getDms"} : Goes(a, At(place))
          \/ serving[ClientOf[a]] = "idle" /\ Goes(ClientOf[a], At("toStop"))
      BY <1>3 DEF AppStep, Call, AppDies, RegisterMissionListener, SetsCalled, OnMissionListenerDied,
           RegistersListener, UnRegisterMissionListener, StartSyncRemoteMissions,
           StopSyncRemoteMissions, Free
    <2>4. Idle \in Thread /\ Idle.pc = "idle" /\ \A place \in {"toRegister", "toStop", "getDms"} : At(place) \in Thread
      BY <2>1, IdleType DEF Idle
    <2>5. QED
      BY <1>1, <2>1, <2>2, <2>3, <2>4, GoesServing
  <1>4. ASSUME NEW c \in Clients, HandlerStep(c) \/ DeviceStep(c) \/ LinkDown(c) \/ LinkUp(c)
        PROVE  ServingInv'
    <2>1. UNCHANGED serving
      BY <1>4 DEF HandlerStep, DeviceStep, RetryFunc, OnRemoteDmsDied, LinkDown, LinkUp,
                  NotifyMissionsChangedFromRemote, ClientNotified, ServerNotified
    <2>2. \/ UNCHANGED th
          \/ serving[c] = "idle" /\ \E tries \in retries[c] : Goes(c, [At("getDms") EXCEPT !.tries = tries])
      BY <1>4 DEF HandlerStep, DeviceStep, RetryFunc, OnRemoteDmsDied, LinkDown, LinkUp,
                  NotifyMissionsChangedFromRemote, ClientNotified, ServerNotified, Free
    <2>3. c \in Threads /\ retries[c] \subseteq 0..MaxRetryTimes
      BY MissionSyncAssumption DEF Threads, TypeInv, TaskType
    <2>4. QED
      BY <1>1, <2>1, <2>2, <2>3, IdleType, GoesServing
  <1>5. CASE ServerStep \/ MissionsChange \/ ServerDies
    <2>1. UNCHANGED <<th, serving>> \/ \A x \in Threads : serving'[x] = "idle"
      BY <1>5 DEF ServerStep, RunsTask, NotifyLocalMissionsChanged, NotifyMissionsChangedToRemote,
                  ServerStarts, MissionsChange, ServerDies
    <2>2. QED
      BY <1>1, <2>1 DEF ServingInv
  <1>6. QED
    BY <1>1, <1>2, <1>3, <1>4, <1>5 DEF Next, vars

(* A step that leaves the server's set, tasks and threads alone, or empties the set. *)
LEMMA RegisteringKept ==
    ASSUME RegisteredWhileSyncing,
           syncSet' = {} \/ UNCHANGED <<syncSet, queue, isReg, serving>>
    PROVE  RegisteredWhileSyncing'
  BY DEF RegisteredWhileSyncing, Registering

LEMMA LastOfTail ==
    ASSUME NEW S, NEW q \in Seq(S), q # << >>
    PROVE  /\ Tail(q) \in Seq(S) /\ Len(q) \in Nat /\ Len(q) >= 1
           /\ Len(q) = 1 => Head(q) = q[Len(q)] /\ Tail(q) = << >>
           /\ Len(q) # 1 => Tail(q) # << >> /\ Tail(q)[Len(Tail(q))] = q[Len(q)]
  <1>1. Len(q) \in Nat /\ Len(q) >= 1 /\ Tail(q) \in Seq(S)
    BY EmptySeq
  <1>2. Len(Tail(q)) = Len(q) - 1 /\ \A i \in 1..Len(q) - 1 : Tail(q)[i] = q[i + 1]
    BY <1>1, HeadTailProperties
  <1>3. Head(q) = q[1]
    OBVIOUS
  <1>4. CASE Len(q) = 1
    <2>1. Len(Tail(q)) = 0
      BY <1>2, <1>4
    <2>2. Tail(q) = << >>
      BY <1>1, <2>1, EmptySeq
    <2>3. QED
      BY <1>1, <1>3, <1>4, <2>2
  <1>5. CASE Len(q) # 1
    <2>1. PICK n \in Nat : n = Len(q)
      BY <1>1
    <2>2. n - 1 \in 1..n - 1 /\ (n - 1) + 1 = n /\ n - 1 # 0
      BY <1>1, <1>5, <2>1
    <2>3. Len(Tail(q)) = n - 1 /\ Tail(q)[n - 1] = q[n]
      BY <1>2, <2>1, <2>2
    <2>4. Tail(q) # << >>
      BY <2>2, <2>3, EmptySeq
    <2>5. QED
      BY <1>1, <1>5, <2>1, <2>3, <2>4
  <1>6. QED
    BY <1>1, <1>4, <1>5

LEMMA RunsTaskRegistered ==
    ASSUME TypeInv, RegisteredWhileSyncing, ~AmsFails, RunsTask
    PROVE  RegisteredWhileSyncing'
  <1>1. /\ UNCHANGED <<syncSet, serving>> /\ queue # << >> /\ queue' = Tail(queue)
        /\ isReg' = IsRegAfter(Head(queue))
    BY DEF RunsTask
  <1>2. queue \in Seq({"register", "unregister"})
    BY DEF TypeInv, ServerType
  <1>3. CASE \E x \in Threads : serving[x] = "added"
    BY <1>1, <1>3 DEF RegisteredWhileSyncing, Registering
  <1>4. CASE syncSet # {} /\ queue[Len(queue)] = "register"
    <2>1. CASE Len(queue) = 1
      BY <1>1, <1>2, <1>4, <2>1, LastOfTail DEF RegisteredWhileSyncing, IsRegAfter
    <2>2. CASE Len(queue) # 1
      BY <1>1, <1>2, <1>4, <2>2, LastOfTail DEF RegisteredWhileSyncing, Registering
    <2>3. QED
      BY <2>1, <2>2
  <1>5. QED
    BY <1>1, <1>3, <1>4 DEF RegisteredWhileSyncing, Registering

LEMMA WithdrawsRegistered ==
    ASSUME TypeInv, RegisteredWhileSyncing, NEW c \in Clients, Withdraws(c),
           UNCHANGED <<isReg, serving>>
    PROVE  RegisteredWhileSyncing'
  BY DEF Withdraws, Unregisters, RegisteredWhileSyncing, Registering

LEMMA StartRegistered ==
    ASSUME TypeInv, RegisteredWhileSyncing, NEW x \in Threads,
           AddsSyncDevice(x) \/ AnswersStart(x)
    PROVE  RegisteredWhileSyncing'
  <1>1. CASE AddsSyncDevice(x)
    <2>1. serving'[x] = "added"
      BY <1>1 DEF AddsSyncDevice, TypeInv, ThreadType
    <2>2. QED
      BY <2>1 DEF RegisteredWhileSyncing, Registering
  <1>2. CASE AnswersStart(x)
    <2>1. queue \in Seq({"register", "unregister"}) /\ queue' = Append(queue, "register")
      BY <1>2 DEF AnswersStart, TypeInv, ServerType
    <2>2. queue' # << >> /\ queue'[Len(queue')] = "register"
      BY <2>1, AppendProperties
    <2>3. QED
      BY <2>2 DEF RegisteredWhileSyncing, Registering
  <1>3. QED
    BY <1>1, <1>2

LEMMA NextRegistered ==
    ASSUME TypeInv, ServingInv, RegisteredWhileSyncing, ~AmsFails, [Next]_vars
    PROVE  RegisteredWhileSyncing'
  <1>1. CASE UNCHANGED vars
    BY <1>1, RegisteringKept DEF vars, serverVars
  <1>2. ASSUME NEW x \in Threads, ThreadStep(x)
        PROVE  RegisteredWhileSyncing'
    <2>1. CASE AddsSyncDevice(x) \/ AnswersStart(x)
      BY <2>1, StartRegistered
    <2>2. CASE CallsStart(x)
      <3>1. \A y \in Threads : serving[y] = "added" => serving'[y] = "added" \/ y = x
        BY <2>2 DEF CallsStart, TypeInv, ThreadType
      <3>2. UNCHANGED <<syncSet, queue, isReg>>
        BY <2>2 DEF CallsStart, serverVars
      <3>3. serving[x] # "added"
        BY <2>2 DEF CallsStart, ServingInv
      <3>4. QED
        BY <3>1, <3>2, <3>3 DEF RegisteredWhileSyncing, Registering
    <2>3. CASE StopsRemote(x)
      <3>1. UNCHANGED <<isReg, serving>> /\ (Withdraws(Home(x)) \/ UNCHANGED <<syncSet, queue>>)
        BY <2>3 DEF StopsRemote
      <3>2. QED
        BY <3>1, HomeType, WithdrawsRegistered, RegisteringKept
    <2>4. CASE StartFails(x) \/ RebornMissionCache(x)
      BY <2>4, RegisteringKept DEF StartFails, RebornMissionCache, serverVars
    <2>5. QED
      BY <1>2, <2>1, <2>2, <2>3, <2>4 DEF ThreadStep
  <1>3. ASSUME NEW a \in Apps, AppStep(a) \/ Call(a) \/ AppDies(a)
        PROVE  RegisteredWhileSyncing'
    BY <1>3, RegisteringKept
       DEF AppStep, Call, AppDies, RegisterMissionListener, SetsCalled, OnMissionListenerDied,
           RegistersListener, UnRegisterMissionListener, StartSyncRemoteMissions,
           StopSyncRemoteMissions, serverVars
  <1>4. ASSUME NEW c \in Clients, HandlerStep(c) \/ DeviceStep(c) \/ LinkDown(c) \/ LinkUp(c)
        PROVE  RegisteredWhileSyncing'
    <2>1. \/ UNCHANGED <<syncSet, queue, isReg, serving>>
          \/ Withdraws(c) /\ UNCHANGED <<isReg, serving>>
      BY <1>4 DEF HandlerStep, DeviceStep, RetryFunc, OnRemoteDmsDied, LinkDown, LinkUp,
                  NotifyMissionsChangedFromRemote, ClientNotified, ServerNotified, serverVars
    <2>2. QED
      BY <2>1, RegisteringKept, WithdrawsRegistered
  <1>5. CASE ServerStep \/ MissionsChange \/ ServerDies
    <2>1. RunsTask \/ syncSet' = {} \/ UNCHANGED <<syncSet, queue, isReg, serving>>
      BY <1>5 DEF ServerStep, NotifyLocalMissionsChanged, NotifyMissionsChangedToRemote,
                  ServerStarts, MissionsChange, ServerDies, serverVars
    <2>2. QED
      BY <2>1, RegisteringKept, RunsTaskRegistered
  <1>6. QED
    BY <1>1, <1>2, <1>3, <1>4, <1>5 DEF Next

(* The server never stops listening to the ability manager while a client is to be told,  *)
(* whatever starts, stops, deaths and lost links interleave with its tasks, unless the     *)
(* ability manager refuses.                                                                *)
THEOREM RegisteredCorrect ==
    ASSUME ~AmsFails
    PROVE  Spec => []RegisteredWhileSyncing
  <1>1. Init => RegisteredWhileSyncing /\ ServingInv
    BY DEF Init, RegisteredWhileSyncing, ServingInv
  <1>2. TypeInv /\ ServingInv /\ [Next]_vars => ServingInv'
    BY NextServing
  <1>3. TypeInv /\ ServingInv /\ RegisteredWhileSyncing /\ [Next]_vars => RegisteredWhileSyncing'
    BY NextRegistered
  <1>4. QED
    BY <1>1, <1>2, <1>3, InitType, NextType, PTL DEF Spec

-----------------------------------------------------------------------------
(* Listeners that die. *)

LEMMA NextForgotten ==
    ASSUME TypeInv, DeadListenerForgotten, [Next]_vars
    PROVE  DeadListenerForgotten'
  <1> SUFFICES ASSUME NEW a \in Apps, a \in listenerSet'[ClientOf[a]]
               PROVE  a \in alive' \/ a \in died'
    BY DEF DeadListenerForgotten
  <1>1. a \in listenerSet[ClientOf[a]] => a \in alive \/ a \in died
    BY DEF DeadListenerForgotten
  <1>2. CASE UNCHANGED <<listenerSet, alive, died>>
    BY <1>1, <1>2
  <1>3. ASSUME NEW b \in Apps, AppStep(b) \/ Call(b) \/ AppDies(b)
        PROVE  a \in alive' \/ a \in died'
    <2> DEFINE c == ClientOf[b]
    <2>1. c \in Clients /\ ClientOf[a] \in Clients
      BY MissionSyncAssumption
    <2>2. CASE RegisterMissionListener(b)
      BY <1>1, <2>1, <2>2 DEF RegisterMissionListener, envVars, TypeInv, ListenerType
    <2>3. CASE UnRegisterMissionListener(b)
      BY <1>1, <2>1, <2>3 DEF UnRegisterMissionListener, EraseListener, Without, envVars, taskVars,
                              TypeInv, ListenerType
    <2>4. CASE OnMissionListenerDied(b)
      <3>1. died' = died \ {b} /\ UNCHANGED alive
        BY <2>4 DEF OnMissionListenerDied, envVars
      <3>2. b \notin listenerSet'[c] /\ listenerSet'[ClientOf[a]] \subseteq listenerSet[ClientOf[a]]
        BY <2>1, <2>4 DEF OnMissionListenerDied, EraseListener, Without, TypeInv, ListenerType
      <3>3. QED
        BY <1>1, <3>1, <3>2
    <2>5. CASE AppDies(b)
      BY <1>1, <2>5 DEF AppDies, clientVars
    <2>6. CASE SetsCalled(b) \/ RegistersListener(b) \/ StartSyncRemoteMissions(b)
                             \/ StopSyncRemoteMissions(b)
      BY <1>2, <2>6 DEF SetsCalled, RegistersListener, StartSyncRemoteMissions,
                        StopSyncRemoteMissions, clientVars, taskVars, envVars
    <2>7. QED
      BY <1>3, <2>2, <2>3, <2>4, <2>5, <2>6 DEF AppStep, Call
  <1>4. ASSUME NEW c \in Clients, ClientNotified(c)
        PROVE  a \in alive' \/ a \in died'
    <2>1. UNCHANGED <<alive, died>>
      BY <1>4 DEF ClientNotified, taskVars
    <2>2. UNCHANGED listenerSet \/ listenerSet' = [listenerSet EXCEPT ![c] = {}]
      BY <1>4 DEF ClientNotified, clientVars
    <2>3. ClientOf[a] \in Clients
      BY MissionSyncAssumption
    <2>4. QED
      BY <1>1, <2>1, <2>2, <2>3 DEF TypeInv, ListenerType
  <1>5. ASSUME NEW c \in Clients,
               \/ HandlerStep(c) \/ NotifyMissionsChangedFromRemote(c) \/ ServerNotified(c)
               \/ LinkDown(c) \/ LinkUp(c)
        PROVE  UNCHANGED <<listenerSet, alive, died>>
    BY <1>5 DEF HandlerStep, RetryFunc, OnRemoteDmsDied, LinkDown, LinkUp,
                NotifyMissionsChangedFromRemote, ServerNotified, clientVars, taskVars, envVars
  <1>6. ASSUME NEW x \in Threads, ThreadStep(x)
        PROVE  UNCHANGED <<listenerSet, alive, died>>
    BY <1>6 DEF ThreadStep, CallsStart, AddsSyncDevice, AnswersStart, StartFails,
                RebornMissionCache, StopsRemote, clientVars, taskVars, envVars
  <1>7. ASSUME ServerStep \/ MissionsChange \/ ServerDies
        PROVE  UNCHANGED <<listenerSet, alive, died>>
    BY <1>7 DEF ServerStep, RunsTask, NotifyLocalMissionsChanged, NotifyMissionsChangedToRemote,
                ServerStarts, MissionsChange, ServerDies, clientVars, taskVars, envVars
  <1>8. CASE UNCHANGED vars
    BY <1>2, <1>8 DEF vars, clientVars, taskVars, envVars
  <1>9. QED
    BY <1>2, <1>3, <1>4, <1>5, <1>6, <1>7, <1>8 DEF Next, DeviceStep

(* A dead application stays a listener only until its death, which the IPC has reported,  *)
(* has been handled.                                                                      *)
THEOREM ForgottenCorrect == Spec => []DeadListenerForgotten
  <1>1. Init => DeadListenerForgotten
    BY MissionSyncAssumption DEF Init, DeadListenerForgotten
  <1>2. TypeInv /\ DeadListenerForgotten /\ [Next]_vars => DeadListenerForgotten'
    BY NextForgotten
  <1>3. QED
    BY <1>1, <1>2, InitType, NextType, PTL DEF Spec

-----------------------------------------------------------------------------
(* The last list arrives last, while links stay and the ability manager refuses nothing;   *)
(* the server may fail and be started again.                                                *)

LinksUp ==
    /\ \A c \in Clients : link[c] /\ clientEvents[c] = << >> /\ serverEvents[c] = << >>
    /\ away = {}
(* The server knows only clients whose proxy is good: those it serves and those it notifies. *)
ReachInv ==
    /\ \A x \in Threads : serving[x] # "idle" => th[x].pc = "calling" /\ up /\ remoteDms[Home(x)] # "dead"
    /\ \A c \in syncSet : up /\ remoteDms[c] # "dead"
(* No list is from the future, and a list that has aged since it was read is read again, *)
(* unless the change went unheard.                                                          *)
OlderInv ==
    /\ changes > 0 => up
    /\ reading # None => reading <= missions
    /\ reading \notin {None, missions} => changes > 1 \/ unheard
    /\ \A c \in Clients : \A i \in 1..Len(outbox[c]) : outbox[c][i] <= missions
    /\ \A x \in Threads : th[x].infos <= missions
(* A thread that will bring the last list, or drop the copy and withdraw the client. *)
Bringing(x) ==
    \/ serving[x] = "added"
    \/ th[x].pc = "replied" /\ th[x].infos = missions
    \/ th[x].pc = "toStop"
(* Where the last list is, for a client the server notifies. *)
Sent(c) == outbox[c] # << >> /\ outbox[c][Len(outbox[c])] = missions
Arrives(c) ==
    \/ c \in missed \/ unheard \/ changes > 0
    \/ cache[c] = missions \/ Sent(c)
    \/ \E x \in Threads : Home(x) = c /\ Bringing(x)
ArrivesInv == \A c \in syncSet : Arrives(c)

FreshInv == LinksUp /\ ReachInv /\ OlderInv /\ ArrivesInv

LEMMA NextLinksUp ==
    ASSUME MaxDowns = 0, TypeInv, LinksUp, [Next]_vars
    PROVE  LinksUp'
  <1>1. CASE UNCHANGED <<linkVars, away>>
    BY <1>1 DEF LinksUp, linkVars
  <1>2. ASSUME NEW x \in Threads, ThreadStep(x)
        PROVE  UNCHANGED <<linkVars, away>>
    BY <1>2 DEF ThreadStep, CallsStart, AddsSyncDevice, AnswersStart, StartFails,
                RebornMissionCache, StopsRemote, envVars, serverVars
  <1>3. ASSUME NEW a \in Apps, AppStep(a) \/ Call(a) \/ AppDies(a)
        PROVE  UNCHANGED <<linkVars, away>>
    BY <1>3 DEF AppStep, Call, AppDies, RegisterMissionListener, SetsCalled, OnMissionListenerDied,
                RegistersListener, UnRegisterMissionListener, StartSyncRemoteMissions,
                StopSyncRemoteMissions, envVars, serverVars
  <1>4. ASSUME NEW c \in Clients, HandlerStep(c) \/ DeviceStep(c) \/ LinkDown(c) \/ LinkUp(c)
        PROVE  UNCHANGED <<linkVars, away>>
    <2>1. ~LinkDown(c) /\ ~LinkUp(c)
      BY DEF LinkDown, LinkUp, LinksUp, TypeInv, LinkType
    <2>2. ~ClientNotified(c) /\ ~ServerNotified(c)
      BY DEF ClientNotified, ServerNotified, LinksUp
    <2>3. QED
      BY <1>4, <2>1, <2>2 DEF HandlerStep, DeviceStep, RetryFunc, OnRemoteDmsDied,
                              NotifyMissionsChangedFromRemote, envVars, serverVars
  <1>5. CASE ServerStarts
    BY <1>5 DEF ServerStarts, LinksUp
  <1>6. CASE (ServerStep /\ ~ServerStarts) \/ MissionsChange \/ ServerDies
    BY <1>1, <1>6 DEF ServerStep, RunsTask, NotifyLocalMissionsChanged, NotifyMissionsChangedToRemote,
                      MissionsChange, ServerDies, envVars, serverVars
  <1>7. QED
    BY <1>1, <1>2, <1>3, <1>4, <1>5, <1>6 DEF Next, vars, envVars, serverVars

(* With the links up a client reaches the server whenever its proxy is good. *)
LEMMA NextReach ==
    ASSUME MaxDowns = 0, TypeInv, LinksUp, ReachInv, [Next]_vars
    PROVE  ReachInv'
  <1>1. CASE UNCHANGED <<th, serving, up, remoteDms, syncSet>>
    BY <1>1 DEF ReachInv
  <1>2. ASSUME NEW x \in Threads, NEW r \in Thread, Goes(x, r), serving[x] = "idle",
               UNCHANGED <<serving, up, remoteDms>>, syncSet' \subseteq syncSet
        PROVE  ReachInv'
    <2>1. \A y \in Threads : y # x => th'[y] = th[y]
      BY <1>2 DEF Goes, TypeInv, ThreadType
    <2>2. QED
      BY <1>2, <2>1 DEF ReachInv
  <1>3. ASSUME NEW x \in Threads, ThreadStep(x)
        PROVE  ReachInv'
    <2> DEFINE c == Home(x)
    <2>1. c \in Clients /\ link[c]
      BY HomeType DEF LinksUp
    <2>2. serving[x] = "idle" \/ th[x].pc = "calling"
      BY DEF ReachInv
    <2>3. CASE CallsStart(x)
      <3>1. up' = up /\ syncSet' = syncSet /\ KeepsDms(c)
        BY <2>3 DEF CallsStart, serverVars
      <3>2. \A d \in Clients : remoteDms[d] # "dead" => remoteDms'[d] # "dead"
        BY <3>1 DEF KeepsDms, TypeInv, ListenerType
      <3>3. CASE Usable(c)
        <4>1. up /\ remoteDms[c] # "dead"
          BY <3>3 DEF Usable, Reaches
        <4>2. At("calling") \in Thread /\ At("calling").pc = "calling"
          BY IdleType DEF Places
        <4>3. Goes(x, At("calling")) /\ serving' = [serving EXCEPT ![x] = "called"]
          BY <2>3, <3>3 DEF CallsStart
        <4>4. /\ th'[x].pc = "calling"
              /\ \A y \in Threads : y # x => th'[y] = th[y] /\ serving'[y] = serving[y]
          BY <4>2, <4>3 DEF Goes, TypeInv, ThreadType
        <4>5. \A y \in Threads : Home(y) \in Clients
          BY HomeType
        <4>6. QED
          BY <3>1, <3>2, <4>1, <4>4, <4>5 DEF ReachInv, TypeInv, ServerType
      <3>4. CASE ~Usable(c)
        <4>1. serving' = serving /\ Goes(x, Idle)
          BY <2>3, <3>4 DEF CallsStart
        <4>2. serving[x] = "idle"
          BY <2>2, <2>3 DEF CallsStart
        <4>3. \A y \in Threads : y # x => th'[y] = th[y]
          BY <4>1 DEF Goes, TypeInv, ThreadType
        <4>4. \A y \in Threads : Home(y) \in Clients
          BY HomeType
        <4>5. QED
          BY <3>1, <3>2, <4>1, <4>2, <4>3, <4>4 DEF ReachInv, TypeInv, ServerType
      <3>5. QED
        BY <3>3, <3>4
    <2>4. CASE AddsSyncDevice(x)
      <3>1. /\ UNCHANGED <<th, up, remoteDms>> /\ serving[x] # "idle"
            /\ syncSet' = syncSet \cup {c}
            /\ \A y \in Threads : y # x => serving'[y] = serving[y]
        BY <2>4 DEF AddsSyncDevice, clientVars, TypeInv, ThreadType
      <3>2. QED
        BY <3>1 DEF ReachInv
    <2>5. CASE AnswersStart(x)
      <3>1. UNCHANGED <<up, remoteDms, syncSet>>
        BY <2>5 DEF AnswersStart, clientVars
      <3>2. /\ serving'[x] = "idle"
            /\ \A y \in Threads : y # x => serving'[y] = serving[y] /\ th'[y] = th[y]
        BY <2>5 DEF AnswersStart, Goes, TypeInv, ThreadType
      <3>3. QED
        BY <3>1, <3>2 DEF ReachInv
    <2>6. ~StartFails(x)
      BY <2>1 DEF StartFails
    <2>7. CASE RebornMissionCache(x)
      <3>1. serving[x] = "idle"
        BY <2>2, <2>7 DEF RebornMissionCache
      <3>2. Idle \in Thread /\ At("toCall") \in Thread
        BY IdleType DEF Places
      <3>3. UNCHANGED <<serving, up, remoteDms, syncSet>> /\ \E r \in {Idle, At("toCall")} : Goes(x, r)
        BY <2>7 DEF RebornMissionCache, serverVars
      <3>4. QED
        BY <1>2, <3>1, <3>2, <3>3
    <2>8. CASE StopsRemote(x)
      <3>1. serving[x] = "idle"
        BY <2>2, <2>8 DEF StopsRemote
      <3>2. UNCHANGED <<serving, up>> /\ Goes(x, Idle) /\ syncSet' \subseteq syncSet /\ KeepsDms(c)
        BY <2>8 DEF StopsRemote, Withdraws
      <3>3. \A d \in Clients : remoteDms[d] # "dead" => remoteDms'[d] # "dead"
        BY <3>2 DEF KeepsDms, TypeInv, ListenerType
      <3>4. \A y \in Threads : y # x => th'[y] = th[y]
        BY <3>2 DEF Goes, TypeInv, ThreadType
      <3>5. \A y \in Threads : Home(y) \in Clients
        BY HomeType
      <3>6. QED
        BY <3>1, <3>2, <3>3, <3>4, <3>5 DEF ReachInv, TypeInv, ServerType
    <2>9. QED
      BY <1>3, <2>3, <2>4, <2>5, <2>6, <2>7, <2>8 DEF ThreadStep
  <1>4. ASSUME NEW a \in Apps, AppStep(a) \/ Call(a) \/ AppDies(a)
        PROVE  ReachInv'
    <2>1. a \in Threads /\ ClientOf[a] \in Threads /\ {"toRegister", "toStop", "getDms"} \subseteq Places
      BY MissionSyncAssumption DEF Threads, Places
    <2>2. UNCHANGED <<serving, up, remoteDms, syncSet>>
      BY <1>4 DEF AppStep, Call, AppDies, RegisterMissionListener, SetsCalled, OnMissionListenerDied,
                  RegistersListener, UnRegisterMissionListener, StartSyncRemoteMissions,
                  StopSyncRemoteMissions, clientVars, serverVars
    <2>3. \/ UNCHANGED th
          \/ serving[a] = "idle" /\ Goes(a, Idle)
          \/ serving[a] = "idle" /\ \E place \in {"toRegister", "toStop", "getDms"} : Goes(a, At(place))
          \/ serving[ClientOf[a]] = "idle" /\ Goes(ClientOf[a], At("toStop"))
      BY <1>4, <2>1 DEF AppStep, Call, AppDies, RegisterMissionListener, SetsCalled,
           OnMissionListenerDied, RegistersListener, UnRegisterMissionListener,
           StartSyncRemoteMissions, StopSyncRemoteMissions, Free, ReachInv
    <2>4. Idle \in Thread /\ \A place \in {"toRegister", "toStop", "getDms"} : At(place) \in Thread
      BY <2>1, IdleType
    <2>5. QED
      BY <1>1, <1>2, <2>1, <2>2, <2>3, <2>4
  <1>5. ASSUME NEW c \in Clients, HandlerStep(c) \/ DeviceStep(c) \/ LinkDown(c) \/ LinkUp(c)
        PROVE  ReachInv'
    <2>1. ~LinkDown(c) /\ ~LinkUp(c) /\ ~ClientNotified(c) /\ ~ServerNotified(c)
      BY DEF LinkDown, LinkUp, ClientNotified, ServerNotified, LinksUp, TypeInv, LinkType
    <2>2. CASE RetryFunc(c)
      <3>1. c \in Threads /\ retries[c] \subseteq 0..MaxRetryTimes
        BY MissionSyncAssumption DEF Threads, TypeInv, TaskType
      <3>2. /\ UNCHANGED <<serving, up, remoteDms, syncSet>> /\ serving[c] = "idle"
            /\ UNCHANGED th \/ \E tries \in retries[c] : Goes(c, [At("getDms") EXCEPT !.tries = tries])
        BY <2>2 DEF RetryFunc, Free, clientVars, serverVars
      <3>3. QED
        BY <1>1, <1>2, <3>1, <3>2, IdleType
    <2>3. CASE OnRemoteDmsDied(c)
      <3>1. UNCHANGED <<th, serving, up, syncSet>>
        BY <2>3 DEF OnRemoteDmsDied, serverVars
      <3>2. \A d \in Clients : remoteDms[d] # "dead" => remoteDms'[d] # "dead"
        BY <2>3 DEF OnRemoteDmsDied, TypeInv, ListenerType
      <3>3. \A y \in Threads : Home(y) \in Clients
        BY HomeType
      <3>4. QED
        BY <3>1, <3>2, <3>3 DEF ReachInv, TypeInv, ServerType
    <2>4. CASE NotifyMissionsChangedFromRemote(c)
      BY <1>1, <2>4 DEF NotifyMissionsChangedFromRemote, serverVars
    <2>5. QED
      BY <1>5, <2>1, <2>2, <2>3, <2>4 DEF HandlerStep, DeviceStep
  <1>6. CASE ServerDies
    BY <1>6 DEF ServerDies, ReachInv
  <1>7. CASE ServerStarts
    <2>1. UNCHANGED <<th, serving, remoteDms, syncSet>> /\ up'
      BY <1>7 DEF ServerStarts, clientVars
    <2>2. QED
      BY <2>1 DEF ReachInv
  <1>8. CASE RunsTask \/ NotifyLocalMissionsChanged \/ NotifyMissionsChangedToRemote \/ MissionsChange
    BY <1>1, <1>8 DEF RunsTask, NotifyLocalMissionsChanged, NotifyMissionsChangedToRemote,
                      MissionsChange, clientVars, serverVars
  <1>9. QED
    BY <1>1, <1>3, <1>4, <1>5, <1>6, <1>7, <1>8 DEF Next, ServerStep, vars, clientVars, serverVars

LEMMA GoesOlder ==
    ASSUME TypeInv, OlderInv, NEW x \in Threads, NEW r \in Thread, Goes(x, r), r.infos <= missions
    PROVE  \A y \in Threads : th'[y].infos <= missions
  BY DEF Goes, TypeInv, ThreadType, OlderInv

LEMMA InfosOf ==
    /\ Idle.infos = 0
    /\ \A place \in Places : At(place).infos = 0
    /\ \A tries \in 0..MaxRetryTimes : [At("getDms") EXCEPT !.tries = tries].infos = 0
    /\ \A infos \in Versions : [At("replied") EXCEPT !.infos = infos].infos = infos
  BY DEF Idle, At

LEMMA AppendOlder ==
    ASSUME NEW q \in Seq(Versions), NEW v \in Versions, NEW m \in Versions,
           \A i \in 1..Len(q) : q[i] <= m
    PROVE  /\ v <= m => \A i \in 1..Len(Append(q, v)) : Append(q, v)[i] <= m
           /\ q # << >> => \A i \in 1..Len(Tail(q)) : Tail(q)[i] <= m
  <1>1. PICK n \in Nat : n = Len(q)
    BY LenProperties
  <1>2. v <= m => \A i \in 1..Len(Append(q, v)) : Append(q, v)[i] <= m
    BY <1>1, AppendProperties
  <1>3. ASSUME q # << >>, NEW i \in 1..Len(Tail(q))
        PROVE  Tail(q)[i] <= m
    <2>1. Len(Tail(q)) = n - 1 /\ n > 0
      BY <1>1, <1>3, HeadTailProperties
    <2>2. i + 1 \in 1..n /\ Tail(q)[i] = q[i + 1]
      BY <1>1, <1>3, <2>1
    <2>3. QED
      BY <1>1, <2>2
  <1>4. QED
    BY <1>2, <1>3

LEMMA NextOlder ==
    ASSUME ~AmsFails, TypeInv, OlderInv, [Next]_vars
    PROVE  OlderInv'
  <1>1. CASE UNCHANGED <<th, reading, missions, changes, unheard, outbox, up>>
    BY <1>1 DEF OlderInv
  <1>2. ASSUME NEW x \in Threads, NEW r \in Thread, Goes(x, r), r.infos <= missions,
               UNCHANGED <<reading, missions, changes, unheard, outbox, up>>
        PROVE  OlderInv'
    BY <1>2, GoesOlder DEF OlderInv
  <1>3. 0 <= missions /\ missions \in Versions /\ missions \in Nat
    BY MissionSyncAssumption DEF TypeInv, EnvType, Versions
  <1>4. ASSUME NEW x \in Threads, ThreadStep(x)
        PROVE  OlderInv'
    <2>1. UNCHANGED <<reading, missions, changes, unheard, outbox, up>>
      BY <1>4 DEF ThreadStep, CallsStart, AddsSyncDevice, AnswersStart, StartFails,
                  RebornMissionCache, StopsRemote, envVars, serverVars, notifyVars, ghosts
    <2>2. \/ UNCHANGED th
          \/ \E r \in {Idle, At("calling"), At("toCall"), [At("replied") EXCEPT !.infos = missions]} : Goes(x, r)
      BY <1>4 DEF ThreadStep, CallsStart, AddsSyncDevice, AnswersStart, StartFails,
                  RebornMissionCache, StopsRemote
    <2>3. \A r \in {Idle, At("calling"), At("toCall")} : r \in Thread /\ r.infos <= missions
      BY <1>3, IdleType, InfosOf DEF Places
    <2>4. /\ [At("replied") EXCEPT !.infos = missions] \in Thread
          /\ [At("replied") EXCEPT !.infos = missions].infos <= missions
      <3>1. [At("replied") EXCEPT !.infos = missions].infos = missions
        BY <1>3, InfosOf
      <3>2. QED
        BY <1>3, <3>1, IdleType
    <2>5. QED
      BY <1>1, <1>2, <2>1, <2>2, <2>3, <2>4
  <1>5. ASSUME NEW a \in Apps, AppStep(a) \/ Call(a) \/ AppDies(a)
        PROVE  OlderInv'
    <2>1. a \in Threads /\ ClientOf[a] \in Threads /\ {"toRegister", "toStop", "getDms"} \subseteq Places
      BY MissionSyncAssumption DEF Threads, Places
    <2>2. UNCHANGED <<reading, missions, changes, unheard, outbox, up>>
      BY <1>5 DEF AppStep, Call, AppDies, RegisterMissionListener, SetsCalled, OnMissionListenerDied,
                  RegistersListener, UnRegisterMissionListener, StartSyncRemoteMissions,
                  StopSyncRemoteMissions, envVars, serverVars, notifyVars, ghosts
    <2>3. \/ UNCHANGED th
          \/ \E y \in {a, ClientOf[a]} : Goes(y, Idle)
                \/ \E place \in {"toRegister", "toStop", "getDms"} : Goes(y, At(place))
      BY <1>5 DEF AppStep, Call, AppDies, RegisterMissionListener, SetsCalled, OnMissionListenerDied,
                  RegistersListener, UnRegisterMissionListener, StartSyncRemoteMissions,
                  StopSyncRemoteMissions
    <2>4. /\ Idle \in Thread /\ Idle.infos <= missions
          /\ \A place \in {"toRegister", "toStop", "getDms"} :
                At(place) \in Thread /\ At(place).infos <= missions
      BY <1>3, <2>1, IdleType, InfosOf
    <2>5. QED
      BY <1>1, <1>2, <2>1, <2>2, <2>3, <2>4
  <1>6. ASSUME NEW c \in Clients, HandlerStep(c) \/ LinkDown(c) \/ LinkUp(c) \/ ClientNotified(c)
                                                 \/ ServerNotified(c)
        PROVE  OlderInv'
    <2>1. UNCHANGED <<reading, missions, changes, unheard, outbox, up>>
      BY <1>6 DEF HandlerStep, RetryFunc, OnRemoteDmsDied, LinkDown, LinkUp, ClientNotified,
                  ServerNotified, envVars, serverVars, notifyVars, ghosts
    <2>2. UNCHANGED th \/ \E tries \in retries[c] : Goes(c, [At("getDms") EXCEPT !.tries = tries])
      BY <1>6 DEF HandlerStep, RetryFunc, OnRemoteDmsDied, LinkDown, LinkUp, ClientNotified,
                  ServerNotified
    <2>3. c \in Threads /\ retries[c] \subseteq 0..MaxRetryTimes
      BY MissionSyncAssumption DEF Threads, TypeInv, TaskType
    <2>4. \A tries \in retries[c] : /\ [At("getDms") EXCEPT !.tries = tries] \in Thread
                                    /\ [At("getDms") EXCEPT !.tries = tries].infos <= missions
      BY <1>3, <2>3, IdleType, InfosOf
    <2>5. QED
      BY <1>1, <1>2, <2>1, <2>2, <2>3, <2>4
  <1>7. ASSUME NEW c \in Clients, NotifyMissionsChangedFromRemote(c)
        PROVE  OlderInv'
    <2>1. /\ UNCHANGED <<th, reading, missions, changes, unheard, up>>
          /\ outbox[c] # << >> /\ outbox[c] \in Seq(Versions)
          /\ outbox' = [outbox EXCEPT ![c] = Tail(outbox[c])]
      BY <1>7 DEF NotifyMissionsChangedFromRemote, envVars, serverVars, TypeInv, ChangeType
    <2>2. \A i \in 1..Len(Tail(outbox[c])) : Tail(outbox[c])[i] <= missions
      BY <1>3, <2>1, AppendOlder DEF OlderInv
    <2>3. \A d \in Clients : outbox'[d] = IF d = c THEN Tail(outbox[c]) ELSE outbox[d]
      BY <2>1 DEF TypeInv, ChangeType
    <2>4. QED
      BY <2>1, <2>2, <2>3 DEF OlderInv
  <1>8. CASE MissionsChange
    <2>1. /\ missions' = missions + 1 /\ UNCHANGED <<th, reading, outbox, up>>
          /\ unheard' = ~isReg
      BY <1>8 DEF MissionsChange, serverVars
    <2>2. /\ missions \in Nat /\ changes \in Nat
          /\ (reading # None) => (reading \in Nat /\ reading <= missions /\ changes > 0)
          /\ (changes > 0) => up
      BY <1>3 DEF TypeInv, ChangeType, Versions, OlderInv
    <2>3. ASSUME NEW c \in Clients
          PROVE  \A i \in 1..Len(outbox[c]) : outbox[c][i] <= missions'
      <3>1. /\ outbox[c] \in Seq(Versions)
            /\ \A i \in 1..Len(outbox[c]) : outbox[c][i] <= missions
        BY DEF TypeInv, ChangeType, OlderInv
      <3>2. \A i \in 1..Len(outbox[c]) : outbox[c][i] \in Nat
        <4>1. \A i \in 1..Len(outbox[c]) : outbox[c][i] \in Versions
          BY <3>1, ElementOfSeq
        <4>2. QED
          BY <4>1 DEF Versions
      <3>3. QED
        BY <2>1, <2>2, <3>1, <3>2
    <2>4. ASSUME NEW x \in Threads
          PROVE  th[x].infos <= missions'
      <3>1. th[x].infos \in Nat /\ th[x].infos <= missions
        BY DEF TypeInv, ThreadType, Thread, Versions, OlderInv
      <3>2. QED
        BY <2>1, <2>2, <3>1
    <2>5. CASE up /\ isReg
      <3>1. changes' = changes + 1
        BY <1>8, <2>5 DEF MissionsChange, Posted
      <3>2. /\ (changes' > 0) => up'
            /\ (reading # None) => (reading <= missions' /\ changes' > 1)
        BY <2>1, <2>2, <2>5, <3>1
      <3>3. QED
        BY <2>1, <2>3, <2>4, <3>2 DEF OlderInv
    <2>6. CASE ~(up /\ isReg)
      <3>1. changes' = changes
        BY <1>8, <2>6 DEF MissionsChange
      <3>2. (reading # None) => (unheard' /\ up)
        BY <2>1, <2>2, <2>6 DEF TypeInv, FlagType
      <3>3. (reading # None) => reading <= missions'
        BY <2>1, <2>2
      <3>4. (changes' > 0) => up'
        BY <2>1, <2>2, <3>1
      <3>5. QED
        BY <2>1, <2>3, <2>4, <3>2, <3>3, <3>4 DEF OlderInv
    <2>7. QED
      BY <2>5, <2>6
  <1>9. CASE NotifyLocalMissionsChanged
    BY <1>3, <1>9 DEF NotifyLocalMissionsChanged, envVars, serverVars, OlderInv
  <1>10. CASE NotifyMissionsChangedToRemote
    <2>1. /\ reading' = None /\ UNCHANGED <<th, missions, unheard, up>> /\ changes' = changes - 1 /\ changes > 0
          /\ reading \in Versions /\ reading <= missions
      BY <1>10 DEF NotifyMissionsChangedToRemote, envVars, serverVars, TypeInv, ChangeType, OlderInv
    <2>2. ASSUME NEW c \in Clients
          PROVE  \A i \in 1..Len(outbox'[c]) : outbox'[c][i] <= missions
      <3>1. outbox'[c] = outbox[c] \/ outbox'[c] = Append(outbox[c], reading)
        BY <1>10 DEF NotifyMissionsChangedToRemote
      <3>2. outbox[c] \in Seq(Versions) /\ \A i \in 1..Len(outbox[c]) : outbox[c][i] <= missions
        BY DEF TypeInv, ChangeType, OlderInv
      <3>3. QED
        BY <1>3, <2>1, <3>1, <3>2, AppendOlder
    <2>3. QED
      BY <2>1, <2>2 DEF OlderInv
  <1>11. CASE ServerDies
    <2>1. /\ reading' = None /\ missions' = missions /\ changes' = 0
          /\ \A c \in Clients : outbox'[c] = << >>
          /\ \A x \in Threads : th'[x] = th[x] \/ th'[x] = Idle
      BY <1>11 DEF ServerDies
    <2>2. QED
      BY <1>3, <2>1, InfosOf DEF OlderInv
  <1>12. CASE RunsTask
    BY <1>1, <1>12 DEF RunsTask, envVars, notifyVars, ghosts
  <1>13. CASE ServerStarts
    BY <1>13 DEF ServerStarts, envVars, notifyVars, ghosts, OlderInv
  <1>14. QED
    BY <1>1, <1>4, <1>5, <1>6, <1>7, <1>8, <1>9, <1>10, <1>11, <1>12, <1>13
    DEF Next, DeviceStep, ServerStep, vars, envVars, serverVars, notifyVars, ghosts

LEMMA ArrivesKept ==
    ASSUME NEW c \in Clients, Arrives(c), UNCHANGED <<missions, unheard, changes>>,
           outbox'[c] = outbox[c], cache'[c] = cache[c], c \in missed => c \in missed',
           \A y \in Threads : Home(y) = c /\ Bringing(y) => Bringing(y)'
    PROVE  Arrives(c)'
  <1>1. Sent(c) => Sent(c)'
    BY DEF Sent
  <1>2. CASE \E y \in Threads : Home(y) = c /\ Bringing(y)
    <2>1. PICK y \in Threads : Home(y) = c /\ Bringing(y)
      BY <1>2
    <2>2. Bringing(y)' /\ Home(y)' = c
      BY <2>1 DEF Home
    <2>3. QED
      BY <2>2 DEF Arrives
  <1>3. QED
    BY <1>1, <1>2 DEF Arrives

(* The thread that takes a step is the only one whose list can be lost. *)
LEMMA GoesBringing ==
    ASSUME TypeInv, NEW x \in Threads, NEW r \in Thread, Goes(x, r), missions' = missions,
           \A y \in Threads : y # x => serving'[y] = serving[y]
    PROVE  \A y \in Threads : y # x /\ Bringing(y) => Bringing(y)'
  <1>1. \A y \in Threads : y # x => th'[y] = th[y]
    BY DEF Goes, TypeInv, ThreadType
  <1>2. QED
    BY <1>1 DEF Bringing

(* An old list does not take the place of the last one unnoticed. *)
LEMMA ReceivesFresh ==
    ASSUME TypeInv, NEW c \in Clients, NEW infos \in Versions, infos <= missions, Receives(c, infos)
    PROVE  /\ \A d \in Clients : d # c => cache'[d] = cache[d] /\ (d \in missed => d \in missed')
           /\ infos = missions => cache'[c] = missions
           /\ infos # missions => /\ c \in missed => c \in missed'
                                  /\ cache[c] = missions => c \in missed'
  <1>1. cache' = [cache EXCEPT ![c] = infos] /\ cache \in [Clients -> Versions \cup {None}]
    BY DEF Receives, TypeInv, ListenerType
  <1>2. \A d \in Clients : d # c => (d \in missed => d \in missed')
    BY DEF Receives
  <1>3. missions \in Versions /\ (infos # missions => infos < missions)
    BY DEF TypeInv, EnvType, Versions
  <1>4. infos # missions => /\ c \in missed => c \in missed'
                            /\ cache[c] = missions => c \in missed'
    BY <1>3 DEF Receives
  <1>5. QED
    BY <1>1, <1>2, <1>4

LEMMA ThreadStepArrives ==
    ASSUME ~AmsFails, MaxDowns = 0, TypeInv, FreshInv, NEW x \in Threads, ThreadStep(x)
    PROVE  ArrivesInv'
  <1> DEFINE c == Home(x)
  <1>1. c \in Clients /\ link[c] /\ x \in Threads
    BY HomeType DEF FreshInv, LinksUp
  <1>2. serving[x] = "idle" \/ th[x].pc = "calling"
    BY DEF FreshInv, ReachInv
  <1>3. \A d \in syncSet : d \in Clients /\ Arrives(d)
    BY DEF FreshInv, ArrivesInv, TypeInv, ServerType
  <1>4. missions \in Versions
    BY DEF TypeInv, EnvType
  <1>5. UNCHANGED <<missions, unheard, changes, outbox>>
    BY DEF ThreadStep, CallsStart, AddsSyncDevice, AnswersStart, StartFails, RebornMissionCache,
           StopsRemote, envVars, notifyVars, ghosts
  <1>6. CASE CallsStart(x)
    <2>1. PICK r \in {Idle, At("calling")} : Goes(x, r)
      BY <1>6 DEF CallsStart
    <2>2. r \in Thread
      BY <2>1, IdleType DEF Places
    <2>3. \A y \in Threads : y # x => serving'[y] = serving[y]
      BY <1>6 DEF CallsStart, TypeInv, ThreadType
    <2>4. ~Bringing(x)
      BY <1>2, <1>6 DEF CallsStart, Bringing
    <2>5. \A y \in Threads : Bringing(y) => Bringing(y)'
      BY <1>5, <2>1, <2>2, <2>3, <2>4, GoesBringing
    <2>6. UNCHANGED <<cache, missed, syncSet>>
      BY <1>6 DEF CallsStart, serverVars
    <2>7. QED
      BY <1>3, <1>5, <2>5, <2>6, ArrivesKept DEF ArrivesInv
  <1>7. CASE AddsSyncDevice(x)
    <2>1. /\ th' = th /\ serving'[x] = "added" /\ UNCHANGED <<cache, missed>>
          /\ \A y \in Threads : y # x => serving'[y] = serving[y]
          /\ syncSet' = syncSet \cup {c}
      BY <1>7 DEF AddsSyncDevice, clientVars, ghosts, TypeInv, ThreadType
    <2>2. \A y \in Threads : Bringing(y) => Bringing(y)'
      BY <1>5, <2>1 DEF Bringing
    <2>3. Bringing(x)' /\ Home(x)' = c
      BY <2>1 DEF Bringing, Home
    <2>4. Arrives(c)'
      BY <1>1, <2>3 DEF Arrives
    <2>5. \A d \in syncSet : Arrives(d)'
      BY <1>3, <1>5, <2>1, <2>2, ArrivesKept
    <2>6. QED
      BY <2>1, <2>4, <2>5 DEF ArrivesInv
  <1>8. CASE AnswersStart(x)
    <2> DEFINE r == [At("replied") EXCEPT !.infos = missions]
    <2>1. th[x].pc = "calling"
      BY <1>2, <1>8 DEF AnswersStart
    <2>2. Goes(x, r)
      BY <1>8, <2>1 DEF AnswersStart
    <2>3. r \in Thread /\ r.pc = "replied" /\ r.infos = missions
      BY <1>4, IdleType, InfosOf DEF At, Idle
    <2>4. UNCHANGED <<cache, missed, syncSet>> /\ \A y \in Threads : y # x => serving'[y] = serving[y]
      BY <1>8 DEF AnswersStart, clientVars, TypeInv, ThreadType
    <2> HIDE DEF r
    <2>5. th'[x] = r
      BY <2>2 DEF Goes, TypeInv, ThreadType
    <2>6. Bringing(x)'
      BY <1>5, <2>3, <2>5 DEF Bringing
    <2>7. \A y \in Threads : Bringing(y) => Bringing(y)'
      BY <1>5, <2>2, <2>3, <2>4, <2>6, GoesBringing
    <2>8. QED
      BY <1>3, <1>5, <2>4, <2>7, ArrivesKept DEF ArrivesInv
  <1>9. ~StartFails(x)
    BY <1>1 DEF StartFails
  <1>10. CASE RebornMissionCache(x)
    <2>1. th[x].pc = "replied" /\ Receives(c, th[x].infos) /\ UNCHANGED <<serving, syncSet>>
      BY <1>10 DEF RebornMissionCache, serverVars
    <2>2. PICK r \in {Idle, At("toCall")} : Goes(x, r)
      BY <1>10 DEF RebornMissionCache
    <2>3. r \in Thread
      BY <2>2, IdleType DEF Places
    <2>4. \A y \in Threads : y # x /\ Bringing(y) => Bringing(y)'
      BY <1>5, <2>1, <2>2, <2>3, GoesBringing
    <2>5. Bringing(x) => th[x].infos = missions
      BY <1>2, <2>1 DEF Bringing
    <2>6. th[x].infos \in Versions /\ th[x].infos <= missions
      BY DEF TypeInv, ThreadType, Thread, FreshInv, OlderInv
    <2>7. ASSUME NEW d \in syncSet, d # c
          PROVE  Arrives(d)'
      <3>1. cache'[d] = cache[d] /\ (d \in missed => d \in missed')
        BY <1>1, <1>3, <2>1, <2>6, <2>7, ReceivesFresh
      <3>2. \A y \in Threads : Home(y) = d /\ Bringing(y) => Bringing(y)'
        BY <2>4, <2>7
      <3>3. QED
        BY <1>3, <1>5, <3>1, <3>2, ArrivesKept
    <2>8. CASE th[x].infos = missions
      <3>1. cache'[c] = missions'
        BY <1>1, <1>5, <2>1, <2>6, <2>8, ReceivesFresh
      <3>2. Arrives(c)'
        BY <3>1 DEF Arrives, Home
      <3>3. QED
        BY <2>1, <2>7, <3>2 DEF ArrivesInv
    <2>9. CASE th[x].infos # missions
      <3>1. (c \in missed => c \in missed') /\ (cache[c] = missions => c \in missed')
        BY <1>1, <2>1, <2>6, <2>9, ReceivesFresh
      <3>2. \A y \in Threads : Bringing(y) => Bringing(y)'
        BY <2>4, <2>5, <2>9
      <3>3. Sent(c) => Sent(c)'
        BY <1>5 DEF Sent, Home
      <3>4. c \in syncSet => Arrives(c)'
        BY <1>3, <1>5, <3>1, <3>2, <3>3 DEF Arrives, Home
      <3>5. QED
        BY <2>1, <2>7, <3>4 DEF ArrivesInv
    <2>10. QED
      BY <2>8, <2>9
  <1>11. CASE StopsRemote(x)
    <2>1. /\ UNCHANGED <<cache, missed, serving>> /\ Goes(x, Idle)
          /\ Usable(c) => syncSet' = syncSet \ {c}
          /\ ~Usable(c) => syncSet' = syncSet
      BY <1>11 DEF StopsRemote, Withdraws
    <2>2. c \in syncSet => Usable(c)
      BY <1>1 DEF FreshInv, ReachInv, Usable, Reaches
    <2>3. syncSet' = syncSet \ {c}
      BY <2>1, <2>2
    <2>4. \A y \in Threads : y # x /\ Bringing(y) => Bringing(y)'
      BY <1>5, <2>1, IdleType, GoesBringing
    <2>5. \A d \in syncSet \ {c} : Arrives(d)'
      BY <1>3, <1>5, <2>1, <2>4, ArrivesKept
    <2>6. QED
      BY <2>3, <2>5 DEF ArrivesInv
  <1>12. QED
    BY <1>6, <1>7, <1>8, <1>9, <1>10, <1>11 DEF ThreadStep

LEMMA AppStepArrives ==
    ASSUME TypeInv, FreshInv, NEW a \in Apps, AppStep(a) \/ Call(a) \/ AppDies(a)
    PROVE  ArrivesInv'
  <1> DEFINE c == ClientOf[a]
  <1>1. a \in Threads /\ c \in Threads /\ c \in Clients /\ {"toRegister", "toStop", "getDms"} \subseteq Places
    BY MissionSyncAssumption DEF Threads, Places
  <1>2. Home(a) = c /\ Home(c) = c
    BY <1>1, MissionSyncAssumption DEF Home
  <1>3. \A d \in syncSet : d \in Clients /\ Arrives(d)
    BY DEF FreshInv, ArrivesInv, TypeInv, ServerType
  <1>4. UNCHANGED <<missions, unheard, changes, outbox, missed, serving, syncSet>>
    BY DEF AppStep, Call, AppDies, RegisterMissionListener, SetsCalled, OnMissionListenerDied,
           RegistersListener, UnRegisterMissionListener, StartSyncRemoteMissions,
           StopSyncRemoteMissions, envVars, serverVars, notifyVars, ghosts
  <1>5. ASSUME UNCHANGED <<cache, th>>
        PROVE  ArrivesInv'
    <2>1. \A y \in Threads : Bringing(y) => Bringing(y)'
      BY <1>4, <1>5 DEF Bringing
    <2>2. QED
      BY <1>3, <1>4, <1>5, <2>1, ArrivesKept DEF ArrivesInv
  <1>6. ASSUME UNCHANGED cache, ~Bringing(a), NEW r \in Thread, Goes(a, r)
        PROVE  ArrivesInv'
    <2>1. \A y \in Threads : Bringing(y) => Bringing(y)'
      BY <1>1, <1>4, <1>6, GoesBringing
    <2>2. QED
      BY <1>3, <1>4, <1>6, <2>1, ArrivesKept DEF ArrivesInv
  <1>7. ASSUME Cleaned(c), NEW x \in {a, c}, Goes(x, At("toStop"))
        PROVE  ArrivesInv'
    <2>1. At("toStop") \in Thread /\ At("toStop").pc = "toStop"
      BY <1>1, IdleType
    <2>2. th'[x] = At("toStop") /\ Home(x)' = c
      BY <1>1, <1>2, <1>7, <2>1 DEF Goes, TypeInv, ThreadType, Home
    <2>3. Bringing(x)'
      BY <2>1, <2>2 DEF Bringing
    <2>4. Arrives(c)'
      BY <1>1, <1>7, <2>2, <2>3 DEF Arrives
    <2>5. \A y \in Threads : Bringing(y) => Bringing(y)'
      BY <1>1, <1>4, <1>7, <2>1, <2>3, GoesBringing
    <2>6. \A d \in Clients : d # c => cache'[d] = cache[d]
      BY <1>7 DEF Cleaned, TypeInv, ListenerType
    <2>7. \A d \in syncSet : d # c => Arrives(d)'
      BY <1>3, <1>4, <2>5, <2>6, ArrivesKept
    <2>8. QED
      BY <1>4, <2>4, <2>7 DEF ArrivesInv
  <1>8. \A place \in {"toRegister", "getDms"} : At(place) \in Thread
    BY <1>1, IdleType
  <1>9. CASE RegisterMissionListener(a) \/ SetsCalled(a)
    <2>1. UNCHANGED cache /\ Goes(a, Idle) /\ th[a].pc \in {"toRegister", "toCall"}
      BY <1>9 DEF RegisterMissionListener, SetsCalled
    <2>2. ~Bringing(a)
      BY <1>1, <2>1 DEF Bringing, FreshInv, ReachInv
    <2>3. QED
      BY <1>6, <2>1, <2>2, IdleType
  <1>10. CASE RegistersListener(a) \/ StartSyncRemoteMissions(a)
    <2>1. /\ UNCHANGED cache /\ Free(a)
          /\ \E place \in {"toRegister", "getDms"} : Goes(a, At(place))
      BY <1>10 DEF RegistersListener, StartSyncRemoteMissions, clientVars
    <2>2. ~Bringing(a)
      BY <2>1 DEF Bringing, Free
    <2>3. QED
      BY <1>6, <1>8, <2>1, <2>2
  <1>11. CASE StopSyncRemoteMissions(a)
    BY <1>7, <1>11 DEF StopSyncRemoteMissions
  <1>12. CASE UnRegisterMissionListener(a) \/ AppDies(a)
    BY <1>5, <1>12 DEF UnRegisterMissionListener, AppDies, clientVars
  <1>13. CASE OnMissionListenerDied(a)
    <2>1. (UNCHANGED <<cache, th>>) \/ (Cleaned(c) /\ Goes(c, At("toStop")))
      BY <1>13 DEF OnMissionListenerDied
    <2>2. QED
      BY <1>5, <1>7, <2>1
  <1>14. QED
    BY <1>9, <1>10, <1>11, <1>12, <1>13 DEF AppStep, Call

LEMMA DeviceStepArrives ==
    ASSUME MaxDowns = 0, TypeInv, FreshInv, NEW c \in Clients,
           HandlerStep(c) \/ DeviceStep(c) \/ LinkDown(c) \/ LinkUp(c)
    PROVE  ArrivesInv'
  <1>1. ~LinkDown(c) /\ ~LinkUp(c) /\ ~ClientNotified(c) /\ ~ServerNotified(c)
    BY DEF LinkDown, LinkUp, ClientNotified, ServerNotified, FreshInv, LinksUp, TypeInv, LinkType
  <1>2. UNCHANGED <<missions, unheard, changes, serving, syncSet>>
    BY <1>1 DEF HandlerStep, DeviceStep, RetryFunc, OnRemoteDmsDied,
                NotifyMissionsChangedFromRemote, envVars, serverVars, notifyVars, ghosts
  <1>3. \A d \in syncSet : d \in Clients /\ Arrives(d)
    BY DEF FreshInv, ArrivesInv, TypeInv, ServerType
  <1>4. CASE RetryFunc(c)
    <2>1. c \in Threads /\ retries[c] \subseteq 0..MaxRetryTimes
      BY MissionSyncAssumption DEF Threads, TypeInv, TaskType
    <2>2. /\ UNCHANGED <<cache, missed, outbox>> /\ Free(c)
          /\ UNCHANGED th \/ \E tries \in retries[c] : Goes(c, [At("getDms") EXCEPT !.tries = tries])
      BY <1>4 DEF RetryFunc, clientVars, notifyVars, ghosts
    <2>3. ~Bringing(c)
      BY <2>2 DEF Bringing, Free
    <2>4. \A y \in Threads : Bringing(y) => Bringing(y)'
      <3>1. CASE UNCHANGED th
        BY <1>2, <3>1 DEF Bringing
      <3>2. CASE \E tries \in retries[c] : Goes(c, [At("getDms") EXCEPT !.tries = tries])
        BY <1>2, <2>1, <2>3, <3>2, IdleType, GoesBringing
      <3>3. QED
        BY <2>2, <3>1, <3>2
    <2>5. QED
      BY <1>2, <1>3, <2>2, <2>4, ArrivesKept DEF ArrivesInv
  <1>5. CASE OnRemoteDmsDied(c)
    <2>1. UNCHANGED <<cache, missed, outbox, th>>
      BY <1>5 DEF OnRemoteDmsDied, notifyVars, ghosts
    <2>2. \A y \in Threads : Bringing(y) => Bringing(y)'
      BY <1>2, <2>1 DEF Bringing
    <2>3. QED
      BY <1>2, <1>3, <2>1, <2>2, ArrivesKept DEF ArrivesInv
  <1>6. CASE NotifyMissionsChangedFromRemote(c)
    <2> DEFINE infos == Head(outbox[c])
    <2>1. /\ outbox[c] # << >> /\ outbox[c] \in Seq(Versions)
          /\ outbox' = [outbox EXCEPT ![c] = Tail(outbox[c])] /\ Receives(c, infos) /\ th' = th
      BY <1>6 DEF NotifyMissionsChangedFromRemote, FreshInv, LinksUp, TypeInv, ChangeType
    <2>2. PICK n \in Nat : n = Len(outbox[c])
      BY <2>1, LenProperties
    <2>3. n > 0 /\ infos = outbox[c][1] /\ infos \in Versions /\ infos <= missions
      <3>1. n > 0 /\ infos = outbox[c][1] /\ infos \in Versions
        BY <2>1, <2>2, HeadTailProperties
      <3>2. 1 \in 1..n
        BY <3>1
      <3>3. QED
        BY <2>2, <3>1, <3>2 DEF FreshInv, OlderInv
    <2>4. \A y \in Threads : Bringing(y) => Bringing(y)'
      BY <1>2, <2>1 DEF Bringing
    <2>5. outbox'[c] = Tail(outbox[c]) /\ \A d \in Clients : d # c => outbox'[d] = outbox[d]
      BY <2>1 DEF TypeInv, ChangeType
    <2>6. ASSUME NEW d \in syncSet, d # c
          PROVE  Arrives(d)'
      <3>1. cache'[d] = cache[d] /\ (d \in missed => d \in missed')
        BY <1>3, <2>1, <2>3, <2>6, ReceivesFresh
      <3>2. QED
        BY <1>2, <1>3, <2>4, <2>5, <2>6, <3>1, ArrivesKept
    <2>7. CASE infos = missions
      <3>1. cache'[c] = missions'
        BY <1>2, <2>1, <2>3, <2>7, ReceivesFresh
      <3>2. QED
        BY <1>2, <2>6, <3>1 DEF Arrives, ArrivesInv
    <2>8. CASE infos # missions
      <3>1. (c \in missed => c \in missed') /\ (cache[c] = missions => c \in missed')
        BY <2>1, <2>3, <2>8, ReceivesFresh
      <3>2. Sent(c) => Sent(c)'
        <4>1. SUFFICES ASSUME Sent(c) PROVE Sent(c)'
          OBVIOUS
        <4>2. Len(outbox[c]) # 1
          BY <2>2, <2>3, <2>8, <4>1 DEF Sent
        <4>3. /\ Tail(outbox[c]) # << >>
              /\ Tail(outbox[c])[Len(Tail(outbox[c]))] = outbox[c][Len(outbox[c])]
          BY <2>1, <4>2, LastOfTail
        <4>4. QED
          BY <1>2, <2>5, <4>1, <4>3 DEF Sent
      <3>3. ASSUME NEW y \in Threads, Home(y) = c, Bringing(y)
            PROVE  Arrives(c)'
        <4>1. Bringing(y)' /\ Home(y)' = c
          BY <2>4, <3>3 DEF Home
        <4>2. QED
          BY <4>1 DEF Arrives
      <3>4. c \in syncSet => Arrives(c)'
        <4>1. SUFFICES ASSUME c \in syncSet, ~\E y \in Threads : Home(y) = c /\ Bringing(y)
                       PROVE  Arrives(c)'
          BY <3>3
        <4>2. c \in missed \/ unheard \/ changes > 0 \/ cache[c] = missions \/ Sent(c)
          BY <1>3, <4>1 DEF Arrives
        <4>3. QED
          BY <1>2, <3>1, <3>2, <4>2 DEF Arrives
      <3>5. QED
        BY <1>2, <2>6, <3>4 DEF ArrivesInv
    <2>9. QED
      BY <2>7, <2>8
  <1>7. QED
    BY <1>1, <1>4, <1>5, <1>6 DEF HandlerStep, DeviceStep

LEMMA ServerStepArrives ==
    ASSUME ~AmsFails, TypeInv, FreshInv, ServerStep \/ MissionsChange \/ ServerDies
    PROVE  ArrivesInv'
  <1>1. \A d \in syncSet : d \in Clients /\ Arrives(d) /\ up
    BY DEF FreshInv, ReachInv, ArrivesInv, TypeInv, ServerType
  <1>2. changes \in Nat
    BY DEF TypeInv, ChangeType
  <1>3. CASE RunsTask \/ NotifyLocalMissionsChanged \/ ServerStarts
    <2>1. UNCHANGED <<missions, unheard, changes, outbox, cache, missed, th, serving, syncSet>>
      BY <1>3 DEF RunsTask, NotifyLocalMissionsChanged, ServerStarts, clientVars, envVars,
                  serverVars, notifyVars, ghosts
    <2>2. \A y \in Threads : Bringing(y) => Bringing(y)'
      BY <2>1 DEF Bringing
    <2>3. QED
      BY <1>1, <2>1, <2>2, ArrivesKept DEF ArrivesInv
  <1>4. CASE NotifyMissionsChangedToRemote
    <2>1. /\ reading # None /\ UNCHANGED <<missions, unheard, syncSet>> /\ changes' = changes - 1
          /\ \A c \in syncSet : outbox'[c] = Append(outbox[c], reading)
      BY <1>1, <1>4 DEF NotifyMissionsChangedToRemote, envVars, serverVars, FreshInv, LinksUp
    <2>2. CASE reading = missions
      <3>1. ASSUME NEW c \in syncSet
            PROVE  Sent(c)'
        <4>1. outbox[c] \in Seq(Versions) /\ missions \in Versions
          BY <1>1 DEF TypeInv, ChangeType, EnvType
        <4>2. PICK n \in Nat : n = Len(outbox[c])
          BY <4>1, LenProperties
        <4>3. /\ Append(outbox[c], missions) \in Seq(Versions)
              /\ Len(Append(outbox[c], missions)) = n + 1
              /\ Append(outbox[c], missions)[n + 1] = missions
          BY <4>1, <4>2, AppendProperties
        <4>4. Append(outbox[c], missions) # << >>
          BY <4>2, <4>3
        <4>5. QED
          BY <2>1, <2>2, <4>3, <4>4 DEF Sent
      <3>2. QED
        BY <2>1, <3>1 DEF Arrives, ArrivesInv
    <2>3. CASE reading # missions
      <3>1. changes > 1 \/ unheard
        BY <2>1, <2>3 DEF FreshInv, OlderInv
      <3>2. changes' > 0 \/ unheard'
        BY <1>2, <2>1, <3>1
      <3>3. QED
        BY <3>2 DEF Arrives, ArrivesInv
    <2>4. QED
      BY <2>2, <2>3
  <1>5. CASE MissionsChange
    <2>1. syncSet' = syncSet /\ unheard' = ~isReg /\ (up /\ isReg => changes' = changes + 1)
      BY <1>5 DEF MissionsChange, Posted, serverVars
    <2>2. ASSUME NEW c \in syncSet
          PROVE  changes' > 0 \/ unheard'
      <3>1. CASE isReg
        <4>1. changes' = changes + 1
          BY <1>1, <2>1, <2>2, <3>1
        <4>2. QED
          BY <1>2, <4>1
      <3>2. QED
        BY <2>1, <3>1
    <2>3. QED
      BY <2>1, <2>2 DEF Arrives, ArrivesInv
  <1>6. CASE ServerDies
    BY <1>6 DEF ServerDies, ArrivesInv
  <1>7. QED
    BY <1>3, <1>4, <1>5, <1>6 DEF ServerStep

LEMMA NextFresh ==
    ASSUME ~AmsFails, MaxDowns = 0, TypeInv, FreshInv, [Next]_vars
    PROVE  FreshInv'
  <1>1. LinksUp' /\ ReachInv' /\ OlderInv'
    BY NextLinksUp, NextReach, NextOlder DEF FreshInv
  <1>2. CASE UNCHANGED vars
    <2>1. UNCHANGED <<missions, unheard, changes, outbox, cache, missed, th, serving, syncSet>>
      BY <1>2 DEF vars, clientVars, envVars, serverVars, notifyVars, ghosts
    <2>2. \A y \in Threads : Bringing(y) => Bringing(y)'
      BY <2>1 DEF Bringing
    <2>3. \A d \in syncSet : d \in Clients /\ Arrives(d)
      BY DEF FreshInv, ArrivesInv, TypeInv, ServerType
    <2>4. ArrivesInv'
      BY <2>1, <2>2, <2>3, ArrivesKept DEF ArrivesInv
    <2>5. QED
      BY <1>1, <2>4 DEF FreshInv
  <1>3. CASE Next
    <2>1. ArrivesInv'
      BY <1>3, ThreadStepArrives, AppStepArrives, DeviceStepArrives, ServerStepArrives DEF Next
    <2>2. QED
      BY <1>1, <2>1 DEF FreshInv
  <1>4. QED
    BY <1>2, <1>3

LEMMA FreshAtRest == FreshInv => CacheFresh
  <1> SUFFICES ASSUME FreshInv, NEW c \in Clients, QuietServer, QuietClient(c), c \in syncSet,
                      cache[c] # missions, c \notin missed, ~unheard
               PROVE  FALSE
    BY DEF CacheFresh
  <1>1. Arrives(c) /\ changes = 0 /\ outbox[c] = << >>
    BY DEF FreshInv, ArrivesInv, QuietServer, QuietClient
  <1>2. \A x \in Threads : Home(x) = c => ~Bringing(x)
    BY DEF Bringing, QuietServer, QuietClient
  <1>3. QED
    BY <1>1, <1>2 DEF Arrives, Sent

(* While the ability manager refuses nothing and links stay, a client at rest that     *)
(* synchronises has the last list of the server, unless a change went unheard or an     *)
(* older list replaced it: however starts, stops and changes overlap, and however often *)
(* the server fails and is started again (CacheFresh).                                  *)
THEOREM FreshCorrect ==
    ASSUME ~AmsFails, MaxDowns = 0
    PROVE  Spec => []CacheFresh
  <1>1. Init => FreshInv
    <2> SUFFICES ASSUME Init PROVE FreshInv
      OBVIOUS
    <2>1. LinksUp /\ ReachInv /\ ArrivesInv
      BY DEF Init, LinksUp, ReachInv, ArrivesInv, ArrivesInv
    <2>2. missions \in Nat /\ 0 <= missions /\ changes = 0 /\ reading = None
          /\ \A c \in Clients : outbox[c] = << >>
      BY DEF Init
    <2>3. \A x \in Threads : th[x].infos = 0
      BY InfosOf DEF Init
    <2>4. OlderInv
      BY <2>2, <2>3 DEF OlderInv
    <2>5. QED
      BY <2>1, <2>4 DEF FreshInv
  <1>2. TypeInv /\ FreshInv /\ [Next]_vars => FreshInv'
    BY NextFresh
  <1>3. QED
    BY InitType, NextType, <1>1, <1>2, FreshAtRest, PTL DEF Spec

-----------------------------------------------------------------------------
(* The two ends agree.  Here calls and failures wait until what is under way has ended,  *)
(* save the retries of a client, which come whenever its handler is free.                *)
Serial == Overlaps = {{}}

Offline == <<"offline">>
Online == <<"online">>
NoEvents(c) == clientEvents[c] = << >> /\ serverEvents[c] = << >>

(* A call of an application, or its end by the handler after the listener's death. *)
Busy(x) == th[x].pc # "idle" /\ (x \in Apps \/ th[x].pc = "toStop")

(* Of a client, one thing is under way: a call, a death or a change of its link. *)
Apart(c) ==
    /\ \A x, y \in Threads : Home(x) = c /\ Home(y) = c /\ Busy(x) /\ Busy(y) => x = y
    /\ \A x \in Threads : Home(x) = c /\ Busy(x) =>
          NoEvents(c) /\ c \notin dmsDied /\ \A a \in died : ClientOf[a] # c
    /\ \A a, b \in died : ClientOf[a] = c /\ ClientOf[b] = c => a = b
    /\ \A a \in died : ClientOf[a] = c => NoEvents(c) /\ c \notin dmsDied
    /\ c \in dmsDied => NoEvents(c)

(* What the ends are still to hear of the link is its last change; the proxy of a client *)
(* that has heard all is live when the server runs and is reached.                       *)
LinkKnown(c) ==
    /\ clientEvents[c] \in {<< >>, IF link[c] THEN Online ELSE Offline}
    /\ serverEvents[c] \in {<< >>, IF link[c] THEN Online ELSE Offline}
    /\ remoteDms[c] = "dead" <=> c \in dmsDied
    /\ remoteDms[c] = "live" => up /\ (link[c] \/ clientEvents[c] = Offline)
    /\ c \in syncSet => remoteDms[c] = "live" \/ serverEvents[c] = Offline
    /\ clientEvents[c] = Offline => serverEvents[c] = Offline \/ c \notin syncSet
    /\ serverEvents[c] = Offline => ~called[c] \/ clientEvents[c] = Offline

(* A start under way has reached the server; one of an application finds that its client *)
(* does not synchronise, one of the handler that it does, unless the link is lost.       *)
StartKnown(c) ==
    /\ \A x \in Threads : Home(x) = c =>
          /\ serving[x] # "idle" <=> th[x].pc = "calling"
          /\ th[x].pc \in {"calling", "replied"} => link[c] /\ remoteDms[c] = "live"
    /\ th[c].pc \in {"calling", "replied"} => called[c]
    /\ th[c].pc = "getDms" => called[c] \/ ~link[c]
    /\ th[c].pc = "toStop" => ~called[c]
    /\ th[c].pc \notin {"toRegister", "toCall"}
    /\ \A a \in Apps : ClientOf[a] = c =>
          /\ th[a].pc # "idle" => a \in alive
          /\ th[a].pc \in {"getDms", "calling", "replied", "toCall"} => ~called[c] /\ th[c].pc = "idle"

(* A client that synchronises is told, or starts again, or will hear that it cannot; one *)
(* that is told synchronises, or is about to know that it does or does not.              *)
Restarts(c) ==
    \/ clientEvents[c] = Offline \/ c \in dmsDied
    \/ retries[c] # {} \/ th[c].pc = "getDms" \/ serving[c] = "called"
Started(a) == serving[a] = "added" \/ th[a].pc \in {"replied", "toCall"}
Ends(c) ==
    /\ called[c] => c \in syncSet \/ c \in loose \/ Restarts(c)
    /\ c \in syncSet => \/ called[c] \/ c \in loose
                        \/ serverEvents[c] = Offline \/ th[c].pc = "toStop"
                        \/ \E a \in Apps : ClientOf[a] = c /\ Started(a)
    /\ \A a \in Apps : ClientOf[a] = c /\ Started(a) => c \in syncSet

EndOf(c) == Apart(c) /\ LinkKnown(c) /\ StartKnown(c) /\ Ends(c)
EndsInv ==
    /\ overlap = {}
    /\ ~up => syncSet = {} /\ \A x \in Threads : serving[x] = "idle"
    /\ \A c \in Clients : EndOf(c)

(* A step that does nothing to a client keeps what is said of it. *)
DataSame(c) ==
    /\ called'[c] = called[c] /\ remoteDms'[c] = remoteDms[c] /\ retries'[c] = retries[c]
    /\ link'[c] = link[c] /\ clientEvents'[c] = clientEvents[c] /\ serverEvents'[c] = serverEvents[c]
    /\ c \in syncSet' <=> c \in syncSet
    /\ c \in loose' <=> c \in loose
    /\ c \in dmsDied' <=> c \in dmsDied
DeathsSame(c) ==
    \A a \in Apps : ClientOf[a] = c => (a \in died' <=> a \in died) /\ (a \in alive' <=> a \in alive)
ThreadsSame(c) ==
    \A x \in Threads : Home(x) = c => th'[x].pc = th[x].pc /\ serving'[x] = serving[x]
Same(c) == DataSame(c) /\ DeathsSame(c) /\ ThreadsSame(c)

LEMMA Homes ==
    /\ \A c \in Clients : c \in Threads /\ Home(c) = c /\ c \notin Apps
    /\ \A a \in Apps : a \in Threads /\ Home(a) = ClientOf[a] /\ ClientOf[a] \in Clients
    /\ \A x \in Threads : Home(x) \in Clients /\ (x \in Apps \/ x = Home(x))
  BY MissionSyncAssumption DEF Threads, Home

LEMMA SameEnds ==
    ASSUME TypeInv, TypeInv', NEW c \in Clients, EndOf(c), Same(c), up => up'
    PROVE  EndOf(c)'
  <1>1. died \subseteq Apps /\ died' \subseteq Apps
    BY DEF TypeInv, TaskType
  <1>2. \A x \in Threads : Home(x) = c => th'[x].pc = th[x].pc /\ serving'[x] = serving[x] /\ (Busy(x)' <=> Busy(x))
    BY DEF Same, ThreadsSame, Busy
  <1>3. Apart(c)'
    BY <1>1, <1>2 DEF EndOf, Apart, Same, DataSame, DeathsSame, NoEvents
  <1>4. LinkKnown(c)'
    BY DEF EndOf, LinkKnown, Same, DataSame
  <1>5. StartKnown(c)'
    BY <1>2, Homes DEF EndOf, StartKnown, Same, DataSame, DeathsSame
  <1>6. \A a \in Apps : ClientOf[a] = c => (Started(a)' <=> Started(a))
    BY <1>2, Homes DEF Started
  <1>7. Restarts(c)' <=> Restarts(c)
    BY <1>2, Homes DEF Restarts, Same, DataSame
  <1>8. Ends(c)'
    BY <1>2, <1>6, <1>7, Homes DEF EndOf, Ends, Same, DataSame
  <1>9. QED
    BY <1>3, <1>4, <1>5, <1>8 DEF EndOf

(* Where the thread of a step goes. *)
LEMMA GoesTo ==
    ASSUME TypeInv, NEW x \in Threads, NEW r, Goes(x, r)
    PROVE  \A y \in Threads : th'[y].pc = IF y = x THEN r.pc ELSE th[y].pc
  BY DEF Goes, TypeInv, ThreadType

LEMMA PcOf ==
    /\ Idle.pc = "idle"
    /\ \A place : At(place).pc = place
    /\ \A tries : [At("getDms") EXCEPT !.tries = tries].pc = "getDms"
    /\ \A infos : [At("replied") EXCEPT !.infos = infos].pc = "replied"
  BY DEF At, Idle

LEMMA ThreadElsewhere ==
    ASSUME TypeInv, NEW x \in Threads, ThreadStep(x), NEW c \in Clients, c # Home(x)
    PROVE  Same(c) /\ UNCHANGED <<up, overlap>>
  <1> USE DEF ThreadStep, CallsStart, AddsSyncDevice, AnswersStart, StartFails,
              RebornMissionCache, StopsRemote
  <1>1. UNCHANGED <<called, died, dmsDied, up, overlap, alive, link, clientEvents, serverEvents>>
    BY DEF clientVars, serverVars, taskVars, envVars, linkVars
  <1>2. UNCHANGED remoteDms \/ remoteDms' = [remoteDms EXCEPT ![Home(x)] = "live"]
    BY DEF KeepsDms, clientVars
  <1>3. UNCHANGED retries \/ \E r : retries' = [retries EXCEPT ![Home(x)] = r]
    BY DEF RetryStartSyncRemoteMissions, taskVars
  <1>4. UNCHANGED syncSet \/ syncSet' = syncSet \cup {Home(x)} \/ syncSet' = syncSet \ {Home(x)}
    BY DEF Withdraws, serverVars
  <1>5. UNCHANGED loose \/ loose' = loose \cup {Home(x)} \/ loose' = loose \ {Home(x)}
    BY DEF RetryStartSyncRemoteMissions, ghosts
  <1>6. UNCHANGED serving \/ \E w : serving' = [serving EXCEPT ![x] = w]
    OBVIOUS
  <1>7. UNCHANGED th \/ \E r : Goes(x, r)
    OBVIOUS
  <1>8. DataSame(c)
    BY <1>1, <1>2, <1>3, <1>4, <1>5 DEF DataSame, TypeInv, ListenerType, TaskType
  <1>9. DeathsSame(c)
    BY <1>1 DEF DeathsSame
  <1>10. ThreadsSame(c)
    BY <1>6, <1>7 DEF ThreadsSame, Goes, TypeInv, ThreadType
  <1>11. QED
    BY <1>1, <1>8, <1>9, <1>10 DEF Same

LEMMA AppElsewhere ==
    ASSUME TypeInv, NEW a \in Apps, AppStep(a) \/ Call(a) \/ AppDies(a),
           NEW c \in Clients, c # ClientOf[a]
    PROVE  Same(c) /\ UNCHANGED <<up, overlap>>
  <1> USE DEF AppStep, Call, AppDies, RegisterMissionListener, SetsCalled, OnMissionListenerDied,
              RegistersListener, UnRegisterMissionListener, StartSyncRemoteMissions,
              StopSyncRemoteMissions
  <1>1. UNCHANGED <<remoteDms, dmsDied, retries, up, overlap, syncSet, serving, link, clientEvents, serverEvents>>
    BY DEF clientVars, serverVars, taskVars, envVars, linkVars
  <1>2. UNCHANGED called \/ \E r : called' = [called EXCEPT ![ClientOf[a]] = r]
    BY DEF EraseListener, clientVars
  <1>3. UNCHANGED loose \/ loose' = loose \cup {ClientOf[a]} \/ loose' = loose \ {ClientOf[a]}
    BY DEF ghosts
  <1>4. UNCHANGED died \/ died' = died \cup {a} \/ died' = died \ {a}
    BY DEF taskVars
  <1>5. UNCHANGED alive \/ alive' = alive \ {a}
    BY DEF envVars
  <1>6. UNCHANGED th \/ (\E r : Goes(a, r)) \/ \E r : Goes(ClientOf[a], r)
    OBVIOUS
  <1>7. DataSame(c)
    BY <1>1, <1>2, <1>3 DEF DataSame, TypeInv, FlagType
  <1>8. DeathsSame(c)
    BY <1>4, <1>5 DEF DeathsSame
  <1>9. ThreadsSame(c)
    BY <1>1, <1>6, Homes DEF ThreadsSame, Goes, TypeInv, ThreadType
  <1>10. QED
    BY <1>1, <1>7, <1>8, <1>9 DEF Same

LEMMA ClientElsewhere ==
    ASSUME TypeInv, NEW e \in Clients, HandlerStep(e) \/ DeviceStep(e) \/ LinkDown(e) \/ LinkUp(e),
           NEW c \in Clients, c # e
    PROVE  Same(c) /\ UNCHANGED <<up, overlap>>
  <1> USE DEF HandlerStep, DeviceStep, RetryFunc, OnRemoteDmsDied, NotifyMissionsChangedFromRemote,
              ClientNotified, ServerNotified, LinkDown, LinkUp
  <1>1. UNCHANGED <<died, up, overlap, alive, serving>>
    BY DEF serverVars, taskVars, envVars
  <1>2. UNCHANGED called \/ called' = [called EXCEPT ![e] = FALSE]
    BY DEF clientVars
  <1>3. UNCHANGED remoteDms \/ remoteDms' = [remoteDms EXCEPT ![e] = "none"]
    BY DEF clientVars
  <1>4. UNCHANGED retries \/ \E r : retries' = [retries EXCEPT ![e] = r]
    BY DEF taskVars
  <1>5. UNCHANGED syncSet \/ syncSet' = syncSet \ {e}
    BY DEF Withdraws, serverVars
  <1>6. UNCHANGED loose \/ loose' = loose \ {e}
    BY DEF ghosts
  <1>7. UNCHANGED dmsDied \/ dmsDied' = dmsDied \ {e}
    BY DEF taskVars
  <1>8. UNCHANGED link \/ \E r : link' = [link EXCEPT ![e] = r]
    BY DEF envVars, linkVars
  <1>9. UNCHANGED clientEvents \/ \E r : clientEvents' = [clientEvents EXCEPT ![e] = r]
    BY DEF envVars, linkVars, LinkChange
  <1>10. UNCHANGED serverEvents \/ \E r : serverEvents' = [serverEvents EXCEPT ![e] = r]
    BY DEF envVars, linkVars, LinkChange
  <1>11. UNCHANGED th \/ \E r : Goes(e, r)
    OBVIOUS
  <1>12. called'[c] = called[c] /\ remoteDms'[c] = remoteDms[c] /\ retries'[c] = retries[c]
    BY <1>2, <1>3, <1>4 DEF TypeInv, ListenerType, TaskType, FlagType
  <1>13. link'[c] = link[c] /\ clientEvents'[c] = clientEvents[c] /\ serverEvents'[c] = serverEvents[c]
    BY <1>8, <1>9, <1>10 DEF TypeInv, LinkType, FlagType
  <1>14. DataSame(c)
    BY <1>5, <1>6, <1>7, <1>12, <1>13 DEF DataSame
  <1>15. DeathsSame(c)
    BY <1>1 DEF DeathsSame
  <1>16. ThreadsSame(c)
    BY <1>1, <1>11, Homes DEF ThreadsSame, Goes, TypeInv, ThreadType
  <1>17. QED
    BY <1>1, <1>14, <1>15, <1>16 DEF Same

(* When calls and failures wait, nothing is under way as one begins. *)
LEMMA MayBegin ==
    ASSUME overlap = {}, MayCall \/ MayFail
    PROVE  /\ \A x \in Threads : th[x].pc = "idle" /\ serving[x] = "idle" /\ ~Busy(x)
           /\ \A c \in Clients : NoEvents(c)
           /\ died = {} /\ dmsDied = {}
  <1>1. Settled
    BY DEF MayCall, MayFail
  <1>2. QED
    BY <1>1 DEF Settled, NoEvents, Busy

(* A call of an application begins: its thread goes to a place of its own. *)
LEMMA CallBegins ==
    ASSUME TypeInv, TypeInv', EndsInv, NEW a \in Apps, NEW c, c = ClientOf[a],
           MayCall, a \in alive, NEW place \in {"toRegister", "toStop", "getDms"},
           Goes(a, At(place)), place = "getDms" => ~called[c],
           DataSame(c), DeathsSame(c), UNCHANGED <<serving, up>>
    PROVE  EndOf(c)'
  <1>1. c \in Clients /\ c \in Threads /\ c # a /\ a \in Threads /\ Home(a) = c /\ Home(c) = c
    BY Homes
  <1>2. EndOf(c) /\ overlap = {}
    BY <1>1 DEF EndsInv
  <1>3. /\ \A x \in Threads : th[x].pc = "idle" /\ serving[x] = "idle"
        /\ NoEvents(c) /\ died = {} /\ dmsDied = {}
    BY <1>1, <1>2, MayBegin
  <1>4. \A y \in Threads : th'[y].pc = IF y = a THEN place ELSE "idle"
    BY <1>1, <1>3, GoesTo, PcOf
  <1>5. \A y \in Threads : Busy(y)' => y = a
    BY <1>4 DEF Busy
  <1>6. \A b \in died' : ClientOf[b] # c
    BY <1>3 DEF DeathsSame, TypeInv, TaskType
  <1>7. NoEvents(c)' /\ c \notin dmsDied'
    BY <1>3 DEF DataSame, NoEvents
  <1>8. Apart(c)'
    BY <1>5, <1>6, <1>7 DEF Apart
  <1>9. LinkKnown(c)'
    BY <1>2 DEF EndOf, LinkKnown, DataSame
  <1>10. StartKnown(c)'
    <2>1. \A x \in Threads : serving'[x] = "idle" /\ th'[x].pc \notin {"calling", "replied", "toCall"}
      BY <1>3, <1>4
    <2>2. th'[c].pc = "idle"
      BY <1>1, <1>4
    <2>3. \A b \in Apps : th'[b].pc # "idle" => b = a /\ b \in alive'
      BY <1>4, <1>1, Homes DEF DeathsSame
    <2>4. th'[a].pc = "getDms" => ~called'[c]
      BY <1>1, <1>4 DEF DataSame
    <2>5. QED
      BY <2>1, <2>2, <2>3, <2>4, Homes DEF StartKnown
  <1>11. Ends(c)'
    <2>1. \A b \in Apps : ~Started(b) /\ ~Started(b)'
      BY <1>3, <1>4, Homes DEF Started
    <2>2. Restarts(c) => Restarts(c)'
      BY <1>1, <1>3 DEF Restarts, DataSame
    <2>3. th[c].pc = "idle"
      BY <1>1, <1>3
    <2>4. QED
      BY <1>2, <2>1, <2>2, <2>3 DEF EndOf, Ends, DataSame
  <1>12. QED
    BY <1>8, <1>9, <1>10, <1>11 DEF EndOf

LEMMA CallsEnd ==
    ASSUME TypeInv, TypeInv', EndsInv, NEW a \in Apps, NEW c, c = ClientOf[a], Call(a)
    PROVE  EndOf(c)'
  <1>1. c \in Clients /\ c \in Threads /\ c # a /\ a \in Threads /\ Home(a) = c /\ Home(c) = c
    BY Homes
  <1>2. CASE RegistersListener(a)
    <2>1. DataSame(c) /\ DeathsSame(c)
      BY <1>2 DEF RegistersListener, DataSame, DeathsSame, clientVars, taskVars, serverVars, envVars, linkVars, ghosts
    <2>2. QED
      BY <1>2, <2>1, CallBegins DEF RegistersListener, serverVars
  <1>3. CASE StopSyncRemoteMissions(a)
    <2>1. DataSame(c) /\ DeathsSame(c)
      BY <1>3 DEF StopSyncRemoteMissions, DataSame, DeathsSame, taskVars, serverVars, envVars, linkVars, ghosts
    <2>2. QED
      BY <1>3, <2>1, CallBegins DEF StopSyncRemoteMissions, serverVars
  <1>4. CASE StartSyncRemoteMissions(a)
    <2>1. DataSame(c) /\ DeathsSame(c)
      BY <1>4 DEF StartSyncRemoteMissions, DataSame, DeathsSame, clientVars, taskVars, serverVars, envVars, linkVars, ghosts
    <2>2. QED
      BY <1>4, <2>1, CallBegins DEF StartSyncRemoteMissions, serverVars
  <1>5. CASE UnRegisterMissionListener(a)
    <2>1. EndOf(c) /\ overlap = {} /\ MayCall
      BY <1>1, <1>5 DEF EndsInv, UnRegisterMissionListener
    <2>2. /\ \A x \in Threads : th[x].pc = "idle" /\ serving[x] = "idle"
          /\ NoEvents(c) /\ died = {} /\ dmsDied = {}
      BY <1>1, <2>1, MayBegin
    <2>3. UNCHANGED <<remoteDms, taskVars, th, serverVars, serving, envVars>>
      BY <1>5 DEF UnRegisterMissionListener
    <2>4. /\ called'[c] = (called[c] /\ Without(c, a) # {})
          /\ loose' = IF called[c] /\ listenerSet[c] = {a} THEN loose \cup {c} ELSE loose
      BY <1>1, <1>5 DEF UnRegisterMissionListener, EraseListener, TypeInv, FlagType
    <2>5. called[c] /\ ~called'[c] => c \in loose'
      BY <1>1, <1>5, <2>4 DEF UnRegisterMissionListener, Without
    <2>6. \A y \in Threads : ~Busy(y)'
      BY <2>2, <2>3 DEF Busy
    <2>7. Apart(c)'
      BY <2>2, <2>3, <2>6 DEF Apart, taskVars
    <2>8. LinkKnown(c)'
      BY <2>1, <2>2, <2>3 DEF EndOf, LinkKnown, taskVars, serverVars, envVars, linkVars, NoEvents, Offline
    <2>9. StartKnown(c)'
      BY <1>1, <2>2, <2>3, Homes DEF StartKnown
    <2>10. \A b \in Apps : ~Started(b) /\ ~Started(b)'
      BY <2>2, <2>3, Homes DEF Started
    <2>11. Restarts(c)' <=> Restarts(c)
      BY <2>3 DEF Restarts, taskVars, envVars, linkVars
    <2>12. c \in loose => c \in loose'
      BY <2>4
    <2>13. c \in syncSet' <=> c \in syncSet
      BY <2>3 DEF serverVars
    <2>14. serverEvents[c] # Offline /\ th[c].pc # "toStop"
      BY <1>1, <2>2 DEF NoEvents, Offline
    <2>15. called'[c] => called[c]
      BY <2>4
    <2>16. Ends(c)'
      BY <2>1, <2>5, <2>10, <2>11, <2>12, <2>13, <2>14, <2>15 DEF EndOf, Ends
    <2>17. QED
      BY <2>7, <2>8, <2>9, <2>16 DEF EndOf
  <1>6. QED
    BY <1>2, <1>3, <1>4, <1>5 DEF Call

(* The steps of a call: what the listener, the answer and the flag of the entry become. *)
LEMMA AppStepsEnd ==
    ASSUME TypeInv, TypeInv', EndsInv, NEW a \in Apps, NEW c, c = ClientOf[a],
           RegisterMissionListener(a) \/ SetsCalled(a) \/ AppDies(a)
    PROVE  EndOf(c)'
  <1>1. c \in Clients /\ c \in Threads /\ c # a /\ a \in Threads /\ Home(a) = c /\ Home(c) = c
    BY Homes
  <1>2. EndOf(c) /\ overlap = {}
    BY <1>1 DEF EndsInv
  <1>3. CASE RegisterMissionListener(a)
    <2>1. th[a].pc = "toRegister" /\ a \in alive /\ Busy(a)
      BY <1>1, <1>2, <1>3 DEF RegisterMissionListener, EndOf, StartKnown, Busy
    <2>2. UNCHANGED <<called, remoteDms, died, dmsDied, retries, serverVars, serving, envVars, ghosts>>
      BY <1>3, <2>1 DEF RegisterMissionListener
    <2>3. \A y \in Threads : th'[y].pc = IF y = a THEN "idle" ELSE th[y].pc
      BY <1>1, <1>3, GoesTo, PcOf DEF RegisterMissionListener
    <2>4. \A y \in Threads : Busy(y)' => Busy(y)
      BY <2>3 DEF Busy
    <2>5. Apart(c)'
      BY <1>2, <2>2, <2>4 DEF EndOf, Apart, NoEvents, envVars, linkVars
    <2>6. LinkKnown(c)'
      BY <1>2, <2>2 DEF EndOf, LinkKnown, serverVars, envVars, linkVars
    <2>7. StartKnown(c)'
      BY <1>1, <1>2, <2>1, <2>2, <2>3, Homes DEF EndOf, StartKnown, envVars, linkVars
    <2>8. \A b \in Apps : Started(b)' <=> Started(b)
      BY <2>1, <2>2, <2>3, Homes DEF Started
    <2>9. Restarts(c)' <=> Restarts(c)
      BY <1>1, <2>2, <2>3 DEF Restarts, envVars, linkVars
    <2>10. th'[c].pc = th[c].pc
      BY <1>1, <2>3
    <2>11. Ends(c)'
      BY <1>2, <2>2, <2>8, <2>9, <2>10 DEF EndOf, Ends, serverVars, envVars, linkVars, ghosts
    <2>12. QED
      BY <2>5, <2>6, <2>7, <2>11 DEF EndOf
  <1>4. CASE SetsCalled(a)
    <2>1. th[a].pc = "toCall" /\ ~called[c] /\ th[c].pc = "idle" /\ c \in syncSet /\ Busy(a) /\ serving[a] = "idle"
      BY <1>1, <1>2, <1>4 DEF SetsCalled, EndOf, StartKnown, Ends, Started, Busy
    <2>2. UNCHANGED <<remoteDms, taskVars, serverVars, serving, envVars>>
      BY <1>4 DEF SetsCalled
    <2>3. \A y \in Threads : th'[y].pc = IF y = a THEN "idle" ELSE th[y].pc
      BY <1>1, <1>4, GoesTo, PcOf DEF SetsCalled
    <2>4. \A y \in Threads : Busy(y)' => Busy(y)
      BY <2>3 DEF Busy
    <2>5. Apart(c)'
      BY <1>2, <2>2, <2>4 DEF EndOf, Apart, NoEvents, taskVars, envVars, linkVars
    <2>6. NoEvents(c) /\ \A y \in Threads : Home(y) = c /\ Busy(y) => y = a
      BY <1>1, <1>2, <2>1 DEF EndOf, Apart
    <2>7. LinkKnown(c)'
      BY <1>2, <2>2, <2>6 DEF EndOf, LinkKnown, taskVars, serverVars, envVars, linkVars, NoEvents, Offline
    <2>8. \A b \in Apps : ClientOf[b] = c => th'[b].pc = "idle"
      BY <2>3, <2>6, Homes DEF Busy
    <2>9. /\ \A x \in Threads : Home(x) = c =>
                /\ serving'[x] # "idle" <=> th'[x].pc = "calling"
                /\ th'[x].pc \in {"calling", "replied"} => link'[c] /\ remoteDms'[c] = "live"
          /\ th'[c].pc = "idle"
      BY <1>1, <1>2, <2>1, <2>2, <2>3 DEF EndOf, StartKnown, envVars, linkVars
    <2>10. StartKnown(c)'
      BY <2>8, <2>9 DEF StartKnown
    <2>11. \A b \in Apps : ClientOf[b] = c => ~Started(b)'
      BY <2>8, <2>9, Homes DEF Started
    <2>12. called'[c] = (listenerSet[c] # {}) /\ loose' = IF listenerSet[c] # {} THEN loose \ {c} ELSE loose \cup {c}
      BY <1>1, <1>4 DEF SetsCalled, TypeInv, FlagType
    <2>13. called'[c] \/ c \in loose'
      BY <2>12
    <2>14. c \in syncSet'
      BY <2>1, <2>2 DEF serverVars
    <2>15. Ends(c)'
      BY <2>11, <2>13, <2>14 DEF Ends
    <2>16. QED
      BY <2>5, <2>7, <2>10, <2>15 DEF EndOf
  <1>5. CASE AppDies(a)
    <2>1. /\ \A x \in Threads : th[x].pc = "idle" /\ serving[x] = "idle" /\ ~Busy(x)
          /\ NoEvents(c) /\ died = {} /\ dmsDied = {}
      BY <1>1, <1>2, <1>5, MayBegin DEF AppDies
    <2>2. UNCHANGED <<called, remoteDms, dmsDied, retries, th, serverVars, serving, link,
                      clientEvents, serverEvents, ghosts>>
      BY <1>5 DEF AppDies, clientVars, linkVars
    <2>3. died' \subseteq {a}
      BY <1>5, <2>1 DEF AppDies
    <2>4. \A y \in Threads : ~Busy(y)'
      BY <2>1, <2>2 DEF Busy
    <2>5. Apart(c)'
      BY <2>1, <2>2, <2>3, <2>4 DEF Apart, NoEvents
    <2>6. LinkKnown(c)'
      BY <1>2, <2>2 DEF EndOf, LinkKnown, serverVars
    <2>7. StartKnown(c)'
      BY <1>1, <2>1, <2>2, Homes DEF StartKnown
    <2>8. \A b \in Apps : Started(b)' <=> Started(b)
      BY <2>2 DEF Started
    <2>9. Restarts(c)' <=> Restarts(c)
      BY <2>2 DEF Restarts
    <2>10. Ends(c)'
      BY <1>2, <2>2, <2>8, <2>9 DEF EndOf, Ends, serverVars, ghosts
    <2>11. QED
      BY <2>5, <2>6, <2>7, <2>10 DEF EndOf
  <1>6. QED
    BY <1>3, <1>4, <1>5

(* The death of a listener: the handler erases it, and stops if the client synchronised. *)
LEMMA ListenerDiesEnd ==
    ASSUME TypeInv, TypeInv', EndsInv, NEW a \in Apps, NEW c, c = ClientOf[a],
           OnMissionListenerDied(a)
    PROVE  EndOf(c)'
  <1>1. c \in Clients /\ c \in Threads /\ c # a /\ a \in Threads /\ Home(a) = c /\ Home(c) = c
    BY Homes
  <1>2. EndOf(c)
    BY <1>1 DEF EndsInv
  <1>3. a \in died /\ th[c].pc = "idle" /\ serving[c] = "idle" /\ died' = died \ {a}
    BY DEF OnMissionListenerDied, Free
  <1>4. NoEvents(c) /\ c \notin dmsDied /\ (\A x \in Threads : Home(x) = c => ~Busy(x)) /\ \A b \in died' : ClientOf[b] # c
    BY <1>1, <1>2, <1>3 DEF EndOf, Apart, TypeInv, TaskType
  <1>5. UNCHANGED <<remoteDms, dmsDied, retries, serverVars, serving, envVars, ghosts>>
    BY DEF OnMissionListenerDied
  <1>6. \/ UNCHANGED th /\ called'[c] = called[c]
        \/ called[c] /\ ~called'[c] /\ Goes(c, At("toStop"))
    <2>1. CASE a \notin listenerSet[c]
      BY <2>1 DEF OnMissionListenerDied
    <2>2. CASE a \in listenerSet[c]
      <3>1. called'[c] = (called[c] /\ listenerSet[c] \ {a} # {})
        BY <1>1, <2>2 DEF OnMissionListenerDied, EraseListener, Without, TypeInv, FlagType
      <3>2. IF called[c] /\ listenerSet[c] \ {a} = {} THEN Goes(c, At("toStop")) ELSE UNCHANGED th
        BY <2>2 DEF OnMissionListenerDied, StopsAfter
      <3>3. called[c] \in BOOLEAN /\ called'[c] \in BOOLEAN
        BY <1>1 DEF TypeInv, FlagType
      <3>4. QED
        BY <3>1, <3>2, <3>3
    <2>3. QED
      BY <2>1, <2>2
  <1>7. \A y \in Threads : th'[y].pc = th[y].pc \/ (y = c /\ th'[y].pc = "toStop")
    BY <1>1, <1>6, GoesTo, PcOf
  <1>8. th'[c].pc \in {"idle", "toStop"} /\ (th'[c].pc = "toStop" => called[c] /\ ~called'[c])
    BY <1>1, <1>3, <1>6, GoesTo, PcOf
  <1>9. \A x \in Threads : Home(x) = c /\ Busy(x)' => x = c
    BY <1>4, <1>7 DEF Busy
  <1>10. Apart(c)'
    BY <1>4, <1>5, <1>9 DEF Apart, NoEvents, envVars, linkVars
  <1>11. LinkKnown(c)'
    BY <1>2, <1>4, <1>5 DEF EndOf, LinkKnown, serverVars, envVars, linkVars, NoEvents, Offline
  <1>12. \A b \in Apps : ClientOf[b] = c => th'[b].pc = "idle" /\ serving'[b] = "idle"
    <2>1. \A b \in Apps : ClientOf[b] = c => th[b].pc = "idle" /\ serving[b] = "idle"
      BY <1>2, <1>4, Homes DEF Busy, EndOf, StartKnown
    <2>2. QED
      BY <1>1, <1>5, <1>7, <2>1, Homes
  <1>13. StartKnown(c)'
    <2>1. \A x \in Threads : Home(x) = c => serving'[x] = "idle" /\ th'[x].pc \in {"idle", "toStop"}
      BY <1>3, <1>5, <1>8, <1>12, Homes
    <2>2. QED
      BY <1>8, <1>12, <2>1 DEF StartKnown
  <1>14. \A b \in Apps : ClientOf[b] = c => ~Started(b)'
    BY <1>12 DEF Started
  <1>15. Restarts(c) => Restarts(c)'
    BY <1>3, <1>5 DEF Restarts, envVars, linkVars
  <1>16. called'[c] => called[c]
    BY <1>6
  <1>17. called[c] /\ ~called'[c] => th'[c].pc = "toStop"
    BY <1>1, <1>6, GoesTo, PcOf
  <1>18. \A b \in Apps : ClientOf[b] = c => ~Started(b)
    BY <1>2, <1>4, Homes DEF Busy, EndOf, StartKnown, Started
  <1>19. serverEvents[c] # Offline
    BY <1>4 DEF NoEvents, Offline
  <1>20. Ends(c)'
    BY <1>2, <1>3, <1>5, <1>14, <1>15, <1>16, <1>17, <1>18, <1>19 DEF EndOf, Ends, serverVars, ghosts
  <1>21. QED
    BY <1>10, <1>11, <1>13, <1>20 DEF EndOf

(* A start, by an application or by the handler for a retry. *)
LEMMA CallsStartEnds ==
    ASSUME TypeInv, TypeInv', EndsInv, NEW x \in Threads, NEW c, c = Home(x), CallsStart(x)
    PROVE  EndOf(c)'
  <1>1. c \in Clients /\ c \in Threads /\ Home(c) = c /\ c \notin Apps /\ (x \in Apps => ClientOf[x] = c)
    BY Homes
  <1>2. EndOf(c)
    BY <1>1 DEF EndsInv
  <1>3. th[x].pc = "getDms" /\ serving[x] = "idle"
    BY <1>2 DEF CallsStart, EndOf, StartKnown
  <1>4. UNCHANGED <<called, died, dmsDied, serverVars, envVars>>
    BY DEF CallsStart
  <1>5. /\ remoteDms'[c] = IF remoteDms[c] = "none" /\ Reaches(c) THEN "live" ELSE remoteDms[c]
        /\ remoteDms[c] \in {"none", "live", "dead"}
    BY <1>1 DEF CallsStart, KeepsDms, TypeInv, ListenerType
  <1>6. /\ \A y \in Threads : th'[y].pc = IF y = x THEN IF Usable(c) THEN "calling" ELSE "idle" ELSE th[y].pc
        /\ \A y \in Threads : serving'[y] = IF y = x /\ Usable(c) THEN "called" ELSE serving[y]
    <2>1. CASE Usable(c)
      BY <2>1, GoesTo, PcOf DEF CallsStart, TypeInv, ThreadType
    <2>2. CASE ~Usable(c)
      BY <1>3, <2>2, GoesTo, PcOf DEF CallsStart, TypeInv, ThreadType
    <2>3. QED
      BY <2>1, <2>2
  <1>7. \A y \in Threads : Busy(y)' => Busy(y)
    BY <1>3, <1>6 DEF Busy
  <1>8. Apart(c)'
    BY <1>2, <1>4, <1>7 DEF EndOf, Apart, NoEvents, envVars, linkVars
  <1>9. LinkKnown(c)'
    <2>1. remoteDms'[c] = "dead" <=> remoteDms[c] = "dead"
      BY <1>5
    <2>2. remoteDms'[c] = "live" => remoteDms[c] = "live" \/ (up /\ link[c])
      BY <1>5 DEF Reaches
    <2>3. remoteDms[c] = "live" => remoteDms'[c] = "live"
      BY <1>5
    <2>4. QED
      BY <1>2, <1>4, <2>1, <2>2, <2>3 DEF EndOf, LinkKnown, serverVars, envVars, linkVars
  <1>10. StartKnown(c)'
    <2>1. Usable(c) => link'[c] /\ remoteDms'[c] = "live"
      BY <1>4, <1>5 DEF Usable, Reaches, envVars, linkVars
    <2>2. \A y \in Threads : Home(y) = c =>
              /\ serving'[y] # "idle" <=> th'[y].pc = "calling"
              /\ th'[y].pc \in {"calling", "replied"} => link'[c] /\ remoteDms'[c] = "live"
      BY <1>2, <1>3, <1>4, <1>5, <1>6, <2>1 DEF EndOf, StartKnown, envVars, linkVars
    <2>3. Usable(c) => link[c]
      BY DEF Usable, Reaches
    <2>4. \A b \in Apps : ClientOf[b] = c => (th'[b].pc # "idle" => b \in alive)
                           /\ (th'[b].pc \in {"getDms", "calling", "replied", "toCall"} => ~called[c] /\ th[c].pc = "idle")
      BY <1>2, <1>3, <1>6, Homes DEF EndOf, StartKnown
    <2>5. \A b \in Apps : ClientOf[b] = c /\ th'[b].pc \in {"getDms", "calling", "replied", "toCall"} => th'[c].pc = "idle"
      BY <1>1, <1>3, <1>6, <2>4
    <2>6. /\ th'[c].pc \in {"calling", "replied"} => called[c]
          /\ th'[c].pc = "getDms" => called[c] \/ ~link[c]
          /\ th'[c].pc = "toStop" => ~called[c]
          /\ th'[c].pc \notin {"toRegister", "toCall"}
      BY <1>1, <1>2, <1>3, <1>6, <2>3 DEF EndOf, StartKnown
    <2>7. QED
      BY <1>4, <2>2, <2>4, <2>5, <2>6 DEF StartKnown, envVars, linkVars
  <1>11. loose \subseteq loose' /\ retries[c] \subseteq retries'[c]
    BY <1>1 DEF CallsStart, RetryStartSyncRemoteMissions, TypeInv, TaskType
  <1>12. \A b \in Apps : Started(b)' <=> Started(b)
    BY <1>3, <1>6, Homes DEF Started
  <1>13. x = c /\ called[c] => Usable(c) \/ c \in loose' \/ retries'[c] # {} \/ clientEvents[c] = Offline \/ c \in dmsDied
    <2>1. CASE ~HasDms(c)
      BY <1>1, <2>1 DEF CallsStart, RetryStartSyncRemoteMissions, TypeInv, TaskType
    <2>2. CASE HasDms(c) /\ ~Usable(c)
      <3>1. remoteDms[c] = "dead" \/ (remoteDms[c] = "live" /\ ~Reaches(c))
        BY <1>5, <2>2 DEF HasDms, Usable
      <3>2. QED
        BY <1>2, <3>1 DEF EndOf, LinkKnown, Reaches
    <2>3. QED
      BY <2>1, <2>2
  <1>14. called[c] /\ Restarts(c) => Restarts(c)' \/ c \in loose'
    <2>1. CASE x = c
      BY <1>1, <1>4, <1>6, <1>13, <2>1 DEF Restarts, envVars, linkVars
    <2>2. CASE x # c
      BY <1>1, <1>4, <1>6, <1>11, <2>2 DEF Restarts, envVars, linkVars
    <2>3. QED
      BY <2>1, <2>2
  <1>15. th[c].pc = "toStop" => th'[c].pc = "toStop"
    BY <1>1, <1>3, <1>6
  <1>16. Ends(c)'
    BY <1>2, <1>4, <1>11, <1>12, <1>14, <1>15 DEF EndOf, Ends, serverVars, envVars, linkVars
  <1>17. QED
    BY <1>8, <1>9, <1>10, <1>16 DEF EndOf

(* The server notes the client. *)
LEMMA AddsSyncDeviceEnds ==
    ASSUME TypeInv, TypeInv', EndsInv, NEW x \in Threads, NEW c, c = Home(x), AddsSyncDevice(x)
    PROVE  EndOf(c)'
  <1>1. c \in Clients /\ c \in Threads /\ Home(c) = c /\ c \notin Apps /\ (x \in Apps => ClientOf[x] = c) /\ (x \in Apps \/ x = c)
    BY Homes
  <1>2. EndOf(c)
    BY <1>1 DEF EndsInv
  <1>3. UNCHANGED <<called, remoteDms, taskVars, th, up, envVars, ghosts>> /\ serving[x] = "called"
    BY DEF AddsSyncDevice, clientVars
  <1>4. th[x].pc = "calling" /\ link[c] /\ remoteDms[c] = "live"
    BY <1>2, <1>3 DEF EndOf, StartKnown
  <1>5. syncSet' = syncSet \cup {c}
    BY DEF AddsSyncDevice
  <1>6. \A y \in Threads : serving'[y] = IF y = x THEN "added" ELSE serving[y]
    BY DEF AddsSyncDevice, TypeInv, ThreadType
  <1>7. Apart(c)'
    BY <1>2, <1>3 DEF EndOf, Apart, NoEvents, Busy, taskVars, envVars, linkVars
  <1>8. LinkKnown(c)'
    <2>1. clientEvents[c] # Offline
      BY <1>2, <1>4 DEF EndOf, LinkKnown, Online, Offline
    <2>2. QED
      BY <1>2, <1>3, <1>4, <2>1 DEF EndOf, LinkKnown, taskVars, envVars, linkVars
  <1>9. StartKnown(c)'
    BY <1>2, <1>3, <1>4, <1>6 DEF EndOf, StartKnown, taskVars, envVars, linkVars
  <1>10. c \in syncSet'
    BY <1>5
  <1>11. x = c => called[c]
    BY <1>2, <1>4 DEF EndOf, StartKnown
  <1>12. x \in Apps => Started(x)'
    BY <1>1, <1>6 DEF Started
  <1>13. Ends(c)'
    BY <1>1, <1>3, <1>10, <1>11, <1>12 DEF Ends
  <1>14. QED
    BY <1>7, <1>8, <1>9, <1>13 DEF EndOf

(* The answer, or its failure, which leaves the client noted. *)
LEMMA AnswersStartEnds ==
    ASSUME TypeInv, TypeInv', EndsInv, NEW x \in Threads, NEW c, c = Home(x), AnswersStart(x)
    PROVE  EndOf(c)'
  <1>1. c \in Clients /\ c \in Threads /\ Home(c) = c /\ c \notin Apps /\ (x \in Apps => ClientOf[x] = c) /\ (x \in Apps \/ x = c)
    BY Homes
  <1>2. EndOf(c)
    BY <1>1 DEF EndsInv
  <1>3. UNCHANGED <<called, remoteDms, taskVars, up, syncSet, envVars>> /\ serving[x] = "added"
    BY DEF AnswersStart, clientVars
  <1>4. th[x].pc = "calling" /\ link[c] /\ remoteDms[c] = "live"
    BY <1>2, <1>3 DEF EndOf, StartKnown
  <1>5. \/ (\A y \in Threads : th'[y].pc = IF y = x THEN "replied" ELSE th[y].pc) /\ UNCHANGED loose
        \/ (\A y \in Threads : th'[y].pc = IF y = x THEN "idle" ELSE th[y].pc) /\ loose' = loose \cup {c}
    <2>1. PICK ok \in {TRUE, ~AmsFails} :
             /\ Goes(x, IF ok /\ th[x].pc = "calling" THEN [At("replied") EXCEPT !.infos = missions] ELSE Idle)
             /\ loose' = IF ok THEN loose ELSE loose \cup {c}
      BY DEF AnswersStart
    <2>2. CASE ok
      <3>1. Goes(x, [At("replied") EXCEPT !.infos = missions]) /\ loose' = loose
        BY <1>4, <2>1, <2>2
      <3>2. PICK r : r = [At("replied") EXCEPT !.infos = missions]
        OBVIOUS
      <3>3. Goes(x, r) /\ r.pc = "replied"
        BY <3>1, <3>2, PcOf
      <3>4. QED
        BY <3>1, <3>3, GoesTo
    <2>3. CASE ~ok
      BY <2>1, <2>3, GoesTo, PcOf
    <2>4. QED
      BY <2>2, <2>3
  <1>6. \A y \in Threads : serving'[y] = IF y = x THEN "idle" ELSE serving[y]
    BY DEF AnswersStart, TypeInv, ThreadType
  <1>7. Apart(c)'
    <2>1. \A y \in Threads : Busy(y)' => Busy(y)
      BY <1>4, <1>5 DEF Busy
    <2>2. QED
      BY <1>2, <1>3, <2>1 DEF EndOf, Apart, NoEvents, taskVars, envVars, linkVars
  <1>8. LinkKnown(c)'
    BY <1>2, <1>3 DEF EndOf, LinkKnown, taskVars, envVars, linkVars
  <1>9. StartKnown(c)'
    <2>1. \A y \in Threads : Home(y) = c =>
              /\ serving'[y] # "idle" <=> th'[y].pc = "calling"
              /\ th'[y].pc \in {"calling", "replied"} => link[c] /\ remoteDms[c] = "live"
      BY <1>2, <1>4, <1>5, <1>6 DEF EndOf, StartKnown
    <2>2. \A b \in Apps : ClientOf[b] = c => (th'[b].pc # "idle" => b \in alive)
                           /\ (th'[b].pc \in {"getDms", "calling", "replied", "toCall"} => ~called[c] /\ th[c].pc = "idle")
      BY <1>2, <1>4, <1>5, Homes DEF EndOf, StartKnown
    <2>3. \A b \in Apps : ClientOf[b] = c /\ th'[b].pc \in {"getDms", "calling", "replied", "toCall"} => th'[c].pc = "idle"
      BY <1>1, <1>4, <1>5, <2>2
    <2>4. /\ th'[c].pc \in {"calling", "replied"} => called[c]
          /\ th'[c].pc = "getDms" => called[c] \/ ~link[c]
          /\ th'[c].pc = "toStop" => ~called[c]
          /\ th'[c].pc \notin {"toRegister", "toCall"}
      BY <1>1, <1>2, <1>4, <1>5 DEF EndOf, StartKnown
    <2>5. QED
      BY <1>3, <2>1, <2>2, <2>3, <2>4 DEF StartKnown, envVars, linkVars
  <1>10. \A b \in Apps : (Started(b)' => Started(b)) /\ (Started(b) => Started(b)' \/ c \in loose')
    BY <1>3, <1>5, <1>6, Homes DEF Started
  <1>11. Restarts(c) => Restarts(c)'
    BY <1>1, <1>3, <1>4, <1>5, <1>6 DEF Restarts, taskVars, envVars, linkVars
  <1>12. th[c].pc = "toStop" => th'[c].pc = "toStop"
    BY <1>1, <1>4, <1>5
  <1>13. loose \subseteq loose'
    BY <1>5
  <1>14. Ends(c)'
    BY <1>2, <1>3, <1>10, <1>11, <1>12, <1>13 DEF EndOf, Ends, envVars, linkVars
  <1>15. QED
    BY <1>7, <1>8, <1>9, <1>14 DEF EndOf

(* The answer is kept. *)
LEMMA RebornEnds ==
    ASSUME TypeInv, TypeInv', EndsInv, NEW x \in Threads, NEW c, c = Home(x), RebornMissionCache(x)
    PROVE  EndOf(c)'
  <1>1. c \in Clients /\ c \in Threads /\ Home(c) = c /\ c \notin Apps /\ (x \in Apps => ClientOf[x] = c) /\ (x \in Apps \/ x = c)
    BY Homes
  <1>2. EndOf(c)
    BY <1>1 DEF EndsInv
  <1>3. UNCHANGED <<called, remoteDms, taskVars, up, syncSet, serving, envVars, loose>> /\ th[x].pc = "replied"
    BY DEF RebornMissionCache, serverVars
  <1>4. \A y \in Threads : th'[y].pc = IF y = x THEN IF x \in Apps THEN "toCall" ELSE "idle" ELSE th[y].pc
    <2>1. CASE x \in Apps
      BY <2>1, GoesTo, PcOf DEF RebornMissionCache
    <2>2. CASE x \notin Apps
      BY <2>2, GoesTo, PcOf DEF RebornMissionCache
    <2>3. QED
      BY <2>1, <2>2
  <1>5. Apart(c)'
    <2>1. \A y \in Threads : Busy(y)' => Busy(y)
      BY <1>3, <1>4 DEF Busy
    <2>2. QED
      BY <1>2, <1>3, <2>1 DEF EndOf, Apart, NoEvents, taskVars, envVars, linkVars
  <1>6. LinkKnown(c)'
    BY <1>2, <1>3 DEF EndOf, LinkKnown, taskVars, envVars, linkVars
  <1>7. StartKnown(c)'
    <2>1. \A y \in Threads : Home(y) = c =>
              /\ serving[y] # "idle" <=> th'[y].pc = "calling"
              /\ th'[y].pc \in {"calling", "replied"} => link[c] /\ remoteDms[c] = "live"
      BY <1>2, <1>3, <1>4 DEF EndOf, StartKnown
    <2>2. \A b \in Apps : ClientOf[b] = c => (th'[b].pc # "idle" => b \in alive)
                           /\ (th'[b].pc \in {"getDms", "calling", "replied", "toCall"} => ~called[c] /\ th[c].pc = "idle")
      BY <1>2, <1>3, <1>4, Homes DEF EndOf, StartKnown
    <2>3. \A b \in Apps : ClientOf[b] = c /\ th'[b].pc \in {"getDms", "calling", "replied", "toCall"} => th'[c].pc = "idle"
      BY <1>1, <1>3, <1>4, <2>2
    <2>4. /\ th'[c].pc \in {"calling", "replied"} => called[c]
          /\ th'[c].pc = "getDms" => called[c] \/ ~link[c]
          /\ th'[c].pc = "toStop" => ~called[c]
          /\ th'[c].pc \notin {"toRegister", "toCall"}
      BY <1>1, <1>2, <1>3, <1>4 DEF EndOf, StartKnown
    <2>5. QED
      BY <1>3, <2>1, <2>2, <2>3, <2>4 DEF StartKnown, envVars, linkVars
  <1>8. \A b \in Apps : Started(b)' <=> Started(b)
    BY <1>3, <1>4, Homes DEF Started
  <1>9. Restarts(c) => Restarts(c)'
    BY <1>1, <1>3, <1>4 DEF Restarts, taskVars, envVars, linkVars
  <1>10. th[c].pc = "toStop" => th'[c].pc = "toStop"
    BY <1>1, <1>3, <1>4
  <1>11. Ends(c)'
    BY <1>2, <1>3, <1>8, <1>9, <1>10 DEF EndOf, Ends, envVars, linkVars
  <1>12. QED
    BY <1>5, <1>6, <1>7, <1>11 DEF EndOf

(* The server is told that the client stops. *)
LEMMA StopsRemoteEnds ==
    ASSUME TypeInv, TypeInv', EndsInv, NEW x \in Threads, NEW c, c = Home(x), StopsRemote(x)
    PROVE  EndOf(c)'
  <1>1. c \in Clients /\ c \in Threads /\ Home(c) = c /\ c \notin Apps /\ (x \in Apps => ClientOf[x] = c) /\ (x \in Apps \/ x = c)
    BY Homes
  <1>2. EndOf(c)
    BY <1>1 DEF EndsInv
  <1>3. UNCHANGED <<called, taskVars, up, serving, envVars>> /\ th[x].pc = "toStop" /\ Busy(x)
    BY DEF StopsRemote, Busy
  <1>4. \A y \in Threads : th'[y].pc = IF y = x THEN "idle" ELSE th[y].pc
    BY GoesTo, PcOf DEF StopsRemote
  <1>5. /\ NoEvents(c) /\ c \notin dmsDied
        /\ \A y \in Threads : Home(y) = c /\ Busy(y) => y = x
    BY <1>1, <1>2, <1>3 DEF EndOf, Apart
  <1>6. \A b \in Apps : ClientOf[b] = c /\ b # x => th[b].pc = "idle"
    BY <1>5, Homes DEF Busy
  <1>7. \A b \in Apps : ClientOf[b] = c => th'[b].pc = "idle" /\ serving[b] = "idle" /\ ~Started(b) /\ ~Started(b)'
    BY <1>2, <1>3, <1>4, <1>6, Homes DEF EndOf, StartKnown, Started
  <1>8. th[c].pc = "toStop" => x = c
    BY <1>1, <1>5 DEF Busy
  <1>9. /\ remoteDms'[c] = IF remoteDms[c] = "none" /\ Reaches(c) THEN "live" ELSE remoteDms[c]
        /\ remoteDms[c] \in {"none", "live"}
    BY <1>1, <1>2, <1>5 DEF StopsRemote, KeepsDms, TypeInv, ListenerType, EndOf, LinkKnown
  <1>10. c \in syncSet => Usable(c)
    BY <1>2, <1>5 DEF EndOf, LinkKnown, Usable, Reaches, NoEvents, Offline
  <1>11. c \notin syncSet'
    BY <1>3, <1>10 DEF StopsRemote, Withdraws
  <1>12. called[c] \/ c \in syncSet => (called[c] => c \in loose')
    BY <1>3 DEF StopsRemote
  <1>13. Apart(c)'
    <2>1. \A y \in Threads : Busy(y)' => Busy(y)
      BY <1>3, <1>4 DEF Busy
    <2>2. QED
      BY <1>2, <1>3, <2>1 DEF EndOf, Apart, NoEvents, taskVars, envVars, linkVars
  <1>14. LinkKnown(c)'
    BY <1>2, <1>3, <1>5, <1>9, <1>11 DEF EndOf, LinkKnown, Reaches, NoEvents, Offline, taskVars, envVars, linkVars
  <1>15. StartKnown(c)'
    <2>1. remoteDms[c] = "live" => remoteDms'[c] = "live"
      BY <1>9
    <2>2. \A y \in Threads : Home(y) = c =>
              /\ serving[y] # "idle" <=> th'[y].pc = "calling"
              /\ th'[y].pc \in {"calling", "replied"} => link[c] /\ remoteDms'[c] = "live"
      BY <1>2, <1>3, <1>4, <2>1 DEF EndOf, StartKnown
    <2>3. /\ th'[c].pc \in {"calling", "replied"} => called[c]
          /\ th'[c].pc = "getDms" => called[c] \/ ~link[c]
          /\ th'[c].pc = "toStop" => ~called[c]
          /\ th'[c].pc \notin {"toRegister", "toCall"}
      BY <1>1, <1>2, <1>3, <1>4 DEF EndOf, StartKnown
    <2>4. QED
      BY <1>3, <1>7, <2>2, <2>3 DEF StartKnown, envVars, linkVars
  <1>16. called[c] => c \in loose'
    BY <1>12
  <1>17. Ends(c)'
    BY <1>3, <1>7, <1>11, <1>16 DEF Ends
  <1>18. QED
    BY <1>13, <1>14, <1>15, <1>17 DEF EndOf

LEMMA ThreadStepsEnd ==
    ASSUME TypeInv, TypeInv', EndsInv, NEW x \in Threads, NEW c, c = Home(x), ThreadStep(x)
    PROVE  EndOf(c)'
  <1>1. ~StartFails(x)
    <2>1. EndOf(c)
      BY Homes DEF EndsInv
    <2>2. QED
      BY <2>1 DEF StartFails, EndOf, StartKnown
  <1>2. QED
    BY <1>1, CallsStartEnds, AddsSyncDeviceEnds, AnswersStartEnds, RebornEnds, StopsRemoteEnds
       DEF ThreadStep

(* The handler of a client: a retry begins or is dropped; the death of the server is heard. *)
LEMMA RetryEnds ==
    ASSUME TypeInv, TypeInv', EndsInv, NEW c \in Clients, RetryFunc(c)
    PROVE  EndOf(c)'
  <1>1. c \in Threads /\ Home(c) = c /\ c \notin Apps
    BY Homes
  <1>2. EndOf(c)
    BY DEF EndsInv
  <1>3. UNCHANGED <<called, remoteDms, died, dmsDied, serverVars, serving, envVars, ghosts>> /\ th[c].pc = "idle"
    BY DEF RetryFunc, Free, clientVars
  <1>4. \/ called[c] /\ \A y \in Threads : th'[y].pc = IF y = c THEN "getDms" ELSE th[y].pc
        \/ ~called[c] /\ UNCHANGED th
    <2>1. PICK tries \in retries[c] :
             IF HasSyncListener(c) THEN Goes(c, [At("getDms") EXCEPT !.tries = tries]) ELSE UNCHANGED th
      BY DEF RetryFunc
    <2>2. PICK r : r = [At("getDms") EXCEPT !.tries = tries]
      OBVIOUS
    <2>3. r.pc = "getDms" /\ (called[c] => Goes(c, r)) /\ (~called[c] => UNCHANGED th)
      BY <2>1, <2>2, PcOf DEF HasSyncListener
    <2>4. QED
      BY <1>1, <2>3, GoesTo
  <1>5. Apart(c)'
    <2>1. \A y \in Threads : Busy(y)' => Busy(y)
      BY <1>1, <1>3, <1>4 DEF Busy
    <2>2. QED
      BY <1>2, <1>3, <2>1 DEF EndOf, Apart, NoEvents, envVars, linkVars
  <1>6. LinkKnown(c)'
    BY <1>2, <1>3 DEF EndOf, LinkKnown, serverVars, envVars, linkVars
  <1>7. \A b \in Apps : th'[b].pc = th[b].pc
    BY <1>1, <1>4, Homes
  <1>8. th'[c].pc = (IF called[c] THEN "getDms" ELSE "idle")
    BY <1>1, <1>3, <1>4
  <1>9. StartKnown(c)'
    <2>1. \A y \in Threads : Home(y) = c =>
              /\ serving[y] # "idle" <=> th'[y].pc = "calling"
              /\ th'[y].pc \in {"calling", "replied"} => link[c] /\ remoteDms[c] = "live"
      BY <1>2, <1>3, <1>4 DEF EndOf, StartKnown
    <2>2. \A b \in Apps : ClientOf[b] = c => (th'[b].pc # "idle" => b \in alive)
                           /\ (th'[b].pc \in {"getDms", "calling", "replied", "toCall"} => ~called[c] /\ th'[c].pc = "idle")
      BY <1>2, <1>7, <1>8 DEF EndOf, StartKnown
    <2>3. QED
      BY <1>3, <1>8, <2>1, <2>2 DEF StartKnown, envVars, linkVars
  <1>10. \A b \in Apps : Started(b)' <=> Started(b)
    BY <1>3, <1>7 DEF Started
  <1>11. called[c] => Restarts(c)'
    BY <1>8 DEF Restarts
  <1>12. Ends(c)'
    BY <1>2, <1>3, <1>10, <1>11 DEF EndOf, Ends, serverVars, envVars, linkVars, ghosts
  <1>13. QED
    BY <1>5, <1>6, <1>9, <1>12 DEF EndOf

LEMMA DmsDiedEnds ==
    ASSUME TypeInv, TypeInv', EndsInv, NEW c \in Clients, OnRemoteDmsDied(c)
    PROVE  EndOf(c)'
  <1>1. c \in Threads /\ Home(c) = c /\ c \notin Apps
    BY Homes
  <1>2. EndOf(c)
    BY DEF EndsInv
  <1>3. /\ UNCHANGED <<listenerSet, called, died, serverVars, serving, th, envVars, ghosts>>
        /\ th[c].pc = "idle" /\ c \in dmsDied /\ dmsDied' = dmsDied \ {c}
    BY DEF OnRemoteDmsDied, Free
  <1>4. remoteDms[c] = "dead"
    BY <1>2, <1>3 DEF EndOf, LinkKnown
  <1>5. remoteDms'[c] = "none" /\ (called[c] => retries'[c] # {})
    BY <1>4 DEF OnRemoteDmsDied, HasSyncListener, TypeInv, ListenerType, TaskType
  <1>6. NoEvents(c) /\ \A y \in Threads : Home(y) = c => ~Busy(y)
    BY <1>2, <1>3 DEF EndOf, Apart
  <1>7. Apart(c)'
    BY <1>2, <1>3 DEF EndOf, Apart, NoEvents, Busy, envVars, linkVars
  <1>8. LinkKnown(c)'
    BY <1>2, <1>3, <1>4, <1>5, <1>6 DEF EndOf, LinkKnown, NoEvents, Offline, serverVars, envVars, linkVars
  <1>9. StartKnown(c)'
    BY <1>2, <1>3, <1>4, Homes DEF EndOf, StartKnown, envVars, linkVars
  <1>10. \A b \in Apps : Started(b)' <=> Started(b)
    BY <1>3 DEF Started
  <1>11. called[c] => Restarts(c)'
    BY <1>5 DEF Restarts
  <1>12. Ends(c)'
    BY <1>2, <1>3, <1>10, <1>11 DEF EndOf, Ends, serverVars, envVars, linkVars, ghosts
  <1>13. QED
    BY <1>7, <1>8, <1>9, <1>12 DEF EndOf

(* Links: what is lost or found is due to be heard at both ends. *)
LEMMA LinkEnds ==
    ASSUME TypeInv, TypeInv', EndsInv, NEW c \in Clients, LinkDown(c) \/ LinkUp(c)
    PROVE  EndOf(c)'
  <1>1. EndOf(c) /\ overlap = {}
    BY DEF EndsInv
  <1>2. /\ \A x \in Threads : th[x].pc = "idle" /\ serving[x] = "idle" /\ ~Busy(x)
        /\ NoEvents(c) /\ died = {} /\ dmsDied = {}
    BY <1>1, MayBegin DEF LinkDown, LinkUp
  <1>3. UNCHANGED <<called, remoteDms, taskVars, th, up, syncSet, serving, alive, ghosts>>
    BY DEF LinkDown, LinkUp, clientVars, serverVars
  <1>4. \/ link[c] /\ ~link'[c] /\ clientEvents'[c] = Offline /\ serverEvents'[c] = Offline
        \/ ~link[c] /\ link'[c] /\ clientEvents'[c] = Online /\ serverEvents'[c] = Online
    <2>1. CASE LinkDown(c)
      <3>1. link[c] /\ ~link'[c]
        BY <2>1 DEF LinkDown, TypeInv, FlagType
      <3>2. clientEvents'[c] = Append(<< >>, "offline") /\ serverEvents'[c] = Append(<< >>, "offline")
        BY <1>2, <2>1 DEF LinkDown, LinkChange, NoEvents, TypeInv, LinkType
      <3>3. QED
        BY <3>1, <3>2 DEF Offline
    <2>2. CASE LinkUp(c)
      <3>1. ~link[c] /\ link'[c]
        BY <2>2 DEF LinkUp, TypeInv, FlagType
      <3>2. clientEvents'[c] = Append(<< >>, "online") /\ serverEvents'[c] = Append(<< >>, "online")
        BY <1>2, <2>2 DEF LinkUp, LinkChange, NoEvents, TypeInv, LinkType
      <3>3. QED
        BY <3>1, <3>2 DEF Online
    <2>3. QED
      BY <2>1, <2>2
  <1>5. Apart(c)'
    BY <1>2, <1>3 DEF Apart, Busy, taskVars
  <1>6. Online # Offline /\ Online # << >> /\ Offline # << >>
    BY DEF Online, Offline
  <1>7. LinkKnown(c)'
    <2>1. /\ remoteDms[c] = "dead" <=> c \in dmsDied
          /\ remoteDms[c] = "live" => up
          /\ remoteDms[c] = "live" => link[c]
          /\ c \in syncSet => remoteDms[c] = "live"
      BY <1>1, <1>2, <1>6 DEF EndOf, LinkKnown, NoEvents
    <2>2. CASE ~link'[c]
      BY <1>3, <1>4, <2>1, <2>2, <1>6 DEF LinkKnown, taskVars
    <2>3. CASE link'[c]
      BY <1>3, <1>4, <2>1, <2>3, <1>6 DEF LinkKnown, taskVars
    <2>4. QED
      BY <2>2, <2>3
  <1>8. StartKnown(c)'
    BY <1>2, <1>3, Homes DEF StartKnown
  <1>9. \A b \in Apps : ~Started(b) /\ ~Started(b)'
    BY <1>2, <1>3, Homes DEF Started
  <1>10. Restarts(c) => Restarts(c)'
    BY <1>2, <1>3, <1>6 DEF Restarts, NoEvents, taskVars
  <1>11. serverEvents[c] # Offline
    BY <1>2, <1>6 DEF NoEvents
  <1>12. Ends(c)'
    BY <1>1, <1>3, <1>9, <1>10, <1>11 DEF EndOf, Ends, ghosts
  <1>13. QED
    BY <1>5, <1>7, <1>8, <1>12 DEF EndOf

(* The client hears it: it forgets its listeners and the server. *)
LEMMA ClientNotifiedEnds ==
    ASSUME TypeInv, TypeInv', EndsInv, NEW c \in Clients, ClientNotified(c)
    PROVE  EndOf(c)'
  <1>1. EndOf(c)
    BY DEF EndsInv
  <1>2. /\ UNCHANGED <<taskVars, th, up, syncSet, serving, alive, link, serverEvents, ghosts>>
        /\ clientEvents[c] # << >> /\ clientEvents'[c] = Tail(clientEvents[c])
    BY DEF ClientNotified, serverVars, TypeInv, LinkType
  <1>3. Online # Offline /\ Online # << >> /\ Offline # << >> /\ Tail(Online) = << >> /\ Tail(Offline) = << >>
        /\ Head(Online) = "online" /\ Head(Offline) = "offline"
    BY DEF Online, Offline
  <1>4. clientEvents[c] = (IF link[c] THEN Online ELSE Offline) /\ clientEvents'[c] = << >>
    BY <1>1, <1>2, <1>3 DEF EndOf, LinkKnown
  <1>5. /\ \A y \in Threads : Home(y) = c => ~Busy(y)
        /\ c \notin dmsDied
    BY <1>1, <1>2 DEF EndOf, Apart, NoEvents
  <1>6. Apart(c)'
    BY <1>1, <1>2, <1>5 DEF EndOf, Apart, NoEvents, Busy, taskVars
  <1>7. \A b \in Apps : ClientOf[b] = c => th[b].pc = "idle" /\ serving[b] = "idle"
    BY <1>1, <1>5, Homes DEF Busy, EndOf, StartKnown
  <1>8. \A b \in Apps : ClientOf[b] = c => ~Started(b)'
    BY <1>2, <1>7 DEF Started
  <1>9. CASE link[c]
    <2>1. UNCHANGED <<called, remoteDms>>
      BY <1>3, <1>4, <1>9 DEF ClientNotified, clientVars
    <2>2. LinkKnown(c)'
      BY <1>1, <1>2, <1>3, <1>4, <1>9, <2>1 DEF EndOf, LinkKnown, taskVars
    <2>3. StartKnown(c)'
      BY <1>1, <1>2, <2>1 DEF EndOf, StartKnown
    <2>4. Restarts(c) => Restarts(c)'
      BY <1>2, <1>3, <1>4, <1>9 DEF Restarts, taskVars
    <2>5. \A b \in Apps : Started(b)' <=> Started(b)
      BY <1>2 DEF Started
    <2>6. Ends(c)'
      BY <1>1, <1>2, <2>1, <2>4, <2>5 DEF EndOf, Ends, ghosts
    <2>7. QED
      BY <1>6, <2>2, <2>3, <2>6 DEF EndOf
  <1>10. CASE ~link[c]
    <2>1. called'[c] = FALSE /\ remoteDms'[c] = "none"
      BY <1>3, <1>4, <1>10 DEF ClientNotified, TypeInv, FlagType, ListenerType
    <2>2. clientEvents[c] = Offline
      BY <1>4, <1>10
    <2>3. LinkKnown(c)'
      BY <1>1, <1>2, <1>3, <1>4, <1>5, <1>10, <2>1, <2>2 DEF EndOf, LinkKnown, taskVars
    <2>4. StartKnown(c)'
      BY <1>1, <1>2, <1>7, <1>10, <2>1, Homes DEF EndOf, StartKnown
    <2>5. c \in syncSet' => serverEvents'[c] = Offline
      BY <1>1, <1>2, <2>2 DEF EndOf, LinkKnown
    <2>6. Ends(c)'
      BY <1>8, <2>1, <2>5 DEF Ends
    <2>7. QED
      BY <1>6, <2>3, <2>4, <2>6 DEF EndOf
  <1>11. QED
    BY <1>9, <1>10

(* The server hears it, and forgets the client. *)
LEMMA ServerNotifiedEnds ==
    ASSUME TypeInv, TypeInv', EndsInv, NEW c \in Clients, ServerNotified(c)
    PROVE  EndOf(c)'
  <1>1. EndOf(c)
    BY DEF EndsInv
  <1>2. /\ UNCHANGED <<called, remoteDms, taskVars, th, up, serving, alive, link, clientEvents>>
        /\ serverEvents[c] # << >> /\ serverEvents'[c] = Tail(serverEvents[c])
    BY DEF ServerNotified, clientVars, TypeInv, LinkType
  <1>3. Online # Offline /\ Online # << >> /\ Offline # << >> /\ Tail(Online) = << >> /\ Tail(Offline) = << >>
        /\ Head(Online) = "online" /\ Head(Offline) = "offline"
    BY DEF Online, Offline
  <1>4. serverEvents[c] = (IF link[c] THEN Online ELSE Offline) /\ serverEvents'[c] = << >>
    BY <1>1, <1>2, <1>3 DEF EndOf, LinkKnown
  <1>5. /\ \A y \in Threads : Home(y) = c => ~Busy(y)
        /\ c \notin dmsDied
    BY <1>1, <1>2 DEF EndOf, Apart, NoEvents
  <1>6. Apart(c)'
    BY <1>1, <1>2, <1>5 DEF EndOf, Apart, NoEvents, Busy, taskVars
  <1>7. \A b \in Apps : ClientOf[b] = c => th[b].pc = "idle" /\ serving[b] = "idle"
    BY <1>1, <1>5, Homes DEF Busy, EndOf, StartKnown
  <1>8. \A b \in Apps : ClientOf[b] = c => ~Started(b) /\ ~Started(b)'
    BY <1>2, <1>7 DEF Started
  <1>9. StartKnown(c)'
    BY <1>1, <1>2 DEF EndOf, StartKnown
  <1>10. Restarts(c)' <=> Restarts(c)
    BY <1>2 DEF Restarts, taskVars
  <1>11. CASE link[c]
    <2>1. UNCHANGED <<syncSet, loose>>
      BY <1>3, <1>4, <1>11 DEF ServerNotified
    <2>2. LinkKnown(c)'
      BY <1>1, <1>2, <1>3, <1>4, <1>11, <2>1 DEF EndOf, LinkKnown, taskVars
    <2>3. Ends(c)'
      BY <1>1, <1>2, <1>3, <1>4, <1>8, <1>10, <1>11, <2>1 DEF EndOf, Ends
    <2>4. QED
      BY <1>6, <1>9, <2>2, <2>3 DEF EndOf
  <1>12. CASE ~link[c]
    <2>1. c \notin syncSet'
      BY <1>3, <1>4, <1>12 DEF ServerNotified, Withdraws
    <2>2. LinkKnown(c)'
      BY <1>1, <1>2, <1>3, <1>4, <1>12, <2>1 DEF EndOf, LinkKnown, taskVars
    <2>3. called[c] => Restarts(c)'
      BY <1>1, <1>2, <1>4, <1>12 DEF EndOf, LinkKnown, Restarts
    <2>4. Ends(c)'
      BY <1>2, <1>8, <2>1, <2>3 DEF Ends
    <2>5. QED
      BY <1>6, <1>9, <2>2, <2>4 DEF EndOf
  <1>13. QED
    BY <1>11, <1>12

(* The server fails: every client that it knew hears of it. *)
LEMMA ServerDiesEnds ==
    ASSUME TypeInv, TypeInv', EndsInv, ServerDies, NEW c \in Clients
    PROVE  EndOf(c)'
  <1>1. EndOf(c) /\ overlap = {}
    BY DEF EndsInv
  <1>2. /\ \A x \in Threads : th[x].pc = "idle" /\ serving[x] = "idle" /\ ~Busy(x)
        /\ NoEvents(c) /\ died = {} /\ dmsDied = {}
    BY <1>1, MayBegin DEF ServerDies
  <1>3. UNCHANGED <<called, died, retries, alive, link, clientEvents, serverEvents, ghosts>>
    BY DEF ServerDies, linkVars
  <1>4. \A x \in Threads : th'[x].pc = "idle" /\ serving'[x] = "idle"
    BY <1>2, PcOf DEF ServerDies
  <1>5. syncSet' = {}
    BY DEF ServerDies
  <1>6. /\ remoteDms'[c] = IF remoteDms[c] = "live" THEN "dead" ELSE remoteDms[c]
        /\ c \in dmsDied' <=> remoteDms[c] = "live"
    BY <1>2 DEF ServerDies
  <1>7. Apart(c)'
    BY <1>2, <1>3, <1>4 DEF Apart, Busy, NoEvents
  <1>8. LinkKnown(c)'
    BY <1>1, <1>2, <1>3, <1>5, <1>6 DEF EndOf, LinkKnown, NoEvents, Offline
  <1>9. StartKnown(c)'
    BY <1>4, Homes DEF StartKnown
  <1>10. \A b \in Apps : ~Started(b)'
    BY <1>4, Homes DEF Started
  <1>11. c \in syncSet => c \in dmsDied'
    BY <1>1, <1>2, <1>6 DEF EndOf, LinkKnown, NoEvents, Offline
  <1>12. Restarts(c) => Restarts(c)'
    BY <1>2, <1>3, Homes DEF Restarts
  <1>13. c \in dmsDied' => Restarts(c)'
    BY DEF Restarts
  <1>14. Ends(c)'
    BY <1>1, <1>3, <1>5, <1>10, <1>11, <1>12, <1>13 DEF EndOf, Ends, ghosts
  <1>15. QED
    BY <1>7, <1>8, <1>9, <1>14 DEF EndOf

(* It starts again, and knows of no client. *)
LEMMA ServerStartsEnds ==
    ASSUME TypeInv, TypeInv', EndsInv, ServerStarts, NEW c \in Clients
    PROVE  EndOf(c)'
  <1>1. EndOf(c) /\ syncSet = {} /\ \A x \in Threads : serving[x] = "idle"
    BY DEF EndsInv, ServerStarts
  <1>2. UNCHANGED <<called, remoteDms, taskVars, th, syncSet, serving, alive, link, clientEvents, ghosts>>
    BY DEF ServerStarts, clientVars
  <1>3. serverEvents'[c] = << >> /\ up'
    BY DEF ServerStarts
  <1>4. Apart(c)'
    BY <1>1, <1>2, <1>3 DEF EndOf, Apart, Busy, NoEvents, taskVars
  <1>5. LinkKnown(c)'
    BY <1>1, <1>2, <1>3 DEF EndOf, LinkKnown, Offline, taskVars
  <1>6. StartKnown(c)'
    BY <1>1, <1>2 DEF EndOf, StartKnown
  <1>7. \A b \in Apps : Started(b)' <=> Started(b)
    BY <1>2 DEF Started
  <1>8. Restarts(c)' <=> Restarts(c)
    BY <1>2 DEF Restarts, taskVars
  <1>9. Ends(c)'
    BY <1>1, <1>2, <1>7, <1>8 DEF EndOf, Ends, ghosts
  <1>10. QED
    BY <1>4, <1>5, <1>6, <1>9 DEF EndOf

(* All steps keep it. *)
LEMMA NextEnds ==
    ASSUME TypeInv, TypeInv', EndsInv, [Next]_vars
    PROVE  EndsInv'
  <1> DEFINE Down == ~up => syncSet = {} /\ \A x \in Threads : serving[x] = "idle"
  <1>1. overlap = {} /\ Down /\ \A c \in Clients : EndOf(c)
    BY DEF EndsInv
  <1>2. ASSUME UNCHANGED <<called, remoteDms, retries, died, dmsDied, th, serving, syncSet, link,
                           alive, clientEvents, serverEvents, overlap, loose, up>>
        PROVE  EndsInv'
    <2>1. \A c \in Clients : Same(c)
      BY <1>2 DEF Same, DataSame, DeathsSame, ThreadsSame
    <2>2. \A c \in Clients : EndOf(c)'
      BY <1>1, <1>2, <2>1, SameEnds
    <2>3. QED
      BY <1>1, <1>2, <2>2 DEF EndsInv
  <1>3. ASSUME NEW x \in Threads, ThreadStep(x)
        PROVE  EndsInv'
    <2>1. ASSUME NEW c \in Clients PROVE EndOf(c)'
      <3>1. CASE c = Home(x)
        BY <1>3, <3>1, ThreadStepsEnd
      <3>2. CASE c # Home(x)
        BY <1>1, <1>3, <3>2, ThreadElsewhere, SameEnds
      <3>3. QED
        BY <3>1, <3>2
    <2>2. UNCHANGED <<up, overlap>>
      BY <1>3 DEF ThreadStep, CallsStart, AddsSyncDevice, AnswersStart, StartFails,
                  RebornMissionCache, StopsRemote, serverVars, envVars
    <2>3. ~up => UNCHANGED <<syncSet, serving>>
      <3>1. ASSUME ~up PROVE \A y \in Threads : serving[y] = "idle"
        BY <1>1, <3>1
      <3>2. ~up => ~AddsSyncDevice(x) /\ ~AnswersStart(x)
        BY <3>1 DEF AddsSyncDevice, AnswersStart
      <3>3. ~up => ~Usable(Home(x))
        BY DEF Usable, Reaches
      <3>4. QED
        BY <1>3, <3>2, <3>3 DEF ThreadStep, CallsStart, StartFails, RebornMissionCache, StopsRemote, serverVars
    <2>4. QED
      BY <1>1, <2>1, <2>2, <2>3 DEF EndsInv
  <1>4. ASSUME NEW a \in Apps, AppStep(a) \/ Call(a) \/ AppDies(a)
        PROVE  EndsInv'
    <2>1. ASSUME NEW c \in Clients PROVE EndOf(c)'
      <3>1. CASE c = ClientOf[a]
        BY <1>4, <3>1, AppStepsEnd, ListenerDiesEnd, CallsEnd DEF AppStep
      <3>2. CASE c # ClientOf[a]
        BY <1>1, <1>4, <3>2, AppElsewhere, SameEnds
      <3>3. QED
        BY <3>1, <3>2
    <2>2. UNCHANGED <<up, overlap, syncSet, serving>>
      BY <1>4 DEF AppStep, Call, AppDies, RegisterMissionListener, SetsCalled, OnMissionListenerDied,
              RegistersListener, UnRegisterMissionListener, StartSyncRemoteMissions,
              StopSyncRemoteMissions, serverVars, envVars
    <2>3. QED
      BY <1>1, <2>1, <2>2 DEF EndsInv
  <1>5. ASSUME NEW e \in Clients, HandlerStep(e) \/ DeviceStep(e) \/ LinkDown(e) \/ LinkUp(e),
               ~NotifyMissionsChangedFromRemote(e)
        PROVE  EndsInv'
    <2>1. ASSUME NEW c \in Clients PROVE EndOf(c)'
      <3>1. CASE c = e
        BY <1>5, <3>1, RetryEnds, DmsDiedEnds, LinkEnds, ClientNotifiedEnds, ServerNotifiedEnds
           DEF HandlerStep, DeviceStep
      <3>2. CASE c # e
        BY <1>1, <1>5, <3>2, ClientElsewhere, SameEnds
      <3>3. QED
        BY <3>1, <3>2
    <2>2. UNCHANGED <<up, overlap, serving>> /\ (~up => UNCHANGED syncSet)
      BY <1>5 DEF HandlerStep, DeviceStep, RetryFunc, OnRemoteDmsDied, ClientNotified, ServerNotified,
                  LinkDown, LinkUp, serverVars, envVars
    <2>3. QED
      BY <1>1, <2>1, <2>2 DEF EndsInv
  <1>6. CASE ServerDies
    <2>1. \A c \in Clients : EndOf(c)'
      BY <1>6, ServerDiesEnds
    <2>2. overlap' = overlap /\ syncSet' = {} /\ \A x \in Threads : serving'[x] = "idle"
      BY <1>6 DEF ServerDies
    <2>3. QED
      BY <1>1, <2>1, <2>2 DEF EndsInv
  <1>7. CASE ServerStarts
    <2>1. \A c \in Clients : EndOf(c)'
      BY <1>7, ServerStartsEnds
    <2>2. overlap' = overlap /\ up'
      BY <1>7 DEF ServerStarts
    <2>3. QED
      BY <1>1, <2>1, <2>2 DEF EndsInv
  <1>8. CASE RunsTask \/ NotifyLocalMissionsChanged \/ NotifyMissionsChangedToRemote \/ MissionsChange
    BY <1>2, <1>8 DEF RunsTask, NotifyLocalMissionsChanged, NotifyMissionsChangedToRemote, MissionsChange,
                 clientVars, taskVars, serverVars, envVars, linkVars, ghosts
  <1>9. ASSUME NEW e \in Clients, NotifyMissionsChangedFromRemote(e) PROVE EndsInv'
    BY <1>2, <1>9 DEF NotifyMissionsChangedFromRemote, taskVars, serverVars, envVars, linkVars
  <1>10. CASE UNCHANGED vars
    BY <1>2, <1>10 DEF vars, clientVars, taskVars, serverVars, envVars, linkVars, ghosts
  <1>11. QED
    BY <1>3, <1>4, <1>5, <1>6, <1>7, <1>8, <1>9, <1>10 DEF Next, ServerStep

LEMMA InitEnds == Serial /\ Init => EndsInv
  <1>1. SUFFICES ASSUME Serial, Init PROVE EndsInv
    OBVIOUS
  <1>2. /\ overlap = {} /\ up /\ syncSet = {} /\ died = {} /\ dmsDied = {}
        /\ \A x \in Threads : th[x].pc = "idle" /\ serving[x] = "idle" /\ ~Busy(x)
    BY <1>1, PcOf DEF Init, Serial, Busy
  <1>3. ASSUME NEW c \in Clients PROVE EndOf(c)
    <2>1. /\ NoEvents(c) /\ ~called[c] /\ link[c] /\ remoteDms[c] = "none"
          /\ \A a \in Apps : ~Started(a)
      BY <1>1, <1>2, Homes DEF Init, NoEvents, Started
    <2>2. Apart(c) /\ StartKnown(c) /\ Ends(c)
      BY <1>2, <2>1, Homes DEF Apart, StartKnown, Ends
    <2>3. LinkKnown(c)
      BY <1>2, <2>1 DEF LinkKnown, NoEvents, Offline
    <2>4. QED
      BY <2>2, <2>3 DEF EndOf
  <1>4. QED
    BY <1>2, <1>3 DEF EndsInv

LEMMA EndsAtRest ==
    ASSUME TypeInv, EndsInv
    PROVE  EndsAgree
  <1>1. ASSUME QuietServer, NEW c \in Clients, QuietClient(c)
        PROVE  (called[c] <=> c \in syncSet) \/ c \in loose
    <2>1. EndOf(c)
      BY DEF EndsInv
    <2>2. /\ \A x \in Threads : Home(x) = c => th[x].pc = "idle" /\ serving[x] = "idle"
          /\ NoEvents(c) /\ c \notin dmsDied /\ retries[c] = {}
      BY <1>1 DEF QuietServer, QuietClient, NoEvents
    <2>3. ~Restarts(c)
      BY <2>2, Homes DEF Restarts, NoEvents, Offline
    <2>4. \A a \in Apps : ClientOf[a] = c => ~Started(a)
      BY <2>2, Homes DEF Started
    <2>5. serverEvents[c] # Offline /\ th[c].pc # "toStop"
      BY <2>2, Homes DEF NoEvents, Offline
    <2>6. called[c] \in BOOLEAN
      BY DEF TypeInv, FlagType
    <2>7. QED
      BY <2>1, <2>3, <2>4, <2>5, <2>6 DEF EndOf, Ends
  <1>2. QED
    BY <1>1, TypeInvType DEF EndsAgree

(* If calls and failures wait for what is under way, then at rest the two ends of a link *)
(* agree whether the client synchronises, for any clients, applications and retries, and *)
(* however often the server failed or links were lost.                                   *)
THEOREM EndsCorrect ==
    ASSUME Serial
    PROVE  Spec => []EndsAgree
  <1>1. TypeInv /\ EndsInv /\ [Next]_vars => (TypeInv /\ EndsInv)'
    BY NextType, NextEnds
  <1>2. Init => TypeInv /\ EndsInv
    BY InitType, InitEnds
  <1>3. QED
    BY <1>1, <1>2, EndsAtRest, PTL DEF Spec
=============================================================================
