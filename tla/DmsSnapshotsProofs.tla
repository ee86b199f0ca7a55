-------------------------- MODULE DmsSnapshotsProofs --------------------------
(***************************************************************************)
(* Proofs about DmsSnapshots and the DmsDevices it extends, for any        *)
(* missions, readers, network ids, limits and budgets: that the device and *)
(* the storage are tracked, and that what is left when all is done is the  *)
(* last snapshot of each mission.                                          *)
(***************************************************************************)
EXTENDS DmsSnapshots, FiniteSetTheorems, SequenceTheorems, WellFoundedInduction, TLAPS

-----------------------------------------------------------------------------
(* The device.  A report tells that the device went from a network id, or from *)
(* None, to another: the queue is a path that ends where the device is, and    *)
(* begins with what the storage has.                                           *)
Before(t) == IF t.kind = "online" THEN None ELSE t.id
After(t) == IF t.kind = "online" THEN t.id ELSE None

Path(q, h) ==
    /\ \A i \in 1 .. Len(q) - 1 : Before(q[i+1]) = After(q[i])
    /\ q # <<>> => After(q[Len(q)]) = h

(* Where the device is for the storage. *)
Seen == IF tasks = <<>> THEN here ELSE IF node = "notify" THEN After(Head(tasks)) ELSE Before(Head(tasks))

HeadInv ==
    /\ node = "notify" => tasks # <<>> /\ Head(tasks).kind = "online"
    /\ node \in {"stop", "left"} => tasks # <<>> /\ Head(tasks).kind = "offline"
TriesInv ==
    /\ link = "connecting" => tries <= CONNECT_SOFTBUS_RETRY_TIMES
    /\ link = "registering" => tries < RETRY_REGISTER_CALLBACK_TIMES
UnlinkedInv ==
    link # "registered" =>
        /\ tasks = <<>> /\ node = "idle"
        /\ remoteDevices = {} /\ uuidNetworkIdMap[Uuid] = None
LinkedInv ==
    link = "registered" =>
        /\ Path(tasks, here)
        /\ remoteDevices = {Seen} \ {None}
        /\ unresolved \/ uuidNetworkIdMap[Uuid] = Seen

DevicesInv == DevicesTypeOK /\ HeadInv /\ TriesInv /\ UnlinkedInv /\ LinkedInv

LEMMA PathAppends ==
    ASSUME NEW q \in Seq(Reports), NEW h, Path(q, h), NEW t \in Reports, Before(t) = h
    PROVE  /\ Append(q, t) \in Seq(Reports) /\ Append(q, t) # <<>>
           /\ Path(Append(q, t), After(t))
           /\ Head(Append(q, t)) = IF q = <<>> THEN t ELSE Head(q)
  <1>1. PICK p : p = Append(q, t)
    OBVIOUS
  <1>2. PICK n \in Nat : n = Len(q)
    BY LenProperties
  <1>3. /\ p \in Seq(Reports) /\ p # <<>> /\ Len(p) = n + 1
        /\ \A i \in 1 .. n : p[i] = q[i]
        /\ p[n + 1] = t
    BY <1>1, <1>2, AppendProperties
  <1>4. Head(p) = IF q = <<>> THEN t ELSE Head(q)
    BY <1>1, HeadTailAppend
  <1>5. n = 0 <=> q = <<>>
    BY <1>2, EmptySeq
  <1>6. \A i \in 1 .. n : Before(p[i+1]) = After(p[i])
    <2>1. SUFFICES ASSUME NEW i \in 1 .. n PROVE Before(p[i+1]) = After(p[i])
      OBVIOUS
    <2>2. CASE i = n
      BY <1>2, <1>3, <1>5, <2>2 DEF Path
    <2>3. CASE i < n
      <3>1. i \in 1 .. n - 1 /\ i + 1 \in 1 .. n
        BY <2>3
      <3>2. QED
        BY <1>2, <1>3, <3>1 DEF Path
    <2>4. QED
      BY <2>2, <2>3
  <1>7. Path(p, After(t))
    BY <1>3, <1>6 DEF Path
  <1>8. QED
    BY <1>1, <1>3, <1>4, <1>7

LEMMA PathEnds ==
    ASSUME NEW q \in Seq(Reports), NEW h, Path(q, h), q # <<>>
    PROVE  /\ Head(q) \in Reports /\ Tail(q) \in Seq(Reports)
           /\ Path(Tail(q), h)
           /\ IF Tail(q) = <<>> THEN After(Head(q)) = h ELSE Before(Head(Tail(q))) = After(Head(q))
  <1>1. PICK p : p = Tail(q)
    OBVIOUS
  <1>2. PICK n \in Nat : n = Len(p)
    BY <1>1, HeadTailProperties, LenProperties
  <1>3. /\ Head(q) \in Reports /\ p \in Seq(Reports)
        /\ Len(q) = n + 1
        /\ \A i \in 1 .. n : p[i] = q[i + 1]
    <2>1. Head(q) \in Reports /\ p \in Seq(Reports) /\ n = Len(q) - 1
      BY <1>1, <1>2, HeadTailProperties
    <2>2. \A i \in 1 .. n : p[i] = q[i + 1]
      BY <1>1, <1>2, HeadTailProperties
    <2>3. Len(q) \in Nat
      BY LenProperties
    <2>4. QED
      BY <2>1, <2>2, <2>3
  <1>4. n = 0 <=> p = <<>>
    BY <1>2, <1>3, EmptySeq
  <1>5. Head(q) = q[1] /\ (p # <<>> => Head(p) = p[1])
    BY <1>1, <1>3
  <1>6. \A i \in 1 .. n : Before(q[i+1]) = After(q[i])
    BY <1>3 DEF Path
  <1>7. After(q[n + 1]) = h
    BY <1>3 DEF Path
  <1>8. Path(p, h)
    <2>1. \A i \in 1 .. n - 1 : Before(p[i+1]) = After(p[i])
      <3>1. SUFFICES ASSUME NEW i \in 1 .. n - 1 PROVE Before(p[i+1]) = After(p[i])
        OBVIOUS
      <3>2. i \in 1 .. n /\ i + 1 \in 1 .. n
        OBVIOUS
      <3>3. QED
        BY <1>3, <1>6, <3>2
    <2>2. p # <<>> => After(p[n]) = h
      BY <1>3, <1>4, <1>7
    <2>3. QED
      BY <1>2, <2>1, <2>2 DEF Path
  <1>9. CASE n = 0
    BY <1>1, <1>3, <1>4, <1>5, <1>7, <1>8, <1>9
  <1>10. CASE n # 0
    <2>1. 1 \in 1 .. n
      BY <1>10
    <2>2. Before(p[1]) = After(q[1])
      BY <1>3, <1>6, <2>1
    <2>3. QED
      BY <1>1, <1>3, <1>4, <1>5, <1>8, <1>10, <2>2
  <1>11. QED
    BY <1>9, <1>10

LEMMA InitDevices == DevicesInit => DevicesInv
  <1>1. SUFFICES ASSUME DevicesInit PROVE DevicesInv
    OBVIOUS
  <1>2. DevicesTypeOK
    <2>1. 0 \in 0 .. CONNECT_SOFTBUS_RETRY_TIMES + RETRY_REGISTER_CALLBACK_TIMES
      BY RetryAssumption
    <2>2. <<>> \in Seq(Reports)
      BY EmptySeq
    <2>3. QED
      BY <1>1, <2>1, <2>2 DEF DevicesInit, DevicesTypeOK
  <1>3. HeadInv /\ TriesInv /\ UnlinkedInv /\ LinkedInv
    BY <1>1, RetryAssumption DEF DevicesInit, HeadInv, TriesInv, UnlinkedInv, LinkedInv, UuidKeys
  <1>4. QED
    BY <1>2, <1>3 DEF DevicesInv

LEMMA SameDevices == DevicesInv /\ UNCHANGED devices => DevicesInv'
  <1>1. SUFFICES ASSUME DevicesInv, UNCHANGED devices PROVE DevicesInv'
    OBVIOUS
  <1>2. DevicesTypeOK'
    BY <1>1 DEF DevicesInv, DevicesTypeOK, devices, softbus, linking, storage
  <1>3. HeadInv' /\ TriesInv' /\ UnlinkedInv'
    BY <1>1 DEF DevicesInv, HeadInv, TriesInv, UnlinkedInv, devices, softbus, linking, storage
  <1>4. Path(tasks, here)' = Path(tasks, here) /\ Seen' = Seen
    BY <1>1 DEF Path, Seen, devices, softbus
  <1>5. LinkedInv'
    BY <1>1, <1>4 DEF DevicesInv, LinkedInv, devices, linking, storage
  <1>6. QED
    BY <1>2, <1>3, <1>5 DEF DevicesInv

LEMMA NoneApart == \A t \in Reports : /\ Before(t) \in NetIds \union {None} /\ After(t) \in NetIds \union {None}
                                      /\ t.id \in NetIds /\ t.id # None
                                      /\ t.kind \in {"online", "offline"}
  BY NoneAssumption DEF Reports, Before, After

(* A report of what happens to the device keeps the path: the storage has yet *)
(* to see it.                                                                  *)
LEMMA ReportDevices ==
    ASSUME DevicesInv, NEW t \in Reports, Before(t) = here, here' = After(t),
           tasks' = Reported(t), known' \subseteq NetIds,
           UNCHANGED <<softbusUp, linking, node, storage>>
    PROVE  DevicesInv' /\ (link = "registered" => Seen' = Seen)
  <1>1. CASE link = "registered"
    <2>1. tasks \in Seq(Reports) /\ Path(tasks, here) /\ tasks' = Append(tasks, t)
      BY <1>1 DEF DevicesInv, DevicesTypeOK, LinkedInv, Reported
    <2>2. /\ tasks' \in Seq(Reports) /\ tasks' # <<>>
          /\ Path(tasks', here')
          /\ Head(tasks') = IF tasks = <<>> THEN t ELSE Head(tasks)
      BY <2>1, PathAppends
    <2>3. tasks = <<>> => node = "idle"
      BY DEF DevicesInv, HeadInv, DevicesTypeOK
    <2>4. Seen' = Seen
      BY <2>2, <2>3 DEF Seen
    <2>5. LinkedInv'
      BY <1>1, <2>2, <2>4 DEF DevicesInv, LinkedInv, storage, linking
    <2>6. HeadInv' /\ TriesInv' /\ UnlinkedInv'
      BY <1>1, <2>2, <2>3 DEF DevicesInv, HeadInv, TriesInv, UnlinkedInv, linking
    <2>7. DevicesTypeOK'
      BY <2>2, NoneApart DEF DevicesInv, DevicesTypeOK, linking, storage
    <2>8. QED
      BY <2>4, <2>5, <2>6, <2>7 DEF DevicesInv
  <1>2. CASE link # "registered"
    <2>1. tasks' = tasks
      BY <1>2 DEF Reported
    <2>2. QED
      BY <1>2, <2>1, NoneApart DEF DevicesInv, DevicesTypeOK, HeadInv, TriesInv, UnlinkedInv, LinkedInv,
                                   linking, storage
  <1>3. QED
    BY <1>1, <1>2

LEMMA SoftbusDevices ==
    ASSUME DevicesInv, SoftbusSteps
    PROVE  DevicesInv' /\ (link = "registered" => Seen' = Seen)
  <1>1. CASE Joins
    <2>1. PICK n \in NetIds : /\ here = None /\ here' = n /\ known' = known \union {n}
                              /\ tasks' = Reported(Report("online", n))
                              /\ UNCHANGED <<softbusUp, linking, node, storage>>
      BY <1>1 DEF Joins
    <2>2. PICK t \in Reports : t = Report("online", n) /\ Before(t) = here /\ After(t) = n
      BY <2>1 DEF Report, Reports, Before, After
    <2>3. QED
      BY <2>1, <2>2, ReportDevices DEF DevicesInv, DevicesTypeOK
  <1>2. CASE Leaves
    <2>1. here \in NetIds
      BY <1>2 DEF Leaves, DevicesInv, DevicesTypeOK
    <2>2. PICK t : t = Report("offline", here)
      OBVIOUS
    <2>3. t \in Reports /\ t.kind = "offline" /\ t.id = here
      BY <2>1, <2>2 DEF Report, Reports
    <2>4. Before(t) = here /\ After(t) = None
      BY <2>3 DEF Before, After
    <2>5. QED
      BY <1>2, <2>2, <2>3, <2>4, ReportDevices DEF Leaves, DevicesInv, DevicesTypeOK
  <1>3. CASE Forgets
    <2>1. known' \subseteq NetIds /\ UNCHANGED <<softbusUp, here, linking, tasks, node, storage>>
      BY <1>3 DEF Forgets, DevicesInv, DevicesTypeOK
    <2>2. QED
      BY <2>1 DEF DevicesInv, DevicesTypeOK, HeadInv, TriesInv, UnlinkedInv, LinkedInv, Path, Seen, linking, storage
  <1>4. QED
    BY <1>1, <1>2, <1>3 DEF SoftbusSteps

LEMMA TriesCount ==
    /\ 0 \in 0 .. CONNECT_SOFTBUS_RETRY_TIMES + RETRY_REGISTER_CALLBACK_TIMES
    /\ 0 < RETRY_REGISTER_CALLBACK_TIMES
    /\ \A n \in 0 .. CONNECT_SOFTBUS_RETRY_TIMES + RETRY_REGISTER_CALLBACK_TIMES :
          /\ n <= CONNECT_SOFTBUS_RETRY_TIMES \/ n < RETRY_REGISTER_CALLBACK_TIMES =>
                n + 1 \in 0 .. CONNECT_SOFTBUS_RETRY_TIMES + RETRY_REGISTER_CALLBACK_TIMES
          /\ n <= CONNECT_SOFTBUS_RETRY_TIMES /\ n # CONNECT_SOFTBUS_RETRY_TIMES => n + 1 <= CONNECT_SOFTBUS_RETRY_TIMES
          /\ n < RETRY_REGISTER_CALLBACK_TIMES /\ n + 1 # RETRY_REGISTER_CALLBACK_TIMES =>
                n + 1 < RETRY_REGISTER_CALLBACK_TIMES
  BY RetryAssumption

LEMMA LinkDevices ==
    ASSUME DevicesInv, SoftbusStarts \/ ConnectSoftbus \/ AddDeviceChangeListener
    PROVE  DevicesInv'
  <1>1. CASE SoftbusStarts
    BY <1>1 DEF SoftbusStarts, DevicesInv, DevicesTypeOK, HeadInv, TriesInv, UnlinkedInv, LinkedInv, Path, Seen,
                linking, storage
  <1>2. CASE ConnectSoftbus
    <2>1. link = "connecting" /\ link' # "registered" /\ link' \in {"registering", "connecting", "gave up"}
      BY <1>2 DEF ConnectSoftbus
    <2>2. /\ tries' \in 0 .. CONNECT_SOFTBUS_RETRY_TIMES + RETRY_REGISTER_CALLBACK_TIMES /\ TriesInv'
      BY <1>2, TriesCount DEF ConnectSoftbus, DevicesInv, DevicesTypeOK, TriesInv
    <2>3. QED
      BY <1>2, <2>1, <2>2 DEF ConnectSoftbus, DevicesInv, DevicesTypeOK, HeadInv, UnlinkedInv, LinkedInv, softbus
  <1>3. CASE AddDeviceChangeListener
    <2>1. /\ tasks = <<>> /\ node = "idle" /\ remoteDevices = {} /\ uuidNetworkIdMap[Uuid] = None
          /\ here \in NetIds \union {None}
          /\ UNCHANGED <<softbus, node, storage>>
      BY <1>3 DEF AddDeviceChangeListener, DevicesInv, DevicesTypeOK, UnlinkedInv
    <2>2. /\ tries' \in 0 .. CONNECT_SOFTBUS_RETRY_TIMES + RETRY_REGISTER_CALLBACK_TIMES /\ TriesInv'
          /\ link' \in {"registering", "registered", "gave up"}
      BY <1>3, TriesCount DEF AddDeviceChangeListener, DevicesInv, DevicesTypeOK, TriesInv
    <2>3. CASE tasks' = <<>> /\ (link' = "registered" => here = None)
      <3>1. DevicesTypeOK'
        BY <2>1, <2>2, <2>3 DEF DevicesInv, DevicesTypeOK, softbus, storage
      <3>2. HeadInv' /\ UnlinkedInv'
        BY <2>1, <2>2, <2>3 DEF HeadInv, UnlinkedInv, softbus, storage
      <3>3. link' = "registered" => Seen' = None /\ Path(tasks, here)'
        BY <2>1, <2>3 DEF Path, Seen, softbus
      <3>4. LinkedInv'
        BY <2>1, <3>3 DEF LinkedInv, softbus, storage
      <3>5. QED
        BY <2>2, <3>1, <3>2, <3>4 DEF DevicesInv
    <2>4. CASE here # None /\ link' = "registered" /\ tasks' = Append(tasks, Report("online", here))
      <3>1. PICK t \in Reports : t = Report("online", here) /\ Before(t) = None /\ After(t) = here
        BY <2>1, <2>4 DEF Report, Reports, Before, After
      <3>2. Path(tasks, None)
        BY <2>1 DEF Path
      <3>3. tasks \in Seq(Reports)
        BY DEF DevicesInv, DevicesTypeOK
      <3>4. /\ tasks' \in Seq(Reports) /\ tasks' # <<>>
            /\ Path(tasks', here)
            /\ Head(tasks') = t
        BY <2>1, <2>4, <3>1, <3>2, <3>3, PathAppends
      <3>5. Seen' = None
        BY <2>1, <3>1, <3>4 DEF Seen
      <3>6. LinkedInv'
        BY <2>1, <3>4, <3>5 DEF LinkedInv, softbus, storage
      <3>7. QED
        BY <2>1, <2>2, <2>4, <3>4, <3>6 DEF DevicesInv, DevicesTypeOK, HeadInv, UnlinkedInv, softbus, storage
    <2>5. QED
      BY <1>3, <2>1, <2>3, <2>4 DEF AddDeviceChangeListener
  <1>4. QED
    BY <1>1, <1>2, <1>3

(* What the storage knows of the report at the head of the queue. *)
LEMMA HeadReport ==
    ASSUME DevicesInv, tasks # <<>>
    PROVE  /\ link = "registered" /\ tasks \in Seq(Reports)
           /\ Head(tasks) \in Reports /\ Reporting \in NetIds /\ Reporting # None
           /\ After(Head(tasks)) = IF Head(tasks).kind = "online" THEN Reporting ELSE None
           /\ Before(Head(tasks)) = IF Head(tasks).kind = "online" THEN None ELSE Reporting
           /\ uuidNetworkIdMap \in [UuidKeys -> NetIds \union {None}]
  <1>1. /\ link = "registered" /\ tasks \in Seq(Reports)
        /\ uuidNetworkIdMap \in [UuidKeys -> NetIds \union {None}]
    BY DEF DevicesInv, DevicesTypeOK, UnlinkedInv
  <1>2. Head(tasks) \in Reports
    BY <1>1, HeadTailProperties
  <1>3. QED
    BY <1>1, <1>2, NoneApart DEF Reporting, After, Before

LEMMA OnlineDevices ==
    ASSUME DevicesInv, NodeOnline
    PROVE  /\ DevicesInv' /\ node' = "notify" /\ Seen' = Reporting'
           /\ uuidNetworkIdMap'[Uuid] = Reporting' \/ uuidNetworkIdMap'[NoUuid] = Reporting'
  <1>1. /\ tasks # <<>> /\ node = "idle" /\ Head(tasks).kind = "online" /\ node' = "notify"
        /\ UNCHANGED <<softbus, linking, tasks>>
    BY DEF NodeOnline, Handles
  <1>2. Seen = None /\ Seen' = Reporting /\ Reporting' = Reporting
    BY <1>1, HeadReport DEF Seen, Reporting
  <1>3. remoteDevices' = {Reporting} /\ remoteDevices' \subseteq NetIds
    BY <1>1, <1>2, HeadReport DEF NodeOnline, DevicesInv, LinkedInv
  <1>4. SoftbusUuid(Reporting) \in UuidKeys /\ (Reporting \in known => SoftbusUuid(Reporting) = Uuid)
    BY DEF SoftbusUuid, UuidKeys
  <1>5. /\ uuidNetworkIdMap' \in [UuidKeys -> NetIds \union {None}]
        /\ uuidNetworkIdMap'[SoftbusUuid(Reporting)] = Reporting
        /\ unresolved' = (Reporting \notin known)
    BY <1>1, <1>4, HeadReport DEF NodeOnline
  <1>6. uuidNetworkIdMap'[Uuid] = Reporting \/ uuidNetworkIdMap'[NoUuid] = Reporting
    BY <1>5 DEF SoftbusUuid
  <1>7. LinkedInv'
    BY <1>1, <1>2, <1>3, <1>4, <1>5, HeadReport DEF DevicesInv, LinkedInv, Path, softbus, linking
  <1>8. HeadInv' /\ TriesInv' /\ UnlinkedInv'
    BY <1>1, HeadReport DEF DevicesInv, HeadInv, TriesInv, UnlinkedInv, linking
  <1>9. DevicesTypeOK'
    BY <1>1, <1>3, <1>5 DEF DevicesInv, DevicesTypeOK, softbus, linking
  <1>10. QED
    BY <1>1, <1>2, <1>6, <1>7, <1>8, <1>9 DEF DevicesInv

(* A report has been handled. *)
LEMMA NotifiedDevices ==
    ASSUME DevicesInv, tasks # <<>>, NodeNotified, UNCHANGED <<softbus, linking>>,
           remoteDevices' = {After(Head(tasks))} \ {None},
           uuidNetworkIdMap' \in [UuidKeys -> NetIds \union {None}],
           unresolved' \in BOOLEAN,
           unresolved' \/ uuidNetworkIdMap'[Uuid] = After(Head(tasks))
    PROVE  DevicesInv' /\ Seen' = After(Head(tasks))
  <1>1. PICK p : p = Tail(tasks)
    OBVIOUS
  <1>2. link = "registered" /\ tasks \in Seq(Reports) /\ Path(tasks, here)
    BY HeadReport DEF DevicesInv, LinkedInv
  <1>3. /\ p \in Seq(Reports) /\ Path(p, here)
        /\ IF p = <<>> THEN After(Head(tasks)) = here ELSE Before(Head(p)) = After(Head(tasks))
    BY <1>1, <1>2, PathEnds
  <1>4. tasks' = p /\ node' = "idle" /\ here' = here /\ link' = link
    BY <1>1 DEF NodeNotified, softbus, linking
  <1>5. Seen' = After(Head(tasks))
    BY <1>3, <1>4 DEF Seen
  <1>6. LinkedInv'
    BY <1>3, <1>4, <1>5 DEF LinkedInv, Path
  <1>7. After(Head(tasks)) \in NetIds \union {None}
    BY HeadReport
  <1>8. DevicesTypeOK'
    BY <1>3, <1>4, <1>7 DEF DevicesInv, DevicesTypeOK, softbus, linking
  <1>9. HeadInv' /\ TriesInv' /\ UnlinkedInv'
    BY <1>2, <1>4 DEF DevicesInv, HeadInv, TriesInv, UnlinkedInv, linking
  <1>10. QED
    BY <1>5, <1>6, <1>8, <1>9 DEF DevicesInv

LEMMA OnlineNotifies ==
    ASSUME DevicesInv, node = "notify", NodeNotified, UNCHANGED <<softbus, linking, storage>>
    PROVE  DevicesInv' /\ Seen = Reporting /\ Seen' = Reporting /\ Reporting # None
  <1>1. tasks # <<>> /\ Head(tasks).kind = "online"
    BY DEF DevicesInv, HeadInv
  <1>2. Seen = Reporting /\ After(Head(tasks)) = Reporting /\ Reporting # None
    BY <1>1, HeadReport DEF Seen
  <1>3. QED
    BY <1>1, <1>2, NotifiedDevices, HeadReport DEF DevicesInv, DevicesTypeOK, LinkedInv, storage

LEMMA OfflineDevices ==
    ASSUME DevicesInv, NodeOfflineEnds
    PROVE  DevicesInv' /\ Seen' = None
  <1>1. tasks # <<>> /\ Head(tasks).kind = "offline" /\ node = "left"
    BY DEF DevicesInv, HeadInv, NodeOfflineEnds
  <1>2. Seen = Reporting /\ After(Head(tasks)) = None
    BY <1>1, HeadReport DEF Seen
  <1>3. remoteDevices' = {}
    BY <1>1, <1>2, HeadReport DEF NodeOfflineEnds, DevicesInv, LinkedInv
  <1>4. SoftbusUuid(Reporting) \in UuidKeys /\ (Reporting \in known => SoftbusUuid(Reporting) = Uuid)
    BY DEF SoftbusUuid, UuidKeys
  <1>5. /\ uuidNetworkIdMap' \in [UuidKeys -> NetIds \union {None}]
        /\ Reporting \in known => uuidNetworkIdMap'[Uuid] = None
    BY <1>1, <1>4, HeadReport DEF NodeOfflineEnds
  <1>6. unresolved' \in BOOLEAN /\ (unresolved' \/ Reporting \in known)
    BY DEF NodeOfflineEnds, DevicesInv, DevicesTypeOK
  <1>7. QED
    BY <1>1, <1>2, <1>3, <1>5, <1>6, NotifiedDevices DEF NodeOfflineEnds

(* The steps between, in which the service is told. *)
LEMMA LeavingDevices ==
    ASSUME DevicesInv, tasks # <<>>, Head(tasks).kind = "offline", node # "notify", node' \in {"stop", "left"},
           UNCHANGED <<softbus, linking, tasks, storage>>
    PROVE  DevicesInv' /\ Seen' = Seen
  <1>1. Seen' = Seen
    BY DEF Seen, softbus
  <1>2. LinkedInv'
    BY <1>1 DEF DevicesInv, LinkedInv, Path, softbus, linking, storage
  <1>3. DevicesTypeOK'
    BY DEF DevicesInv, DevicesTypeOK, softbus, linking, storage
  <1>4. HeadInv' /\ TriesInv' /\ UnlinkedInv'
    BY DEF DevicesInv, HeadInv, TriesInv, UnlinkedInv, linking, storage
  <1>5. QED
    BY <1>1, <1>2, <1>3, <1>4 DEF DevicesInv

-----------------------------------------------------------------------------
(* What the parts of Next leave alone. *)
LEMMA SourceOnly == SourceSteps => UNCHANGED <<devices, kvUp, store, changes, connection, snapshots, cleaning>>
  <1>1. NotifyMissionSnapshotCreated \/ NotifyMissionSnapshotChanged \/ NotifyMissionSnapshotDestroyed =>
            UNCHANGED <<devices, kvUp, store, changes, connection, snapshots, cleaning>>
    BY DEF NotifyMissionSnapshotCreated, NotifyMissionSnapshotChanged, NotifyMissionSnapshotDestroyed, kv
  <1>2. RegisterMissionListener \/ InitGets \/ ChangeGets \/ RemoveSnapshotInfo =>
            UNCHANGED <<devices, kvUp, store, changes, connection, snapshots, cleaning>>
    BY DEF RegisterMissionListener, InitGets, ChangeGets, RemoveSnapshotInfo, kv
  <1>3. \A w \in Workers : StoreSnapshotInfo(w) =>
            UNCHANGED <<devices, kvUp, store, changes, connection, snapshots, cleaning>>
    BY DEF StoreSnapshotInfo
  <1>4. QED
    BY <1>1, <1>2, <1>3 DEF SourceSteps

LEMMA KvOnly == KvSteps => UNCHANGED <<devices, source, cleaning>>
  <1>1. Synchronises \/ OnChange \/ KvDies \/ KvStarts \/ OnRemoteDied => UNCHANGED <<devices, source, cleaning>>
    BY DEF Synchronises, OnChange, KvDies, KvStarts, OnRemoteDied
  <1>2. WaitKvDataService \/ AddDeathRecipient \/ TryGetKvStore \/ SubscribeKvStore =>
            UNCHANGED <<devices, source, cleaning>>
    BY DEF WaitKvDataService, AddDeathRecipient, TryGetKvStore, SubscribeKvStore
  <1>3. QED
    BY <1>1, <1>2 DEF KvSteps

LEMMA ClientOnly == ClientSteps => UNCHANGED <<source, connection, kvUp, changes>>
  <1>1. \A r \in Readers : GetRemoteMissionSnapshotInfo(r) \/ EnqueueCachedSnapshotInfo(r) =>
            UNCHANGED <<source, connection, kvUp, changes>>
    BY DEF GetRemoteMissionSnapshotInfo, EnqueueCachedSnapshotInfo, kv
  <1>2. RegisterListener \/ UnRegisterListener \/ StopSyncRemoteMissions \/ DeviceOnlineNotify =>
            UNCHANGED <<source, connection, kvUp, changes>>
    BY DEF RegisterListener, UnRegisterListener, StopSyncRemoteMissions, DeviceOnlineNotify, kv
  <1>3. CleanMissionResources \/ DeviceOfflineNotify \/ FuzzyDelete => UNCHANGED <<source, connection, kvUp, changes>>
    BY DEF CleanMissionResources, DeviceOfflineNotify, FuzzyDelete, kv
  <1>4. QED
    BY <1>1, <1>2, <1>3 DEF ClientSteps

LEMMA ReadersOnly ==
    ASSUME NEW r \in Readers, GetRemoteMissionSnapshotInfo(r) \/ EnqueueCachedSnapshotInfo(r)
    PROVE  UNCHANGED <<devices, source, kv, connection, cleaning>>
  BY DEF GetRemoteMissionSnapshotInfo, EnqueueCachedSnapshotInfo

-----------------------------------------------------------------------------
(* The devices, in every step. *)
LEMMA NextDevices ==
    ASSUME DevicesInv, [Next]_vars
    PROVE  DevicesInv'
  <1>1. CASE UNCHANGED devices
    BY <1>1, SameDevices
  <1>2. CASE SoftbusSteps
    BY <1>2, SoftbusDevices
  <1>3. CASE DeviceSteps
    BY <1>3, LinkDevices, OnlineDevices, OfflineDevices DEF DeviceSteps
  <1>4. CASE DeviceOnlineNotify
    BY <1>4, OnlineNotifies DEF DeviceOnlineNotify
  <1>5. CASE CleanMissionResources
    <2>1. /\ tasks # <<>> /\ Head(tasks).kind = "offline" /\ node = "idle"
          /\ node' \in {"stop", "left"} /\ UNCHANGED <<softbus, linking, tasks, storage>>
      BY <1>5 DEF CleanMissionResources, Handles
    <2>2. QED
      BY <2>1, LeavingDevices
  <1>6. CASE DeviceOfflineNotify
    <2>1. /\ tasks # <<>> /\ Head(tasks).kind = "offline" /\ node = "stop"
          /\ node' = "left" /\ UNCHANGED <<softbus, linking, tasks, storage>>
      BY <1>6 DEF DeviceOfflineNotify, DevicesInv, HeadInv
    <2>2. QED
      BY <2>1, LeavingDevices
  <1>7. CASE RegisterListener \/ UnRegisterListener \/ StopSyncRemoteMissions \/ FuzzyDelete
    <2>1. UNCHANGED devices
      BY <1>7 DEF RegisterListener, UnRegisterListener, StopSyncRemoteMissions, FuzzyDelete
    <2>2. QED
      BY <1>1, <2>1
  <1>8. CASE \E r \in Readers : GetRemoteMissionSnapshotInfo(r) \/ EnqueueCachedSnapshotInfo(r)
    BY <1>1, <1>8, ReadersOnly
  <1>9. CASE ClientSteps
    BY <1>4, <1>5, <1>6, <1>7, <1>8, <1>9 DEF ClientSteps
  <1>10. CASE SourceSteps \/ KvSteps
    BY <1>1, <1>10, SourceOnly, KvOnly
  <1>11. CASE UNCHANGED vars
    BY <1>1, <1>11 DEF vars
  <1>12. QED
    BY <1>2, <1>3, <1>9, <1>10, <1>11 DEF Next, OnDevices

-----------------------------------------------------------------------------
(* The storage.  Its connection is watched from the step that gets the store *)
(* on, unless the death of the service is known and a task for it is coming.  *)
WaitTypes ==
    /\ kvStorePtr \in {"none", "live", "dead"}
    /\ kvUp \in BOOLEAN /\ watched \in BOOLEAN /\ kvDied \in BOOLEAN /\ subscribed \in BOOLEAN
    /\ waitTasks \in Nat
    /\ waitTask \in {"none", "wait", "watch", "watch dead", "get", "subscribe"}
UpInv == watched \/ kvStorePtr = "live" \/ waitTask = "watch" => kvUp
Coming == kvFault # "none" \/ kvDied \/ waitTasks > 0
ConnectedInv ==
    /\ waitTask = "none" => Coming \/ (kvStorePtr = "live" /\ watched /\ subscribed)
    /\ waitTask = "get" => Coming \/ watched
    /\ waitTask = "subscribe" => Coming \/ (kvStorePtr = "live" /\ watched)
ConnectionInv == WaitTypes /\ UpInv /\ ConnectedInv

LEMMA KvConnection ==
    ASSUME ConnectionInv, KvDies \/ KvStarts \/ OnRemoteDied
    PROVE  ConnectionInv'
  <1>1. CASE KvDies
    <2>1. /\ kvUp' = FALSE /\ subscribed' = FALSE /\ watched' = FALSE
          /\ kvDied' = (kvDied \/ watched)
          /\ kvStorePtr' = IF kvStorePtr = "live" THEN "dead" ELSE kvStorePtr
          /\ waitTask' = IF waitTask = "watch" THEN "watch dead" ELSE waitTask
          /\ UNCHANGED <<waitTasks, kvFault>>
      BY <1>1 DEF KvDies
    <2>2. WaitTypes'
      BY <2>1 DEF ConnectionInv, WaitTypes
    <2>3. UpInv'
      BY <2>1 DEF ConnectionInv, WaitTypes, UpInv
    <2>4. ConnectedInv'
      BY <2>1 DEF ConnectionInv, WaitTypes, ConnectedInv, Coming
    <2>5. QED
      BY <2>2, <2>3, <2>4 DEF ConnectionInv
  <1>2. CASE KvStarts
    BY <1>2 DEF KvStarts, ConnectionInv, WaitTypes, UpInv, ConnectedInv, Coming, connection
  <1>3. CASE OnRemoteDied
    <2>4. waitTasks' = waitTasks + 1
      BY <1>3 DEF OnRemoteDied
    <2>5. waitTasks \in Nat
      BY DEF ConnectionInv, WaitTypes
    <2>1. waitTasks' \in Nat /\ waitTasks' > 0
      BY <2>4, <2>5
    <2>2. /\ kvDied' = FALSE
          /\ UNCHANGED <<kvUp, kvStorePtr, watched, subscribed, waitTask>>
      BY <1>3 DEF OnRemoteDied, kv
    <2>3. QED
      BY <2>1, <2>2 DEF ConnectionInv, WaitTypes, UpInv, ConnectedInv, Coming
  <1>4. QED
    BY <1>1, <1>2, <1>3

LEMMA WaitConnection ==
    ASSUME ConnectionInv, WaitKvDataService \/ AddDeathRecipient \/ TryGetKvStore \/ SubscribeKvStore
    PROVE  ConnectionInv'
  <1>1. CASE WaitKvDataService
    <2>6. waitTasks \in Nat
      BY DEF ConnectionInv, WaitTypes
    <2>7. waitTasks' = waitTasks \/ (waitTasks > 0 /\ waitTasks' = waitTasks - 1)
      BY <1>1 DEF WaitKvDataService
    <2>8. waitTasks' \in Nat
      BY <2>6, <2>7
    <2>9. /\ kvFault' # "none" \/ waitTask' # "none"
          /\ waitTask' \in {"wait", "none"} \/ (waitTask' = "watch" /\ kvUp)
      BY <1>1 DEF WaitKvDataService
    <2>1. /\ waitTasks' \in Nat
          /\ kvFault' # "none" \/ waitTask' # "none"
          /\ waitTask' \in {"wait", "none"} \/ (waitTask' = "watch" /\ kvUp)
      BY <2>8, <2>9
    <2>2. UNCHANGED <<kvUp, kvStorePtr, watched, kvDied, subscribed>>
      BY <1>1 DEF WaitKvDataService, kv
    <2>3. WaitTypes' /\ UpInv'
      BY <2>1, <2>2 DEF ConnectionInv, WaitTypes, UpInv
    <2>4. ConnectedInv'
      BY <2>1 DEF ConnectedInv, Coming
    <2>5. QED
      BY <2>3, <2>4 DEF ConnectionInv
  <1>2. CASE AddDeathRecipient
    BY <1>2 DEF AddDeathRecipient, ConnectionInv, WaitTypes, UpInv, ConnectedInv, Coming, kv
  <1>3. CASE TryGetKvStore
    BY <1>3 DEF TryGetKvStore, ConnectionInv, WaitTypes, UpInv, ConnectedInv, Coming, kv
  <1>4. CASE SubscribeKvStore
    BY <1>4 DEF SubscribeKvStore, ConnectionInv, WaitTypes, UpInv, ConnectedInv, Coming, kv
  <1>5. QED
    BY <1>1, <1>2, <1>3, <1>4

LEMMA InitConnection == Init => ConnectionInv
  <1>1. Init => /\ kvUp = TRUE /\ kvStorePtr = "none" /\ watched = FALSE /\ kvDied = FALSE
                /\ subscribed = FALSE /\ waitTasks = 1 /\ waitTask = "none"
    BY DEF Init
  <1>6. 1 \in Nat
    OBVIOUS
  <1>2. Init => WaitTypes
    BY <1>1, <1>6, Zenon DEF WaitTypes
  <1>5. Init => UpInv
    BY <1>1, Zenon DEF UpInv
  <1>3. Init => ConnectedInv
    BY <1>1 DEF ConnectedInv, Coming
  <1>4. QED
    BY <1>2, <1>3, <1>5 DEF ConnectionInv

LEMMA NextConnection ==
    ASSUME ConnectionInv, [Next]_vars
    PROVE  ConnectionInv'
  <1>1. CASE UNCHANGED <<connection, kvUp>>
    BY <1>1 DEF ConnectionInv, WaitTypes, UpInv, ConnectedInv, Coming, connection
  <1>2. CASE KvSteps
    <2>1. CASE Synchronises \/ OnChange
      <3>1. UNCHANGED <<connection, kvUp>>
        BY <2>1 DEF Synchronises, OnChange
      <3>2. QED
        BY <1>1, <3>1
    <2>2. QED
      BY <1>2, <2>1, KvConnection, WaitConnection DEF KvSteps
  <1>3. CASE SourceSteps \/ ClientSteps
    BY <1>1, <1>3, SourceOnly, ClientOnly
  <1>4. CASE UNCHANGED vars
    BY <1>1, <1>4 DEF vars, kv
  <1>5. CASE UNCHANGED <<source, kv, connection, snapshots, cleaning>>
    BY <1>1, <1>5 DEF kv
  <1>6. QED
    BY <1>2, <1>3, <1>4, <1>5 DEF Next, OnDevices

-----------------------------------------------------------------------------
(* Sets and sequences. *)
LEMMA LeastOf ==
    ASSUME NEW S \in SUBSET Nat, S # {}
    PROVE  \E m \in S : \A k \in S : m <= k
  <1> DEFINE R == OpToRel(<, Nat)
  <1>1. IsWellFoundedOn(R, Nat)
    BY NatLessThanWellFounded
  <1>2. \A x, y \in Nat : x < y => <<x, y>> \in R
    BY DEF OpToRel
  <1> HIDE DEF R
  <1>3. \E m \in S : \A k \in S : <<k, m>> \notin R
    BY <1>1, WFMin
  <1>4. PICK m \in S : \A k \in S : <<k, m>> \notin R
    BY <1>3
  <1>5. \A k \in S : ~(k < m)
    BY <1>2, <1>4
  <1>6. QED
    BY <1>5

LEMMA FirstIsMission == First \in Missions
  <1>1. \E m \in Missions : \A k \in Missions : m <= k
    BY LeastOf, MissionsAssumption
  <1>2. QED
    BY <1>1 DEF First

In(x, q) == \E i \in 1 .. Len(q) : q[i] = x

LEMMA InAppended ==
    ASSUME NEW S, NEW q \in Seq(S), NEW x \in S
    PROVE  /\ Append(q, x) \in Seq(S)
           /\ \A y : In(y, Append(q, x)) <=> In(y, q) \/ y = x
  <1>1. PICK p : p = Append(q, x)
    OBVIOUS
  <1>2. PICK n \in Nat : n = Len(q)
    BY LenProperties
  <1>3. /\ p \in Seq(S) /\ Len(p) = n + 1
        /\ \A i \in 1 .. n : p[i] = q[i]
        /\ p[n + 1] = x
    BY <1>1, <1>2, AppendProperties
  <1>4. \A i \in 1 .. n + 1 : i \in 1 .. n \/ i = n + 1
    OBVIOUS
  <1>5. \A i \in 1 .. n : i \in 1 .. n + 1
    OBVIOUS
  <1>6. n + 1 \in 1 .. n + 1
    OBVIOUS
  <1>7. \A y : In(y, p) <=> In(y, q) \/ y = x
    BY <1>2, <1>3, <1>4, <1>5, <1>6 DEF In
  <1>8. QED
    BY <1>1, <1>3, <1>7

LEMMA InTail ==
    ASSUME NEW S, NEW q \in Seq(S), q # <<>>
    PROVE  /\ Tail(q) \in Seq(S) /\ Head(q) \in S
           /\ \A y : In(y, q) <=> In(y, Tail(q)) \/ y = Head(q)
  <1>1. PICK p : p = Tail(q)
    OBVIOUS
  <1>2. /\ p \in Seq(S) /\ Head(q) \in S
        /\ \A i \in 1 .. Len(p) : p[i] = q[i + 1]
    BY <1>1, HeadTailProperties
  <1>3. PICK n \in Nat : n = Len(p)
    BY <1>2, LenProperties
  <1>4. Len(q) = n + 1
    <2>1. n = Len(q) - 1 /\ Len(q) \in Nat
      BY <1>1, <1>3, HeadTailProperties, LenProperties
    <2>2. QED
      BY <2>1
  <1>5. Head(q) = q[1]
    OBVIOUS
  <1>6. \A i \in 1 .. n + 1 : i = 1 \/ (i - 1 \in 1 .. n /\ (i - 1) + 1 = i)
    OBVIOUS
  <1>7. \A i \in 1 .. n : i + 1 \in 1 .. n + 1
    OBVIOUS
  <1>8. 1 \in 1 .. n + 1
    OBVIOUS
  <1>9. \A y : In(y, q) => In(y, p) \/ y = Head(q)
    <2>1. SUFFICES ASSUME NEW i \in 1 .. n + 1 PROVE q[i] = Head(q) \/ \E j \in 1 .. n : p[j] = q[i]
      BY <1>3, <1>4 DEF In
    <2>2. CASE i = 1
      BY <1>5, <2>2
    <2>3. CASE i # 1
      <3>1. PICK j \in 1 .. n : j + 1 = i
        BY <1>6, <2>3
      <3>2. QED
        BY <1>2, <1>3, <3>1
    <2>4. QED
      BY <2>2, <2>3
  <1>10. \A y : In(y, p) \/ y = Head(q) => In(y, q)
    BY <1>2, <1>3, <1>4, <1>5, <1>7, <1>8 DEF In
  <1>11. QED
    BY <1>1, <1>2, <1>9, <1>10

-----------------------------------------------------------------------------
(* The source.  A snapshot the store does not have has still to be stored by a *)
(* task or a handler; one that a handler holds is the last, or will be          *)
(* overtaken; the exceptions are noted.                                         *)
Stored == Versions \union {NoSnapshot}
Jobs == [kind : {"changed", "destroyed"}, m : Missions]
Works == [m : Missions, v : Versions, cut : BOOLEAN] \union {NoWork}

SourceTypes ==
    /\ mission \in [Missions -> Stored] /\ newest \in Versions /\ began \subseteq Missions
    /\ isReg \in BOOLEAN /\ later \subseteq Missions /\ initList \subseteq Missions
    /\ soon \in Seq(Jobs)
    /\ work \in [Workers -> Works]
    /\ src \in [Missions -> Stored] /\ DOMAIN srcWhy = Missions

Holds(w, m) == work[w] # NoWork /\ work[w].m = m
Awaited(m) ==
    \/ In(Job("destroyed", m), soon)
    \/ mission[m] # NoSnapshot /\ In(Job("changed", m), soon)
Pending(m) ==
    \/ Awaited(m)
    \/ mission[m] # NoSnapshot /\ m \in later \union initList
    \/ \E w \in Workers : Holds(w, m)

BeganInv ==
    /\ \A m \in Missions : mission[m] # NoSnapshot => m \in began
    /\ \A m \in Missions : In(Job("destroyed", m), soon) => m \in began /\ mission[m] = NoSnapshot
    /\ \A w \in Workers, m \in Missions : Holds(w, m) => m \in began /\ isReg
    /\ soon # <<>> \/ later # {} => isReg
WorkInv ==
    \A w \in Workers, m \in Missions :
        Holds(w, m) /\ ~work[w].cut =>
            work[w].v = mission[m] \/ Awaited(m) \/ \E x \in Workers \ {w} : Holds(x, m)
LastInv == \A m \in Missions : srcWhy[m] # "none" \/ src[m] = mission[m] \/ Pending(m)
(* Until the source listens nothing is stored, and InitAllSnapshots has still  *)
(* to see to what is there.                                                    *)
DeafInv ==
    ~isReg => \A m \in Missions : /\ src[m] = NoSnapshot
                                  /\ m \in began => m \in initList \/ srcWhy[m] # "none"

SourceInv == SourceTypes /\ BeganInv /\ WorkInv /\ LastInv /\ DeafInv

LEMMA JobApart ==
    \A m, k \in Missions : \A a, b \in {"changed", "destroyed"} :
        /\ Job(a, m) \in Jobs
        /\ Job(a, m) = Job(b, k) => a = b /\ m = k
  BY DEF Job, Jobs

LEMMA WorkFacts ==
    ASSUME SourceTypes, NEW w \in Workers
    PROVE  /\ work[w] # NoWork => /\ work[w].m \in Missions /\ work[w].v \in Versions /\ work[w].cut \in BOOLEAN
                                  /\ Holds(w, work[w].m)
           /\ NoWork \in Works
  BY DEF SourceTypes, Works, Holds

LEMMA InitSource == Init => SourceInv
  <1>1. SUFFICES ASSUME Init PROVE SourceInv
    OBVIOUS
  <1>2. 1 \in Versions /\ NoSnapshot \in Stored /\ 1 \in Stored
    BY CacheAssumption DEF Versions, Stored, NoSnapshot
  <1>3. /\ mission = [m \in Missions |-> IF m = First THEN 1 ELSE NoSnapshot] /\ newest = 1
        /\ began = {First} /\ isReg = FALSE /\ later = {} /\ soon = <<>> /\ initList = {First}
        /\ work = [w \in Workers |-> NoWork]
        /\ src = [m \in Missions |-> NoSnapshot] /\ srcWhy = [m \in Missions |-> "none"]
    BY <1>1 DEF Init
  <1>4. SourceTypes
    <2>1. <<>> \in Seq(Jobs)
      BY EmptySeq
    <2>2. work \in [Workers -> Works]
      BY <1>3 DEF Works
    <2>3. mission \in [Missions -> Stored] /\ src \in [Missions -> Stored]
      BY <1>2, <1>3
    <2>4. began \subseteq Missions /\ initList \subseteq Missions
      BY <1>3, FirstIsMission
    <2>5. newest \in Versions /\ isReg \in BOOLEAN /\ later \subseteq Missions /\ soon \in Seq(Jobs)
      BY <1>2, <1>3, <2>1
    <2>6. DOMAIN srcWhy = Missions
      BY <1>3
    <2>7. QED
      BY <2>2, <2>3, <2>4, <2>5, <2>6 DEF SourceTypes
  <1>5. /\ \A x : ~In(x, soon)
        /\ \A w \in Workers, m \in Missions : ~Holds(w, m)
    BY <1>3 DEF In, Holds
  <1>6. BeganInv /\ WorkInv
    BY <1>3, <1>5 DEF BeganInv, WorkInv
  <1>7. LastInv
    BY <1>3 DEF LastInv, Pending
  <1>8. DeafInv
    BY <1>3 DEF DeafInv
  <1>9. QED
    BY <1>4, <1>6, <1>7, <1>8 DEF SourceInv

(* The ability manager tells of mission m. *)
LEMMA NotifySource ==
    ASSUME SourceInv, NEW m \in Missions, NEW v \in Stored,
           mission' = [mission EXCEPT ![m] = v],
           UNCHANGED <<isReg, initList, work, src>>,
           later \subseteq later',
           \A y : In(y, soon) => In(y, soon'),
           \A k \in Missions : k # m => srcWhy'[k] = srcWhy[k],
           src[m] = v \/ srcWhy'[m] # "none" \/ Pending(m)',
           \A w \in Workers : Holds(w, m) => Awaited(m)'
    PROVE  WorkInv' /\ LastInv'
  <1>1. \A k \in Missions : k # m => mission'[k] = mission[k] /\ (Awaited(k) => Awaited(k)')
    BY DEF SourceInv, SourceTypes, Awaited
  <1>2. \A w, k : Holds(w, k)' <=> Holds(w, k)
    BY DEF Holds
  <1>3. \A k \in Missions : k # m => (Pending(k) => Pending(k)')
    BY <1>1, <1>2 DEF Pending
  <1>4. LastInv'
    <2>1. mission'[m] = v
      BY DEF SourceInv, SourceTypes
    <2>2. QED
      BY <1>1, <1>3, <2>1 DEF SourceInv, LastInv
  <1>5. WorkInv'
    <2>1. SUFFICES ASSUME NEW w \in Workers, NEW k \in Missions, Holds(w, k), ~work[w].cut
                   PROVE  \/ work[w].v = mission'[k] \/ Awaited(k)'
                          \/ \E x \in Workers \ {w} : Holds(x, k)
      BY <1>2 DEF WorkInv
    <2>2. CASE k = m
      BY <2>1, <2>2
    <2>3. CASE k # m
      BY <1>1, <2>1, <2>3 DEF SourceInv, WorkInv
    <2>4. QED
      BY <2>2, <2>3
  <1>6. QED
    BY <1>4, <1>5

(* One mission comes (a), changes (b) or goes (c). *)
NotifiesOf(m, v) ==
    /\ mission' = [mission EXCEPT ![m] = v] /\ newest' \in Versions
    /\ UNCHANGED <<isReg, initList, work, src>>
    /\ \/ /\ m \notin began /\ began' = began \union {m} /\ v # NoSnapshot /\ srcWhy' = Missing(m)
          /\ later' = (IF isReg THEN later \union {m} ELSE later) /\ soon' = soon
       \/ /\ mission[m] # NoSnapshot /\ began' = began /\ v # NoSnapshot /\ later' = later /\ srcWhy' = srcWhy
          /\ soon' = IF isReg THEN Append(soon, Job("changed", m)) ELSE soon
       \/ /\ mission[m] # NoSnapshot /\ began' = began /\ v = NoSnapshot /\ later' = later /\ srcWhy' = srcWhy
          /\ soon' = IF isReg THEN Append(soon, Job("destroyed", m)) ELSE soon

LEMMA Notifies ==
    ASSUME SourceInv,
           NotifyMissionSnapshotCreated \/ NotifyMissionSnapshotChanged \/ NotifyMissionSnapshotDestroyed
    PROVE  \E m \in Missions, v \in Stored : NotifiesOf(m, v)
  <1>1. newest \in Versions /\ NoSnapshot \in Stored
    BY DEF SourceInv, SourceTypes, Stored
  <1>2. newest < MaxVersion => newest + 1 \in Versions /\ newest + 1 \in Stored /\ newest + 1 # NoSnapshot
    BY <1>1, CacheAssumption DEF Versions, Stored, NoSnapshot
  <1>3. CASE NotifyMissionSnapshotCreated
    <2>1. PICK m \in Missions :
             /\ newest < MaxVersion /\ m \notin began
             /\ mission' = [mission EXCEPT ![m] = newest + 1] /\ newest' = newest + 1
             /\ began' = began \union {m}
             /\ later' = (IF isReg THEN later \union {m} ELSE later)
             /\ srcWhy' = Missing(m)
             /\ UNCHANGED <<isReg, soon, initList, work, src>>
      BY <1>3 DEF NotifyMissionSnapshotCreated
    <2>2. NotifiesOf(m, newest + 1)
      BY <1>2, <2>1 DEF NotifiesOf
    <2>3. QED
      BY <1>2, <2>1, <2>2
  <1>4. CASE NotifyMissionSnapshotChanged
    <2>1. PICK m \in Missions :
             /\ newest < MaxVersion /\ mission[m] # NoSnapshot
             /\ mission' = [mission EXCEPT ![m] = newest + 1] /\ newest' = newest + 1
             /\ began' = began
             /\ soon' = (IF isReg THEN Append(soon, Job("changed", m)) ELSE soon)
             /\ UNCHANGED <<isReg, later, initList, work, src, srcWhy>>
      BY <1>4 DEF NotifyMissionSnapshotChanged
    <2>2. NotifiesOf(m, newest + 1)
      BY <1>2, <2>1 DEF NotifiesOf
    <2>3. QED
      BY <1>2, <2>1, <2>2
  <1>5. CASE NotifyMissionSnapshotDestroyed
    <2>1. PICK m \in Missions :
             /\ mission[m] # NoSnapshot
             /\ mission' = [mission EXCEPT ![m] = NoSnapshot] /\ newest' = newest
             /\ began' = began
             /\ soon' = (IF isReg THEN Append(soon, Job("destroyed", m)) ELSE soon)
             /\ UNCHANGED <<isReg, later, initList, work, src, srcWhy>>
      BY <1>5 DEF NotifyMissionSnapshotDestroyed
    <2>2. NotifiesOf(m, NoSnapshot)
      BY <1>1, <2>1 DEF NotifiesOf
    <2>3. QED
      BY <1>1, <2>2
  <1>6. QED
    BY <1>3, <1>4, <1>5

LEMMA NotifiesSource ==
    ASSUME SourceInv, NEW m \in Missions, NEW v \in Stored, NotifiesOf(m, v)
    PROVE  SourceInv'
  <1>1. /\ mission' = [mission EXCEPT ![m] = v] /\ newest' \in Versions
        /\ UNCHANGED <<isReg, initList, work, src>>
        /\ later \subseteq later'
    BY DEF NotifiesOf
  <1>2. /\ mission \in [Missions -> Stored] /\ soon \in Seq(Jobs) /\ DOMAIN srcWhy = Missions
        /\ later \subseteq Missions /\ began \subseteq Missions
    BY DEF SourceInv, SourceTypes
  <1>3. /\ mission' \in [Missions -> Stored] /\ mission'[m] = v
        /\ \A k \in Missions : k # m => mission'[k] = mission[k]
    BY <1>1, <1>2
  <1>4. /\ DOMAIN srcWhy' = Missions
        /\ \A k \in Missions : k # m => srcWhy'[k] = srcWhy[k]
        /\ m \notin began /\ ~isReg => srcWhy'[m] # "none"
        /\ m \in began \/ isReg => srcWhy' = srcWhy
    <2>1. srcWhy' = Missing(m) \/ (m \in began /\ srcWhy' = srcWhy)
      BY DEF NotifiesOf, SourceInv, BeganInv
    <2>2. (m \notin began => srcWhy' = Missing(m)) /\ (srcWhy' = Missing(m) \/ srcWhy' = srcWhy)
      BY <2>1
    <2>3. m \in began => srcWhy' = srcWhy
      BY DEF NotifiesOf
    <2>4. QED
      BY <1>2, <2>2, <2>3 DEF Missing
  <1>5. \A k \in Missions, w \in Workers : Holds(w, k)' <=> Holds(w, k)
    BY <1>1 DEF Holds
  <1>6. (\E w \in Workers : Holds(w, m)) => isReg /\ m \in began
    BY DEF SourceInv, BeganInv
  <1>7. PICK y \in Jobs : \/ y = Job("changed", m) /\ v # NoSnapshot
                          \/ y = Job("destroyed", m) /\ v = NoSnapshot
    BY JobApart
  <1>8. Append(soon, y) \in Seq(Jobs) /\ \A z : In(z, Append(soon, y)) <=> In(z, soon) \/ z = y
    BY <1>2, InAppended
  <1>9. \A k \in Missions : /\ y = Job("destroyed", k) => k = m /\ v = NoSnapshot
                            /\ y = Job("changed", k) => k = m
    BY <1>7, JobApart
  <1>10. CASE m \notin began
    <2>1. /\ began' = began \union {m} /\ v # NoSnapshot /\ soon' = soon
          /\ later' = (IF isReg THEN later \union {m} ELSE later)
      BY <1>10 DEF NotifiesOf, SourceInv, BeganInv
    <2>2. srcWhy'[m] # "none" \/ Pending(m)'
      BY <1>3, <1>4, <1>10, <2>1 DEF Pending
    <2>3. WorkInv' /\ LastInv'
      BY <1>1, <1>4, <1>6, <1>10, <2>1, <2>2, NotifySource
    <2>4. BeganInv'
      <3>1. \A k \in Missions : mission'[k] # NoSnapshot => k \in began'
        BY <1>3, <2>1 DEF SourceInv, BeganInv
      <3>2. \A k \in Missions : In(Job("destroyed", k), soon') => k \in began' /\ mission'[k] = NoSnapshot
        BY <1>3, <1>10, <2>1 DEF SourceInv, BeganInv
      <3>3. \A w \in Workers, k \in Missions : Holds(w, k)' => k \in began' /\ isReg'
        BY <1>1, <1>5, <2>1 DEF SourceInv, BeganInv
      <3>4. soon' # <<>> \/ later' # {} => isReg'
        BY <1>1, <2>1 DEF SourceInv, BeganInv
      <3>5. QED
        BY <3>1, <3>2, <3>3, <3>4 DEF BeganInv
    <2>5. SourceTypes'
      BY <1>1, <1>2, <1>3, <1>4, <2>1 DEF SourceInv, SourceTypes
    <2>6. DeafInv'
      BY <1>1, <1>4, <1>10, <2>1 DEF SourceInv, DeafInv
    <2>7. QED
      BY <2>3, <2>4, <2>5, <2>6 DEF SourceInv
  <1>11. CASE m \in began
    <2>1. /\ mission[m] # NoSnapshot /\ began' = began /\ later' = later
          /\ soon' = IF isReg THEN Append(soon, y) ELSE soon
      BY <1>7, <1>11 DEF NotifiesOf
    <2>2. /\ soon' \in Seq(Jobs)
          /\ \A z : In(z, soon') <=> In(z, soon) \/ (isReg /\ z = y)
      BY <1>2, <1>8, <2>1
    <2>3. isReg => Awaited(m)'
      BY <1>3, <1>7, <2>2 DEF Awaited
    <2>4. src[m] = v \/ srcWhy'[m] # "none" \/ Pending(m)'
      <3>1. CASE isReg
        BY <2>3, <3>1 DEF Pending
      <3>2. CASE ~isReg /\ v # NoSnapshot
        BY <1>1, <1>3, <1>4, <1>11, <3>2 DEF SourceInv, DeafInv, Pending
      <3>3. CASE ~isReg /\ v = NoSnapshot
        BY <3>3 DEF SourceInv, DeafInv
      <3>4. QED
        BY <3>1, <3>2, <3>3
    <2>5. WorkInv' /\ LastInv'
      BY <1>1, <1>4, <1>6, <2>2, <2>3, <2>4, NotifySource
    <2>6. BeganInv'
      <3>1. \A k \in Missions : mission'[k] # NoSnapshot => k \in began'
        BY <1>3, <1>11, <2>1 DEF SourceInv, BeganInv
      <3>2. \A k \in Missions : In(Job("destroyed", k), soon') => k \in began' /\ mission'[k] = NoSnapshot
        BY <1>3, <1>9, <1>11, <2>1, <2>2 DEF SourceInv, BeganInv
      <3>3. \A w \in Workers, k \in Missions : Holds(w, k)' => k \in began' /\ isReg'
        BY <1>1, <1>5, <2>1 DEF SourceInv, BeganInv
      <3>4. soon' # <<>> \/ later' # {} => isReg'
        BY <1>1, <2>1 DEF SourceInv, BeganInv
      <3>5. QED
        BY <3>1, <3>2, <3>3, <3>4 DEF BeganInv
    <2>7. SourceTypes'
      BY <1>1, <1>2, <1>3, <1>4, <2>1, <2>2 DEF SourceInv, SourceTypes
    <2>8. DeafInv'
      BY <1>1, <1>4, <1>11, <2>1 DEF SourceInv, DeafInv
    <2>9. QED
      BY <2>5, <2>6, <2>7, <2>8 DEF SourceInv
  <1>12. QED
    BY <1>10, <1>11

(* Worker w, that had nothing to do, gets the snapshot of mission m as it is. *)
LEMMA GetsSource ==
    ASSUME SourceInv, NEW w \in Workers, NEW m \in Missions, work[w] = NoWork, Gets(w, m), isReg,
           soon' \in Seq(Jobs), later' \subseteq later, initList' \subseteq initList,
           UNCHANGED <<missions, isReg, src, srcWhy>>,
           \A y : In(y, soon') => In(y, soon),
           \A y : In(y, soon) => In(y, soon') \/ y = Job("changed", m),
           (later \union initList) \ {m} \subseteq later' \union initList'
    PROVE  SourceInv'
  <1> DEFINE s == IF mission[m] = NoSnapshot THEN NoWork ELSE [m |-> m, v |-> mission[m], cut |-> FALSE]
  <1>1. PICK got : got = s
    OBVIOUS
  <1>2. /\ work \in [Workers -> Works] /\ mission[m] \in Stored
    BY DEF SourceInv, SourceTypes
  <1>3. /\ got \in Works
        /\ mission[m] # NoSnapshot => got # NoWork /\ got.m = m /\ got.v = mission[m]
        /\ mission[m] = NoSnapshot => got = NoWork
    BY <1>1, <1>2 DEF Works, Stored, NoWork
  <1>4. work' = [work EXCEPT ![w] = got]
    BY <1>1 DEF Gets
  <1>5. /\ work' \in [Workers -> Works] /\ work'[w] = got
        /\ \A x \in Workers : x # w => work'[x] = work[x]
    BY <1>2, <1>3, <1>4
  <1> HIDE DEF s
  <1>6. \A x \in Workers, k \in Missions :
            /\ Holds(x, k) => Holds(x, k)' /\ work'[x] = work[x]
            /\ Holds(x, k)' => Holds(x, k) \/ (x = w /\ k = m /\ mission[m] # NoSnapshot)
    BY <1>3, <1>5 DEF Holds
  <1>7. mission[m] # NoSnapshot => Holds(w, m)' /\ work'[w].v = mission[m]
    BY <1>3, <1>5 DEF Holds
  <1>8. \A k \in Missions : Awaited(k) => Awaited(k)' \/ (k = m /\ mission[m] # NoSnapshot)
    BY JobApart DEF Awaited, missions
  <1>9. \A k \in Missions : Pending(k) => Pending(k)'
    BY <1>6, <1>7, <1>8 DEF Pending, missions
  <1>10. LastInv'
    BY <1>9 DEF SourceInv, LastInv, missions
  <1>11. WorkInv'
    <2>1. SUFFICES ASSUME NEW x \in Workers, NEW k \in Missions, Holds(x, k)', ~work'[x].cut
                   PROVE  \/ work'[x].v = mission'[k] \/ Awaited(k)'
                          \/ \E y \in Workers \ {x} : Holds(y, k)'
      BY DEF WorkInv
    <2>2. CASE Holds(x, k)
      <3>1. work'[x] = work[x] /\ mission' = mission /\ x # w
        BY <1>6, <2>2 DEF missions, Holds
      <3>2. work[x].v = mission[k] \/ Awaited(k) \/ \E y \in Workers \ {x} : Holds(y, k)
        BY <2>1, <2>2, <3>1 DEF SourceInv, WorkInv
      <3>3. QED
        BY <1>6, <1>7, <1>8, <3>1, <3>2
    <2>3. CASE ~Holds(x, k)
      BY <1>6, <1>7, <2>1, <2>3 DEF missions
    <2>4. QED
      BY <2>2, <2>3
  <1>12. BeganInv'
    <2>1. \A x \in Workers, k \in Missions : Holds(x, k)' => k \in began' /\ isReg'
      BY <1>6 DEF SourceInv, BeganInv, missions
    <2>2. QED
      BY <2>1 DEF SourceInv, BeganInv, missions
  <1>13. SourceTypes'
    BY <1>5 DEF SourceInv, SourceTypes, missions
  <1>14. QED
    BY <1>10, <1>11, <1>12, <1>13 DEF SourceInv, DeafInv

(* A handler w is done with mission m: it stored or removed its snapshot, or   *)
(* could not; a snapshot of m in another hand is cut.                          *)
LEMMA CutsSource ==
    ASSUME SourceInv, NEW w \in Workers, NEW m \in Missions, work' = Cut(w, m),
           \A k \in Missions : Holds(w, k) => k = m,
           soon' \in Seq(Jobs), src' \in [Missions -> Stored], DOMAIN srcWhy' = Missions,
           UNCHANGED <<missions, isReg, later, initList>>, soon' # <<>> => soon # <<>>, isReg,
           \A y : In(y, soon') => In(y, soon),
           \A y : In(y, soon) => In(y, soon') \/ y = Job("destroyed", m),
           \A k \in Missions : k # m => src'[k] = src[k] /\ srcWhy'[k] = srcWhy[k],
           \/ src'[m] = mission[m]
           \/ srcWhy'[m] # "none"
           \/ Awaited(m)'
           \/ \E x \in Workers \ {w} : Holds(x, m)
    PROVE  SourceInv'
  <1>1. /\ work' = [x \in Workers |-> IF x = w THEN NoWork
                                      ELSE IF work[x].m = m /\ work[x] # NoWork THEN [work[x] EXCEPT !.cut = TRUE]
                                           ELSE work[x]]
        /\ work \in [Workers -> Works]
    BY DEF Cut, SourceInv, SourceTypes
  <1>2. \A s \in Works : s # NoWork =>
            /\ [s EXCEPT !.cut = TRUE] \in Works /\ [s EXCEPT !.cut = TRUE] # NoWork
            /\ [s EXCEPT !.cut = TRUE].m = s.m /\ [s EXCEPT !.cut = TRUE].cut
    BY DEF Works, NoWork
  <1>3. /\ work' \in [Workers -> Works] /\ work'[w] = NoWork
        /\ \A x \in Workers : x # w => IF Holds(x, m) THEN Holds(x, m)' /\ work'[x].cut
                                                           /\ (\A k : Holds(x, k)' => k = m)
                                       ELSE work'[x] = work[x]
    <2>1. NoWork \in Works
      BY DEF Works
    <2>2. work' \in [Workers -> Works]
      BY <1>1, <1>2, <2>1
    <2>3. QED
      BY <1>1, <1>2, <2>2 DEF Holds
  <1>4. \A x \in Workers, k \in Missions :
            /\ Holds(x, k)' => Holds(x, k) /\ x # w
            /\ Holds(x, k) /\ x # w => Holds(x, k)'
            /\ k # m => (Holds(x, k)' <=> Holds(x, k)) /\ (Holds(x, k) => work'[x] = work[x])
    BY <1>3 DEF Holds
  <1>5. \A k \in Missions : k # m => (Awaited(k) => Awaited(k)')
    BY JobApart DEF Awaited, missions
  <1>6. \A k \in Missions : k # m => (Pending(k) => Pending(k)')
    BY <1>4, <1>5 DEF Pending, missions
  <1>7. LastInv'
    <2>1. src'[m] = mission'[m] \/ srcWhy'[m] # "none" \/ Pending(m)'
      BY <1>4 DEF Pending, missions
    <2>2. QED
      BY <1>6, <2>1 DEF SourceInv, LastInv, missions
  <1>8. WorkInv'
    <2>1. SUFFICES ASSUME NEW x \in Workers, NEW k \in Missions, Holds(x, k)', ~work'[x].cut
                   PROVE  \/ work'[x].v = mission'[k] \/ Awaited(k)'
                          \/ \E y \in Workers \ {x} : Holds(y, k)'
      BY DEF WorkInv
    <2>2. k # m
      BY <1>3, <1>4, <2>1
    <2>3. Holds(x, k) /\ work'[x] = work[x] /\ mission' = mission
      BY <1>4, <2>1, <2>2 DEF missions
    <2>4. work[x].v = mission[k] \/ Awaited(k) \/ \E y \in Workers \ {x} : Holds(y, k)
      BY <2>1, <2>3 DEF SourceInv, WorkInv
    <2>5. QED
      BY <1>4, <1>5, <2>2, <2>3, <2>4
  <1>9. BeganInv'
    <2>1. \A x \in Workers, k \in Missions : Holds(x, k)' => k \in began' /\ isReg'
      BY <1>4 DEF SourceInv, BeganInv, missions
    <2>2. QED
      BY <2>1 DEF SourceInv, BeganInv, missions
  <1>10. SourceTypes'
    BY <1>3 DEF SourceInv, SourceTypes, missions
  <1>11. QED
    BY <1>7, <1>8, <1>9, <1>10 DEF SourceInv, DeafInv

LEMMA InitGetsSource ==
    ASSUME SourceInv, InitGets
    PROVE  SourceInv'
  <1>1. PICK m \in initList :
            /\ isReg /\ work["InitAllSnapshots"] = NoWork /\ initList' = initList \ {m}
            /\ Gets("InitAllSnapshots", m)
            /\ UNCHANGED <<missions, isReg, later, soon, src, srcWhy>>
    BY DEF InitGets
  <1>2. "InitAllSnapshots" \in Workers /\ m \in Missions /\ soon \in Seq(Jobs)
    BY DEF Workers, SourceInv, SourceTypes
  <1>3. QED
    BY <1>1, <1>2, GetsSource

LEMMA ChangeGetsSource ==
    ASSUME SourceInv, ChangeGets
    PROVE  SourceInv'
  <1> DEFINE w == "MissionSnapshotChanged"
  <1>1. /\ work[w] = NoWork /\ w \in Workers /\ soon \in Seq(Jobs) /\ later \subseteq Missions
        /\ UNCHANGED <<missions, isReg, initList, src, srcWhy>>
    BY DEF ChangeGets, Workers, SourceInv, SourceTypes
  <1>2. CASE /\ soon # <<>> /\ Head(soon).kind = "changed"
             /\ soon' = Tail(soon) /\ later' = later
             /\ Gets(w, Head(soon).m)
    <2>1. PICK j : j = Head(soon)
      OBVIOUS
    <2>2. /\ soon' \in Seq(Jobs) /\ j \in Jobs
          /\ \A y : In(y, soon) <=> In(y, soon') \/ y = j
      BY <1>1, <1>2, <2>1, InTail
    <2>3. PICK m \in Missions : m = j.m /\ j = Job("changed", m)
      BY <1>2, <2>1, <2>2 DEF Jobs, Job
    <2>4. isReg /\ Gets(w, m)
      BY <1>2, <2>1, <2>3 DEF SourceInv, BeganInv
    <2>5. QED
      BY <1>1, <1>2, <2>2, <2>3, <2>4, GetsSource
  <1>3. CASE \E m \in later : later' = later \ {m} /\ soon' = soon /\ Gets(w, m)
    <2>1. PICK m \in later : later' = later \ {m} /\ soon' = soon /\ Gets(w, m)
      BY <1>3
    <2>2. isReg /\ m \in Missions
      BY <1>1, <2>1 DEF SourceInv, BeganInv
    <2>3. QED
      BY <1>1, <2>1, <2>2, GetsSource
  <1>4. QED
    BY <1>2, <1>3 DEF ChangeGets

LEMMA StoresSource ==
    ASSUME SourceInv, NEW w \in Workers, StoreSnapshotInfo(w)
    PROVE  SourceInv'
  <1>1. PICK m \in Missions, v \in Versions : m = work[w].m /\ v = work[w].v
    BY WorkFacts DEF StoreSnapshotInfo, SourceInv
  <1>2. /\ work[w] # NoWork /\ work' = Cut(w, m) /\ Holds(w, m)
        /\ UNCHANGED <<missions, isReg, later, soon, initList>>
    BY <1>1 DEF StoreSnapshotInfo, Holds
  <1>8. isReg
    BY <1>2 DEF SourceInv, BeganInv
  <1>3. /\ src \in [Missions -> Stored] /\ DOMAIN srcWhy = Missions /\ v \in Stored /\ soon \in Seq(Jobs)
    BY DEF SourceInv, SourceTypes, Stored
  <1>4. \A k \in Missions : Holds(w, k) => k = m
    BY <1>1 DEF Holds
  <1>5. CASE srcWhy' = [srcWhy EXCEPT ![m] = "refused"] /\ src' = src
    BY <1>2, <1>3, <1>4, <1>5, <1>8, CutsSource
  <1>6. CASE /\ src' = [src EXCEPT ![m] = v]
             /\ srcWhy' = [srcWhy EXCEPT ![m] = IF work[w].cut THEN "crossed" ELSE "none"]
    <2>1. /\ src' \in [Missions -> Stored] /\ DOMAIN srcWhy' = Missions /\ src'[m] = v
          /\ \A k \in Missions : k # m => src'[k] = src[k] /\ srcWhy'[k] = srcWhy[k]
          /\ work[w].cut => srcWhy'[m] # "none"
      BY <1>3, <1>6
    <2>2. work[w].cut \/ v = mission[m] \/ Awaited(m) \/ \E x \in Workers \ {w} : Holds(x, m)
      BY <1>1, <1>2 DEF SourceInv, WorkInv
    <2>3. Awaited(m)' <=> Awaited(m)
      BY <1>2 DEF Awaited, missions
    <2>4. QED
      BY <1>2, <1>3, <1>4, <1>8, <2>1, <2>2, <2>3, CutsSource
  <1>7. QED
    BY <1>1, <1>5, <1>6 DEF StoreSnapshotInfo, Stores

LEMMA RemovesSource ==
    ASSUME SourceInv, RemoveSnapshotInfo
    PROVE  SourceInv'
  <1> DEFINE w == "MissionSnapshotChanged"
  <1>1. PICK j : j = Head(soon)
    OBVIOUS
  <1>2. /\ work[w] = NoWork /\ w \in Workers /\ soon \in Seq(Jobs) /\ soon # <<>> /\ j.kind = "destroyed"
        /\ soon' = Tail(soon) /\ work' = Cut(w, j.m)
        /\ UNCHANGED <<missions, isReg, later, initList>>
    BY <1>1 DEF RemoveSnapshotInfo, Workers, SourceInv, SourceTypes
  <1>3. /\ soon' \in Seq(Jobs) /\ j \in Jobs
        /\ \A y : In(y, soon) <=> In(y, soon') \/ y = j
    BY <1>1, <1>2, InTail
  <1>4. PICK m \in Missions : m = j.m /\ j = Job("destroyed", m)
    BY <1>2, <1>3 DEF Jobs, Job
  <1>5. mission[m] = NoSnapshot
    BY <1>3, <1>4 DEF SourceInv, BeganInv
  <1>6. src \in [Missions -> Stored] /\ DOMAIN srcWhy = Missions /\ NoSnapshot \in Stored
    BY DEF SourceInv, SourceTypes, Stored
  <1>7. \A k \in Missions : ~Holds(w, k)
    BY <1>2 DEF Holds
  <1>8. /\ src' \in [Missions -> Stored] /\ DOMAIN srcWhy' = Missions
        /\ src'[m] = NoSnapshot \/ srcWhy'[m] # "none"
        /\ \A k \in Missions : k # m => src'[k] = src[k] /\ srcWhy'[k] = srcWhy[k]
    <2>1. CASE srcWhy' = [srcWhy EXCEPT ![m] = "refused"] /\ src' = src
      BY <1>6, <2>1
    <2>2. CASE srcWhy' = [srcWhy EXCEPT ![m] = "none"] /\ src' = [src EXCEPT ![m] = NoSnapshot]
      BY <1>6, <2>2
    <2>3. QED
      BY <1>1, <1>4, <2>1, <2>2 DEF RemoveSnapshotInfo, Stores
  <1>10. isReg
    BY <1>2 DEF SourceInv, BeganInv
  <1>9. QED
    BY <1>2, <1>3, <1>4, <1>5, <1>7, <1>8, <1>10, CutsSource

LEMMA NextSource ==
    ASSUME SourceInv, [Next]_vars
    PROVE  SourceInv'
  <1>1. CASE UNCHANGED source
    BY <1>1 DEF source, missions, handlers, SourceInv, SourceTypes, BeganInv, WorkInv, LastInv, DeafInv, Pending, Awaited, Holds
  <1>2. CASE RegisterMissionListener
    BY <1>2 DEF RegisterMissionListener, missions, SourceInv, SourceTypes, BeganInv, WorkInv, LastInv, DeafInv, Pending,
                Awaited, Holds
  <1>3. CASE SourceSteps
    BY <1>2, <1>3, Notifies, NotifiesSource, InitGetsSource, ChangeGetsSource, StoresSource, RemovesSource
       DEF SourceSteps
  <1>4. CASE KvSteps \/ ClientSteps
    BY <1>1, <1>4, KvOnly, ClientOnly
  <1>5. CASE UNCHANGED vars
    BY <1>1, <1>5 DEF vars
  <1>6. CASE UNCHANGED <<source, kv, connection, snapshots, cleaning>>
    BY <1>1, <1>6
  <1>7. QED
    BY <1>3, <1>4, <1>5, <1>6 DEF Next, OnDevices

-----------------------------------------------------------------------------
(* The store of the other device and what was read of it.  A snapshot that was *)
(* read is the one in the store, or a notification still to be handled drops   *)
(* it; the exceptions are noted in it.                                         *)
Whys == {"none", "deaf", "overlapped", "ignored", "kept"}
Snaps == [v : Versions, why : Whys]
Reads == [m : Missions, n : NetIds, snapshot : Snaps]
Batches == [inserts : SUBSET Missions, deletes : SUBSET Missions, updates : SUBSET Missions]

CopyTypes ==
    /\ store \in [Missions -> Stored] /\ unsent \subseteq Missions
    /\ changes \in Seq(Batches)
    /\ cache \in [Missions -> Snaps \union {Absent}]
    /\ reading \in [Readers -> Reads \union {NotReading}]

Told(m) == \E b \in Batches : In(b, changes) /\ m \in b.deletes \union b.updates
Current(s, m) == s.why # "none" \/ s.v = store[m] \/ Told(m)
CachedInv == \A m \in Missions, s \in Snaps : cache[m] = s => Current(s, m)
ReadInv == \A r \in Readers, c \in Reads : reading[r] = c => Current(c.snapshot, c.m)
SentInv == \A m \in Missions : store[m] = src[m] \/ m \in unsent

CopyInv == CopyTypes /\ CachedInv /\ ReadInv /\ SentInv

LEMMA SnapFacts ==
    /\ Absent \notin Snaps /\ NotReading \notin Reads
    /\ \A s \in Snaps : s.v \in Versions /\ s.v # NoSnapshot /\ s.why \in Whys /\ s.v \in Stored
    /\ \A v \in Versions, why \in Whys :
          Snapshot(v, why) \in Snaps /\ Snapshot(v, why).v = v /\ Snapshot(v, why).why = why
    /\ \A c \in Reads, s \in Snaps :
          /\ [c EXCEPT !.snapshot = s] \in Reads
          /\ [c EXCEPT !.snapshot = s].snapshot = s /\ [c EXCEPT !.snapshot = s].m = c.m
          /\ [c EXCEPT !.snapshot = s].n = c.n
    /\ \A c \in Reads : c.m \in Missions /\ c.n \in NetIds /\ c.snapshot \in Snaps
  <1>1. \A s \in Snaps : s.v \in Versions /\ s.v # NoSnapshot /\ s.why \in Whys /\ s.v \in Stored
    BY CacheAssumption DEF Snaps, Versions, NoSnapshot, Stored
  <1>2. Absent \notin Snaps
    BY <1>1 DEF Absent, Snapshot
  <1>3. NotReading \notin Reads
    <2>1. NotReading.snapshot = Absent
      BY DEF NotReading
    <2>2. QED
      BY <1>2, <2>1 DEF Reads
  <1>4. \A v \in Versions, why \in Whys :
          Snapshot(v, why) \in Snaps /\ Snapshot(v, why).v = v /\ Snapshot(v, why).why = why
    BY DEF Snapshot, Snaps
  <1>5. \A c \in Reads, s \in Snaps :
          /\ [c EXCEPT !.snapshot = s] \in Reads
          /\ [c EXCEPT !.snapshot = s].snapshot = s /\ [c EXCEPT !.snapshot = s].m = c.m
          /\ [c EXCEPT !.snapshot = s].n = c.n
    BY DEF Reads
  <1>6. \A c \in Reads : c.m \in Missions /\ c.n \in NetIds /\ c.snapshot \in Snaps
    BY DEF Reads
  <1>7. QED
    BY <1>1, <1>2, <1>3, <1>4, <1>5, <1>6

LEMMA MarkedFacts ==
    ASSUME CopyTypes, NEW K, NEW why \in Whys, why # "none"
    PROVE  /\ Marked(K, why) \in [Missions -> Snaps \union {Absent}]
           /\ \A m \in Missions : /\ Marked(K, why)[m] = Absent <=> cache[m] = Absent
                                  /\ m \in K /\ cache[m] # Absent => Marked(K, why)[m].why # "none"
                                  /\ m \notin K => Marked(K, why)[m] = cache[m]
  <1>1. PICK c : c = Marked(K, why)
    OBVIOUS
  <1>2. \A m \in Missions : c[m] = IF m \in K /\ cache[m] # Absent THEN Snapshot(cache[m].v, why) ELSE cache[m]
    BY <1>1 DEF Marked
  <1>3. \A m \in Missions : cache[m] # Absent => cache[m] \in Snaps
    BY DEF CopyTypes
  <1>4. \A m \in Missions : cache[m] # Absent => /\ Snapshot(cache[m].v, why) \in Snaps
                                                 /\ Snapshot(cache[m].v, why) # Absent
                                                 /\ Snapshot(cache[m].v, why).why # "none"
    BY <1>3, SnapFacts
  <1>5. \A m \in Missions : c[m] \in Snaps \union {Absent}
    BY <1>2, <1>3, <1>4
  <1>6. c \in [Missions -> Snaps \union {Absent}]
    BY <1>1, <1>5 DEF Marked
  <1>7. QED
    BY <1>1, <1>2, <1>4, <1>6

LEMMA MarkedReadingFacts ==
    ASSUME CopyTypes, NEW K, NEW why \in Whys, why # "none"
    PROVE  /\ MarkedReading(K, why) \in [Readers -> Reads \union {NotReading}]
           /\ \A r \in Readers :
                 /\ MarkedReading(K, why)[r] = NotReading <=> reading[r] = NotReading
                 /\ reading[r] # NotReading =>
                       /\ MarkedReading(K, why)[r].m = reading[r].m
                       /\ reading[r].m \in K => MarkedReading(K, why)[r].snapshot.why # "none"
                       /\ reading[r].m \notin K => MarkedReading(K, why)[r] = reading[r]
  <1>1. PICK c : c = MarkedReading(K, why)
    OBVIOUS
  <1>2. \A r \in Readers : c[r] = IF reading[r] # NotReading /\ reading[r].m \in K
                                  THEN [reading[r] EXCEPT !.snapshot = Snapshot(reading[r].snapshot.v, why)]
                                  ELSE reading[r]
    BY <1>1 DEF MarkedReading
  <1>3. \A r \in Readers : reading[r] # NotReading => reading[r] \in Reads
    BY DEF CopyTypes
  <1>4. \A r \in Readers : reading[r] # NotReading =>
            /\ Snapshot(reading[r].snapshot.v, why) \in Snaps
            /\ Snapshot(reading[r].snapshot.v, why).why = why
    BY <1>3, SnapFacts
  <1>5. \A r \in Readers : reading[r] # NotReading /\ reading[r].m \in K =>
            /\ c[r] \in Reads /\ c[r].m = reading[r].m /\ c[r].snapshot.why # "none"
    <2>1. SUFFICES ASSUME NEW r \in Readers, reading[r] # NotReading, reading[r].m \in K
                   PROVE  /\ c[r] \in Reads /\ c[r].m = reading[r].m /\ c[r].snapshot.why # "none"
      OBVIOUS
    <2>2. PICK s \in Snaps : s = Snapshot(reading[r].snapshot.v, why) /\ s.why = why
      BY <1>4, <2>1
    <2>3. PICK d \in Reads : d = reading[r]
      BY <1>3, <2>1
    <2>4. c[r] = [d EXCEPT !.snapshot = s]
      BY <1>2, <2>1, <2>2, <2>3
    <2>5. [d EXCEPT !.snapshot = s] \in Reads /\ [d EXCEPT !.snapshot = s].snapshot = s
          /\ [d EXCEPT !.snapshot = s].m = d.m
      BY SnapFacts
    <2>6. QED
      BY <2>2, <2>3, <2>4, <2>5
  <1>6. \A r \in Readers : c[r] \in Reads \union {NotReading}
    BY <1>2, <1>3, <1>5
  <1>7. c \in [Readers -> Reads \union {NotReading}]
    BY <1>1, <1>6 DEF MarkedReading
  <1>8. \A r \in Readers : c[r] = NotReading <=> reading[r] = NotReading
    BY <1>2, <1>5, SnapFacts
  <1>9. QED
    BY <1>1, <1>2, <1>5, <1>7, <1>8

(* The snapshots of the missions in K are marked, or K has what changed. *)
LEMMA MarksCopy ==
    ASSUME CopyInv, NEW K, NEW why \in Whys, why # "none",
           cache' = Marked(K, why), reading' = MarkedReading(K, why),
           \A m \in Missions : m \notin K => store'[m] = store[m] /\ (Told(m) => Told(m)')
    PROVE  CachedInv' /\ ReadInv'
  <1>1. CachedInv'
    <2>1. SUFFICES ASSUME NEW m \in Missions, NEW s \in Snaps, cache'[m] = s PROVE Current(s, m)'
      BY DEF CachedInv
    <2>2. s # Absent /\ cache[m] # Absent
      BY <2>1, MarkedFacts, SnapFacts DEF CopyInv
    <2>3. CASE m \in K
      <3>1. s.why # "none"
        BY <2>1, <2>2, <2>3, MarkedFacts DEF CopyInv
      <3>2. QED
        BY <3>1 DEF Current
    <2>4. CASE m \notin K
      <3>1. cache[m] = s
        BY <2>1, <2>4, MarkedFacts DEF CopyInv
      <3>2. Current(s, m)
        BY <3>1 DEF CopyInv, CachedInv
      <3>3. QED
        BY <2>4, <3>2 DEF Current
    <2>5. QED
      BY <2>3, <2>4
  <1>2. ReadInv'
    <2>1. SUFFICES ASSUME NEW r \in Readers, NEW c \in Reads, reading'[r] = c
                   PROVE  Current(c.snapshot, c.m)'
      BY DEF ReadInv
    <2>2. reading[r] # NotReading /\ c.m = reading[r].m /\ c.m \in Missions
      BY <2>1, MarkedReadingFacts, SnapFacts DEF CopyInv
    <2>3. CASE c.m \in K
      <3>1. c.snapshot.why # "none"
        BY <2>1, <2>2, <2>3, MarkedReadingFacts DEF CopyInv
      <3>2. QED
        BY <3>1 DEF Current
    <2>4. CASE c.m \notin K
      <3>1. reading[r] = c
        BY <2>1, <2>2, <2>4, MarkedReadingFacts DEF CopyInv
      <3>2. Current(c.snapshot, c.m)
        BY <3>1 DEF CopyInv, ReadInv
      <3>3. QED
        BY <2>2, <2>4, <3>2 DEF Current
    <2>5. QED
      BY <2>3, <2>4
  <1>3. QED
    BY <1>1, <1>2

(* What was read is left alone, and stays current. *)
LEMMA KeepsCopy ==
    ASSUME CopyInv, UNCHANGED snapshots,
           \A m \in Missions, v \in Versions : v = store[m] \/ Told(m) => v = store'[m] \/ Told(m)'
    PROVE  CachedInv' /\ ReadInv'
  <1>1. \A m \in Missions, s \in Snaps : Current(s, m) => Current(s, m)'
    BY SnapFacts DEF Current
  <1>2. CachedInv'
    BY <1>1 DEF CopyInv, CachedInv, snapshots
  <1>3. ReadInv'
    BY <1>1, SnapFacts DEF CopyInv, ReadInv, snapshots
  <1>4. QED
    BY <1>2, <1>3

LEMMA StoresOne ==
    ASSUME SourceInv, SourceSteps
    PROVE  UNCHANGED <<src, unsent>> \/ \E m \in Missions, v \in Stored : Stores(m, v)
  <1>1. CASE NotifyMissionSnapshotCreated \/ NotifyMissionSnapshotChanged \/ NotifyMissionSnapshotDestroyed
    BY <1>1 DEF NotifyMissionSnapshotCreated, NotifyMissionSnapshotChanged, NotifyMissionSnapshotDestroyed, kv
  <1>2. CASE RegisterMissionListener \/ InitGets \/ ChangeGets
    BY <1>2 DEF RegisterMissionListener, InitGets, ChangeGets, kv
  <1>3. CASE \E w \in Workers : StoreSnapshotInfo(w)
    <2>1. PICK w \in Workers : StoreSnapshotInfo(w)
      BY <1>3
    <2>2. PICK m \in Missions, v \in Stored : m = work[w].m /\ v = work[w].v
      BY <2>1, WorkFacts DEF StoreSnapshotInfo, SourceInv, Stored
    <2>3. QED
      BY <2>1, <2>2 DEF StoreSnapshotInfo
  <1>4. CASE RemoveSnapshotInfo
    <2>1. PICK j : j = Head(soon)
      OBVIOUS
    <2>2. j \in Jobs
      BY <1>4, <2>1, InTail DEF RemoveSnapshotInfo, SourceInv, SourceTypes
    <2>3. PICK m \in Missions : m = j.m
      BY <2>2 DEF Jobs
    <2>4. NoSnapshot \in Stored
      BY DEF Stored
    <2>5. QED
      BY <1>4, <2>1, <2>3, <2>4 DEF RemoveSnapshotInfo
  <1>5. QED
    BY <1>1, <1>2, <1>3, <1>4 DEF SourceSteps

LEMMA SourceCopy ==
    ASSUME SourceInv, CopyInv, SourceSteps
    PROVE  CopyInv'
  <1>1. UNCHANGED <<store, changes, cache, reading>>
    BY SourceOnly DEF snapshots
  <1>2. CachedInv' /\ ReadInv'
    BY <1>1, KeepsCopy DEF Told, snapshots
  <1>3. unsent' \subseteq Missions /\ SentInv'
    <2>1. CASE UNCHANGED <<src, unsent>>
      BY <1>1, <2>1 DEF CopyInv, CopyTypes, SentInv
    <2>2. CASE \E m \in Missions, v \in Stored : Stores(m, v)
      <3>1. PICK m \in Missions, v \in Stored : Stores(m, v)
        BY <2>2
      <3>2. /\ src'[m] = v /\ \A k \in Missions : k # m => src'[k] = src[k]
            /\ unsent' = unsent \union (IF src[m] = v THEN {} ELSE {m})
        BY <3>1 DEF Stores, SourceInv, SourceTypes
      <3>3. QED
        BY <1>1, <3>2 DEF CopyInv, CopyTypes, SentInv
    <2>3. QED
      BY <2>1, <2>2, StoresOne
  <1>4. CopyTypes'
    BY <1>1, <1>3 DEF CopyInv, CopyTypes
  <1>5. QED
    BY <1>2, <1>3, <1>4 DEF CopyInv

LEMMA SynchronisesCopy ==
    ASSUME SourceInv, CopyInv, Synchronises
    PROVE  CopyInv'
  <1>1. PICK K \in SUBSET unsent :
            /\ unsent' = unsent \ K
            /\ store' = [m \in Missions |-> IF m \in K THEN src[m] ELSE store[m]]
            /\ LET batch == [inserts |-> {m \in K : store[m] = NoSnapshot /\ src[m] # NoSnapshot},
                             deletes |-> {m \in K : store[m] # NoSnapshot /\ src[m] = NoSnapshot},
                             updates |-> {m \in K : store[m] # NoSnapshot /\ src[m] # NoSnapshot}]
               IN  \/ changes' = Append(changes, batch) /\ UNCHANGED snapshots
                   \/ changes' = changes /\ cache' = Marked(K, "deaf") /\ reading' = MarkedReading(K, "deaf")
    BY DEF Synchronises
  <1>2. src' = src /\ src \in [Missions -> Stored] /\ K \subseteq Missions
    BY DEF Synchronises, source, handlers, SourceInv, SourceTypes, CopyInv, CopyTypes
  <1>3. PICK batch \in Batches :
            /\ batch.deletes \union batch.updates = {m \in K : store[m] # NoSnapshot}
            /\ \/ changes' = Append(changes, batch) /\ UNCHANGED snapshots
               \/ changes' = changes /\ cache' = Marked(K, "deaf") /\ reading' = MarkedReading(K, "deaf")
    <2>1. PICK batch :
             batch = [inserts |-> {m \in K : store[m] = NoSnapshot /\ src[m] # NoSnapshot},
                      deletes |-> {m \in K : store[m] # NoSnapshot /\ src[m] = NoSnapshot},
                      updates |-> {m \in K : store[m] # NoSnapshot /\ src[m] # NoSnapshot}]
      OBVIOUS
    <2>2. batch \in Batches
      BY <1>2, <2>1 DEF Batches
    <2>3. batch.deletes \union batch.updates = {m \in K : store[m] # NoSnapshot}
      BY <2>1
    <2>4. QED
      BY <1>1, <2>1, <2>2, <2>3
  <1>4. /\ store' \in [Missions -> Stored] /\ unsent' \subseteq Missions /\ SentInv'
        /\ \A m \in Missions : m \notin K => store'[m] = store[m]
    BY <1>1, <1>2 DEF CopyInv, CopyTypes, SentInv
  <1>5. CASE changes' = Append(changes, batch) /\ UNCHANGED snapshots
    <2>1. /\ changes' \in Seq(Batches)
          /\ \A b : In(b, changes') <=> In(b, changes) \/ b = batch
      BY <1>5, InAppended DEF CopyInv, CopyTypes
    <2>2. \A m \in Missions : Told(m) => Told(m)'
      BY <2>1 DEF Told
    <2>3. \A m \in K : store[m] # NoSnapshot => Told(m)'
      BY <1>3, <2>1 DEF Told
    <2>4. \A v \in Versions : v # NoSnapshot
      BY CacheAssumption DEF Versions, NoSnapshot
    <2>5. CachedInv' /\ ReadInv'
      <3>1. \A m \in Missions, v \in Versions : v = store[m] \/ Told(m) => v = store'[m] \/ Told(m)'
        BY <1>4, <2>2, <2>3, <2>4
      <3>2. QED
        BY <1>5, <3>1, KeepsCopy
    <2>6. CopyTypes'
      BY <1>4, <1>5, <2>1 DEF CopyInv, CopyTypes, snapshots
    <2>7. QED
      BY <1>4, <2>5, <2>6 DEF CopyInv
  <1>6. CASE changes' = changes /\ cache' = Marked(K, "deaf") /\ reading' = MarkedReading(K, "deaf")
    <2>1. "deaf" \in Whys
      BY DEF Whys
    <2>2. CachedInv' /\ ReadInv'
      BY <1>4, <1>6, <2>1, MarksCopy DEF Told
    <2>3. CopyTypes'
      BY <1>4, <1>6, <2>1, MarkedFacts, MarkedReadingFacts DEF CopyInv, CopyTypes
    <2>4. QED
      BY <1>4, <2>2, <2>3 DEF CopyInv
  <1>7. QED
    BY <1>3, <1>5, <1>6

LEMMA OnChangeCopy ==
    ASSUME SourceInv, CopyInv, OnChange
    PROVE  CopyInv'
  <1>1. PICK b : b = Head(changes)
    OBVIOUS
  <1> DEFINE drops == IF GetNetworkIdByUuid = None /\ Head(changes).inserts # {} THEN {}
                      ELSE IF GetNetworkIdByUuid = None THEN Head(changes).deletes
                      ELSE Head(changes).deletes \union Head(changes).updates
             ignores == (Head(changes).deletes \union Head(changes).updates) \ drops
  <1>2. /\ ignores = (b.deletes \union b.updates) \ drops
        /\ drops \subseteq b.deletes \union b.updates
        /\ changes # <<>> /\ changes' = Tail(changes) /\ UNCHANGED <<src, store, unsent>>
        /\ cache' = [m \in Missions |-> IF m \in drops THEN Absent ELSE Marked(ignores, "ignored")[m]]
        /\ reading' = [r \in Readers |-> IF reading[r].m \in drops THEN MarkedReading(drops, "overlapped")[r]
                                         ELSE MarkedReading(ignores, "ignored")[r]]
    <2>1. /\ ignores = (b.deletes \union b.updates) \ drops
          /\ drops \subseteq b.deletes \union b.updates
      BY <1>1
    <2>2. changes # <<>> /\ changes' = Tail(changes) /\ UNCHANGED <<src, store, unsent>>
      BY DEF OnChange, source, handlers
    <2>3. cache' = [m \in Missions |-> IF m \in drops THEN Absent ELSE Marked(ignores, "ignored")[m]]
      BY DEF OnChange
    <2>4. reading' = [r \in Readers |-> IF reading[r].m \in drops THEN MarkedReading(drops, "overlapped")[r]
                                        ELSE MarkedReading(ignores, "ignored")[r]]
      BY DEF OnChange
    <2>5. QED
      BY <2>1, <2>2, <2>3, <2>4
  <1> HIDE DEF drops, ignores
  <1>3. /\ changes' \in Seq(Batches)
        /\ \A y : In(y, changes) <=> In(y, changes') \/ y = b
    BY <1>1, <1>2, InTail DEF CopyInv, CopyTypes
  <1>4. \A m \in Missions : m \notin b.deletes \union b.updates => (Told(m) => Told(m)')
    BY <1>3 DEF Told
  <1>5. "ignored" \in Whys /\ "overlapped" \in Whys
    BY DEF Whys
  <1>6. /\ Marked(ignores, "ignored") \in [Missions -> Snaps \union {Absent}]
        /\ MarkedReading(ignores, "ignored") \in [Readers -> Reads \union {NotReading}]
        /\ MarkedReading(drops, "overlapped") \in [Readers -> Reads \union {NotReading}]
    BY <1>5, MarkedFacts, MarkedReadingFacts DEF CopyInv
  <1>7. CopyTypes' /\ SentInv'
    BY <1>2, <1>3, <1>6 DEF CopyInv, CopyTypes, SentInv
  <1>8. CachedInv'
    <2>1. SUFFICES ASSUME NEW m \in Missions, NEW s \in Snaps, cache'[m] = s PROVE Current(s, m)'
      BY DEF CachedInv
    <2>2. m \notin drops /\ s = Marked(ignores, "ignored")[m] /\ s # Absent
      BY <1>2, <2>1, SnapFacts
    <2>3. CASE m \in ignores
      <3>1. s.why # "none"
        BY <1>5, <2>2, <2>3, MarkedFacts DEF CopyInv
      <3>2. QED
        BY <3>1 DEF Current
    <2>4. CASE m \notin ignores
      <3>1. cache[m] = s
        BY <1>5, <2>2, <2>4, MarkedFacts DEF CopyInv
      <3>2. Current(s, m) /\ (Told(m) => Told(m)') /\ store' = store
        BY <1>2, <1>4, <2>2, <2>4, <3>1 DEF CopyInv, CachedInv
      <3>3. QED
        BY <3>2 DEF Current
    <2>5. QED
      BY <2>3, <2>4
  <1>9. ReadInv'
    <2>1. SUFFICES ASSUME NEW r \in Readers, NEW c \in Reads, reading'[r] = c
                   PROVE  Current(c.snapshot, c.m)'
      BY DEF ReadInv
    <2>2. c # NotReading /\ c.m \in Missions
      BY SnapFacts
    <2>3. CASE reading[r].m \in drops
      <3>1. c = MarkedReading(drops, "overlapped")[r]
        BY <1>2, <2>1, <2>3
      <3>2. c.snapshot.why # "none"
        BY <1>5, <2>2, <2>3, <3>1, MarkedReadingFacts DEF CopyInv
      <3>3. QED
        BY <3>2 DEF Current
    <2>4. CASE reading[r].m \notin drops
      <3>1. c = MarkedReading(ignores, "ignored")[r]
        BY <1>2, <2>1, <2>4
      <3>2. reading[r] # NotReading /\ reading[r].m = c.m
        BY <1>5, <2>2, <3>1, MarkedReadingFacts DEF CopyInv
      <3>3. CASE c.m \in ignores
        <4>1. c.snapshot.why # "none"
          BY <1>5, <3>1, <3>2, <3>3, MarkedReadingFacts DEF CopyInv
        <4>2. QED
          BY <4>1 DEF Current
      <3>4. CASE c.m \notin ignores
        <4>1. reading[r] = c
          BY <1>5, <3>1, <3>2, <3>4, MarkedReadingFacts DEF CopyInv
        <4>2. Current(c.snapshot, c.m) /\ (Told(c.m) => Told(c.m)') /\ store' = store
          BY <1>2, <1>4, <2>2, <2>4, <3>2, <3>4, <4>1 DEF CopyInv, ReadInv
        <4>3. QED
          BY <4>2 DEF Current
      <3>5. QED
        BY <3>3, <3>4
    <2>5. QED
      BY <2>3, <2>4
  <1>10. QED
    BY <1>7, <1>8, <1>9 DEF CopyInv
LEMMA KvDiesCopy ==
    ASSUME CopyInv, KvDies
    PROVE  CopyInv'
  <1>1. UNCHANGED <<src, store, unsent>>
    BY Zenon DEF KvDies, source, handlers
  <1>2. SentInv'
    BY <1>1 DEF CopyInv, SentInv
  <1>3. CASE UNCHANGED <<changes, snapshots>>
    <2>1. CopyTypes'
      BY <1>1, <1>3 DEF CopyInv, CopyTypes, snapshots
    <2>2. CachedInv' /\ ReadInv'
      BY <1>1, <1>3, KeepsCopy DEF Told
    <2>3. QED
      BY <1>2, <2>1, <2>2 DEF CopyInv
  <1> DEFINE K == UNION {b.inserts \union b.deletes \union b.updates : b \in Range(changes)}
  <1>4. CASE changes' = <<>> /\ cache' = Marked(K, "deaf") /\ reading' = MarkedReading(K, "deaf")
    <2>2. "deaf" \in Whys
      BY DEF Whys
    <2>3. \A m \in Missions : Told(m) => m \in K
      <3>1. SUFFICES ASSUME NEW m \in Missions, NEW b \in Batches, In(b, changes), m \in b.deletes \union b.updates
                     PROVE  m \in K
        BY DEF Told
      <3>2. b \in Range(changes)
        BY <3>1 DEF In, Range, CopyInv, CopyTypes
      <3>3. QED
        BY <3>1, <3>2
    <2> HIDE DEF K
    <2>4. CachedInv' /\ ReadInv'
      BY <1>1, <1>4, <2>2, <2>3, MarksCopy
    <2>5. changes' \in Seq(Batches)
      BY <1>4
    <2>6. CopyTypes'
      BY <1>1, <1>4, <2>2, <2>5, MarkedFacts, MarkedReadingFacts DEF CopyInv, CopyTypes
    <2>7. QED
      BY <1>2, <2>4, <2>6 DEF CopyInv
  <1>5. QED
    BY <1>3, <1>4, Zenon DEF KvDies

LEMMA FuzzyDeleteCopy ==
    ASSUME SourceInv, CopyInv, FuzzyDelete
    PROVE  CopyInv'
  <1>1. src' = src /\ changes' = changes
    BY DEF FuzzyDelete, source, handlers
  <1>2. CASE UNCHANGED <<store, unsent, snapshots>>
    <2>1. CopyTypes' /\ SentInv'
      BY <1>1, <1>2 DEF CopyInv, CopyTypes, SentInv, snapshots
    <2>2. CachedInv' /\ ReadInv'
      BY <1>1, <1>2, KeepsCopy DEF Told
    <2>3. QED
      BY <2>1, <2>2 DEF CopyInv
  <1>3. CASE /\ store' = [m \in Missions |-> NoSnapshot]
             /\ unsent' = unsent \union {m \in Missions : src[m] # NoSnapshot}
             /\ cache' = Marked(Missions, "kept") /\ reading' = MarkedReading(Missions, "kept")
    <2>1. "kept" \in Whys
      BY DEF Whys
    <2>2. CachedInv' /\ ReadInv'
      BY <1>3, <2>1, MarksCopy
    <2>3. CopyTypes'
      BY <1>1, <1>3, <2>1, MarkedFacts, MarkedReadingFacts DEF CopyInv, CopyTypes, Stored
    <2>4. SentInv'
      BY <1>1, <1>3 DEF CopyInv, SentInv
    <2>5. QED
      BY <2>2, <2>3, <2>4 DEF CopyInv
  <1>4. QED
    BY <1>2, <1>3 DEF FuzzyDelete

(* What is in the cache and what readers hold changes, and is current. *)
LEMMA PassesCopy ==
    ASSUME CopyInv, UNCHANGED <<src, store, unsent, changes>>,
           cache' \in [Missions -> Snaps \union {Absent}],
           reading' \in [Readers -> Reads \union {NotReading}],
           \A m \in Missions, s \in Snaps : cache'[m] = s => Current(s, m),
           \A r \in Readers, c \in Reads : reading'[r] = c => Current(c.snapshot, c.m)
    PROVE  CopyInv'
  <1>1. CopyTypes' /\ SentInv'
    BY DEF CopyInv, CopyTypes, SentInv
  <1>2. \A m, s : Current(s, m) => Current(s, m)'
    BY DEF Current, Told
  <1>3. CachedInv' /\ ReadInv'
    BY <1>2 DEF CachedInv, ReadInv
  <1>4. QED
    BY <1>1, <1>3 DEF CopyInv

LEMMA DequeuedFacts ==
    ASSUME CopyTypes, NEW K
    PROVE  /\ Dequeued(K) \in [Missions -> Snaps \union {Absent}]
           /\ \A m \in Missions : Dequeued(K)[m] = IF m \in K THEN Absent ELSE cache[m]
  BY DEF Dequeued, CopyTypes

LEMMA StopsCopy ==
    ASSUME CopyInv, NEW n, NEW by, StopsSync(n, by), UNCHANGED <<src, store, unsent, changes>>
    PROVE  CopyInv'
  <1>1. /\ cache' = cache \/ cache' = Dequeued(Missions)
        /\ reading' = reading
    BY DEF StopsSync
  <1>2. /\ cache' \in [Missions -> Snaps \union {Absent}]
        /\ \A m \in Missions : cache'[m] = cache[m] \/ cache'[m] = Absent
    BY <1>1, DequeuedFacts DEF CopyInv, CopyTypes
  <1>3. \A m \in Missions, s \in Snaps : cache'[m] = s => Current(s, m)
    BY <1>2, SnapFacts DEF CopyInv, CachedInv
  <1>4. reading' \in [Readers -> Reads \union {NotReading}]
        /\ \A r \in Readers, c \in Reads : reading'[r] = c => Current(c.snapshot, c.m)
    BY <1>1 DEF CopyInv, CopyTypes, ReadInv
  <1>5. QED
    BY <1>2, <1>3, <1>4, PassesCopy

LEMMA GetsCopy ==
    ASSUME CopyInv, NEW r \in Readers, GetRemoteMissionSnapshotInfo(r)
    PROVE  CopyInv'
  <1>1. UNCHANGED <<src, store, unsent, changes>>
    BY DEF GetRemoteMissionSnapshotInfo, source, handlers, kv
  <1>2. PICK n \in NetIds, m \in Missions :
           \/ UNCHANGED snapshots
           \/ /\ cache[m] # Absent /\ reading' = [reading EXCEPT ![r] = [m |-> m, n |-> n, snapshot |-> cache[m]]]
              /\ cache' = Dequeued({m})
           \/ /\ store[m] # NoSnapshot /\ cache' = cache
              /\ reading' = [reading EXCEPT ![r] = [m |-> m, n |-> n, snapshot |-> Snapshot(store[m], "none")]]
    BY DEF GetRemoteMissionSnapshotInfo, snapshots
  <1>3. CASE UNCHANGED snapshots
    BY <1>1, <1>3, PassesCopy DEF CopyInv, CopyTypes, CachedInv, ReadInv, snapshots
  <1>4. ASSUME NEW s \in Snaps, Current(s, m), cache' = cache \/ cache' = Dequeued({m}),
               reading' = [reading EXCEPT ![r] = [m |-> m, n |-> n, snapshot |-> s]]
        PROVE  CopyInv'
    <2>1. PICK d \in Reads : d = [m |-> m, n |-> n, snapshot |-> s]
      BY DEF Reads
    <2>2. d.m = m /\ d.snapshot = s
      BY <2>1
    <2>3. /\ reading' \in [Readers -> Reads \union {NotReading}]
          /\ \A x \in Readers : reading'[x] = IF x = r THEN d ELSE reading[x]
      BY <1>4, <2>1 DEF CopyInv, CopyTypes
    <2>4. \A x \in Readers, c \in Reads : reading'[x] = c => Current(c.snapshot, c.m)
      BY <1>4, <2>2, <2>3 DEF CopyInv, ReadInv
    <2>5. /\ cache' \in [Missions -> Snaps \union {Absent}]
          /\ \A k \in Missions : cache'[k] = cache[k] \/ cache'[k] = Absent
      BY <1>4, DequeuedFacts DEF CopyInv, CopyTypes
    <2>6. \A k \in Missions, t \in Snaps : cache'[k] = t => Current(t, k)
      BY <2>5, SnapFacts DEF CopyInv, CachedInv
    <2>7. QED
      BY <1>1, <2>3, <2>4, <2>5, <2>6, PassesCopy
  <1>5. CASE cache[m] # Absent /\ reading' = [reading EXCEPT ![r] = [m |-> m, n |-> n, snapshot |-> cache[m]]]
             /\ cache' = Dequeued({m})
    <2>1. cache[m] \in Snaps /\ Current(cache[m], m)
      BY <1>5 DEF CopyInv, CopyTypes, CachedInv
    <2>2. QED
      BY <1>4, <1>5, <2>1
  <1>6. CASE store[m] # NoSnapshot /\ cache' = cache
             /\ reading' = [reading EXCEPT ![r] = [m |-> m, n |-> n, snapshot |-> Snapshot(store[m], "none")]]
    <2>1. PICK s : s = Snapshot(store[m], "none")
      OBVIOUS
    <2>2. store[m] \in Versions /\ "none" \in Whys
      BY <1>6 DEF CopyInv, CopyTypes, Stored, Whys
    <2>3. s \in Snaps /\ s.v = store[m]
      BY <2>1, <2>2, SnapFacts
    <2>4. Current(s, m)
      BY <2>3 DEF Current
    <2>5. QED
      BY <1>4, <1>6, <2>1, <2>3, <2>4
  <1>7. QED
    BY <1>2, <1>3, <1>5, <1>6

(* The cache makes room, and takes the snapshot of the reader. *)
LEMMA EnqueuedFacts ==
    ASSUME CopyInv, NEW r \in Readers, EnqueueCachedSnapshotInfo(r)
    PROVE  /\ reading[r] \in Reads /\ reading' = [reading EXCEPT ![r] = NotReading]
           /\ \/ cache' = cache
              \/ \E K \in SUBSET InCache :
                    /\ Cardinality(InCache) = MAX_CACHED_ITEM => K = {m \in InCache : \A k \in InCache : m <= k}
                    /\ cache' \in [Missions -> Snaps \union {Absent}]
                    /\ \A m \in Missions : cache'[m] = IF m = reading[r].m THEN reading[r].snapshot
                                                       ELSE IF m \in K THEN Absent ELSE cache[m]
  <1>1. /\ reading[r] # NotReading /\ reading' = [reading EXCEPT ![r] = NotReading]
        /\ reading[r] \in Reads
    BY DEF EnqueueCachedSnapshotInfo, CopyInv, CopyTypes
  <1> DEFINE least == {m \in InCache : \A k \in InCache : m <= k}
  <1>2. CASE cache' = cache
    BY <1>1, <1>2
  <1>3. ASSUME cache' # cache
        PROVE  cache' = [(IF Cardinality(InCache) = MAX_CACHED_ITEM THEN Dequeued(least) ELSE cache)
                            EXCEPT ![reading[r].m] = reading[r].snapshot]
    BY <1>3 DEF EnqueueCachedSnapshotInfo
  <1>4. ASSUME cache' # cache
        PROVE  \E K \in SUBSET InCache :
                    /\ Cardinality(InCache) = MAX_CACHED_ITEM => K = least
                    /\ cache' \in [Missions -> Snaps \union {Absent}]
                    /\ \A m \in Missions : cache'[m] = IF m = reading[r].m THEN reading[r].snapshot
                                                       ELSE IF m \in K THEN Absent ELSE cache[m]
    <2>1. reading[r].m \in Missions /\ reading[r].snapshot \in Snaps
      BY <1>1, SnapFacts
    <2>2. least \in SUBSET InCache
      OBVIOUS
    <2> HIDE DEF least
    <2>3. CASE Cardinality(InCache) = MAX_CACHED_ITEM
      <3>1. PICK room : room = Dequeued(least)
        OBVIOUS
      <3>2. room \in [Missions -> Snaps \union {Absent}]
            /\ \A m \in Missions : room[m] = IF m \in least THEN Absent ELSE cache[m]
        BY <3>1, DequeuedFacts DEF CopyInv
      <3>3. cache' = [room EXCEPT ![reading[r].m] = reading[r].snapshot]
        BY <1>3, <1>4, <2>3, <3>1
      <3>4. cache' \in [Missions -> Snaps \union {Absent}]
        BY <2>1, <3>2, <3>3
      <3>5. \A m \in Missions : cache'[m] = IF m = reading[r].m THEN reading[r].snapshot
                                            ELSE IF m \in least THEN Absent ELSE cache[m]
        BY <2>1, <3>2, <3>3
      <3>6. QED
        BY <2>2, <3>4, <3>5
    <2>4. CASE Cardinality(InCache) # MAX_CACHED_ITEM
      <3>1. cache' = [cache EXCEPT ![reading[r].m] = reading[r].snapshot]
        BY <1>3, <1>4, <2>4
      <3>2. cache' \in [Missions -> Snaps \union {Absent}]
        BY <2>1, <3>1 DEF CopyInv, CopyTypes
      <3>3. \A m \in Missions : cache'[m] = IF m = reading[r].m THEN reading[r].snapshot
                                            ELSE IF m \in {} THEN Absent ELSE cache[m]
        BY <2>1, <3>1 DEF CopyInv, CopyTypes
      <3>4. {} \in SUBSET InCache
        OBVIOUS
      <3>5. QED
        BY <2>4, <3>2, <3>3, <3>4
    <2>5. QED
      BY <2>3, <2>4
  <1>5. QED
    BY <1>1, <1>2, <1>4

LEMMA EnqueuesCopy ==
    ASSUME CopyInv, NEW r \in Readers, EnqueueCachedSnapshotInfo(r)
    PROVE  CopyInv'
  <1>1. UNCHANGED <<src, store, unsent, changes>>
    BY DEF EnqueueCachedSnapshotInfo, source, handlers, kv
  <1>2. PICK d \in Reads : d = reading[r]
    BY EnqueuedFacts
  <1>3. d.m \in Missions /\ d.snapshot \in Snaps /\ Current(d.snapshot, d.m)
    BY <1>2, SnapFacts DEF CopyInv, ReadInv
  <1>4. /\ reading' \in [Readers -> Reads \union {NotReading}]
        /\ \A x \in Readers, c \in Reads : reading'[x] = c => Current(c.snapshot, c.m)
    <2>1. reading' = [reading EXCEPT ![r] = NotReading]
      BY EnqueuedFacts
    <2>2. QED
      BY <2>1, SnapFacts DEF CopyInv, CopyTypes, ReadInv
  <1>5. /\ cache' \in [Missions -> Snaps \union {Absent}]
        /\ \A m \in Missions : cache'[m] \in {cache[m], Absent} \/ (m = d.m /\ cache'[m] = d.snapshot)
    BY <1>2, EnqueuedFacts DEF CopyInv, CopyTypes
  <1>6. \A m \in Missions, s \in Snaps : cache'[m] = s => Current(s, m)
    BY <1>3, <1>5, SnapFacts DEF CopyInv, CachedInv
  <1>7. QED
    BY <1>1, <1>4, <1>5, <1>6, PassesCopy

LEMMA InitCopy == Init => CopyInv
  <1>1. SUFFICES ASSUME Init PROVE CopyInv
    OBVIOUS
  <1>2. /\ src = [m \in Missions |-> NoSnapshot] /\ store = src /\ unsent = {} /\ changes = <<>>
        /\ cache = [m \in Missions |-> Absent] /\ reading = [r \in Readers |-> NotReading]
    BY <1>1 DEF Init
  <1>3. changes \in Seq(Batches)
    BY <1>2
  <1>4. CopyTypes
    BY <1>2, <1>3 DEF CopyTypes, Stored
  <1>5. QED
    BY <1>2, <1>4, SnapFacts DEF CopyInv, CachedInv, ReadInv, SentInv

LEMMA NextCopy ==
    ASSUME SourceInv, CopyInv, [Next]_vars
    PROVE  CopyInv'
  <1>1. CASE UNCHANGED <<src, kv, snapshots>>
    BY <1>1, PassesCopy DEF CopyInv, CopyTypes, CachedInv, ReadInv, snapshots, kv
  <1>2. CASE KvSteps
    <2>1. CASE KvStarts \/ OnRemoteDied \/ WaitKvDataService \/ AddDeathRecipient \/ TryGetKvStore \/ SubscribeKvStore
      <3>1. KvStarts \/ OnRemoteDied => UNCHANGED <<src, store, unsent, changes, snapshots>>
        BY DEF KvStarts, OnRemoteDied, kv, source, handlers
      <3>2. WaitKvDataService \/ AddDeathRecipient \/ TryGetKvStore \/ SubscribeKvStore =>
                UNCHANGED <<src, kv, snapshots>>
        BY Zenon DEF WaitKvDataService, AddDeathRecipient, TryGetKvStore, SubscribeKvStore, source, handlers
      <3>3. UNCHANGED <<src, store, unsent, changes, snapshots>>
        BY <2>1, <3>1, <3>2 DEF kv
      <3>4. QED
        BY <3>3, PassesCopy DEF CopyInv, CopyTypes, CachedInv, ReadInv, snapshots
    <2>2. QED
      BY <1>2, <2>1, SynchronisesCopy, OnChangeCopy, KvDiesCopy DEF KvSteps
  <1>3. CASE ClientSteps
    <2>1. CASE RegisterListener \/ UnRegisterListener \/ DeviceOnlineNotify \/ CleanMissionResources
      <3>1. UNCHANGED <<src, kv, snapshots>>
        BY <2>1 DEF RegisterListener, UnRegisterListener, DeviceOnlineNotify, CleanMissionResources, source, handlers
      <3>2. QED
        BY <1>1, <3>1
    <2>2. CASE StopSyncRemoteMissions
      <3>1. /\ \E n : StopsSync(n, "stop")
            /\ UNCHANGED <<src, store, unsent, changes>>
        BY <2>2 DEF StopSyncRemoteMissions, source, handlers, kv
      <3>2. QED
        BY <3>1, StopsCopy
    <2>3. CASE DeviceOfflineNotify
      <3>1. /\ StopsSync(Reporting, "offline")
            /\ UNCHANGED <<src, store, unsent, changes>>
        BY <2>3 DEF DeviceOfflineNotify, source, handlers, kv
      <3>2. QED
        BY <3>1, StopsCopy
    <2>4. QED
      BY <1>3, <2>1, <2>2, <2>3, GetsCopy, EnqueuesCopy, FuzzyDeleteCopy DEF ClientSteps
  <1>4. CASE UNCHANGED vars
    BY <1>1, <1>4 DEF vars, source, handlers
  <1>5. CASE UNCHANGED <<source, kv, connection, snapshots, cleaning>>
    BY <1>1, <1>5 DEF source, handlers
  <1>6. QED
    BY <1>2, <1>3, <1>4, <1>5, SourceCopy DEF Next, OnDevices

LEMMA SettledFresh ==
    ASSUME SourceInv, CopyInv
    PROVE  SnapshotFresh
  <1>1. SUFFICES ASSUME SnapshotsSettled, NEW m \in Missions, srcWhy[m] = "none", cache[m].why = "none"
                 PROVE  mission[m] = IF cache[m] # Absent THEN cache[m].v ELSE store[m]
    BY DEF SnapshotFresh
  <1>2. /\ initList = {} /\ later = {} /\ soon = <<>> /\ changes = <<>> /\ unsent = {}
        /\ \A w \in Workers : work[w] = NoWork
    BY <1>1 DEF SnapshotsSettled, SourceSettled
  <1>3. \A y : ~In(y, soon) /\ ~In(y, changes)
    BY <1>2 DEF In
  <1>4. ~Pending(m) /\ ~Told(m)
    BY <1>2, <1>3 DEF Pending, Awaited, Holds, Told
  <1>5. src[m] = mission[m]
    BY <1>1, <1>4 DEF SourceInv, LastInv
  <1>6. store[m] = src[m]
    BY <1>2 DEF CopyInv, SentInv
  <1>7. ASSUME cache[m] # Absent PROVE cache[m].v = store[m]
    <2>1. cache[m] \in Snaps
      BY <1>7 DEF CopyInv, CopyTypes
    <2>2. Current(cache[m], m)
      BY <2>1 DEF CopyInv, CachedInv
    <2>3. QED
      BY <1>1, <1>4, <2>2 DEF Current
  <1>8. QED
    BY <1>5, <1>6, <1>7

(* Once all is done, what an application would get for a mission is its last snapshot, and  *)
(* nothing for one that has ended, unless the source or the cache met one of the exceptions   *)
(* that StoreSnapshotInfo, the listener of changes or a deletion leave behind.                 *)
THEOREM SnapshotFreshCorrect == Spec => []SnapshotFresh
  <1>1. Init => SourceInv /\ CopyInv
    BY InitSource, InitCopy
  <1>2. SourceInv /\ CopyInv /\ [Next]_vars => SourceInv' /\ CopyInv'
    BY NextSource, NextCopy
  <1>3. SourceInv /\ CopyInv => SnapshotFresh
    BY SettledFresh
  <1>4. QED
    BY <1>1, <1>2, <1>3, PTL DEF Spec

-----------------------------------------------------------------------------
(* The cache holds no more than its limit.                                     *)
BoundInv == Cardinality(InCache) <= MAX_CACHED_ITEM

LEMMA FiniteCache == IsFiniteSet(InCache) /\ Cardinality(InCache) \in Nat
  <1>1. InCache \subseteq Missions
    BY DEF InCache
  <1>2. IsFiniteSet(InCache)
    BY <1>1, MissionsAssumption, FS_Subset
  <1>3. QED
    BY <1>2, FS_CardinalityType

LEMMA ShrinksBound ==
    ASSUME BoundInv, \A m \in Missions : cache[m] = Absent => cache'[m] = Absent
    PROVE  BoundInv'
  <1>1. PICK S : S = InCache
    OBVIOUS
  <1>2. PICK T : T = InCache'
    OBVIOUS
  <1>3. T \subseteq S
    BY <1>1, <1>2 DEF InCache
  <1>4. IsFiniteSet(S) /\ Cardinality(S) \in Nat /\ Cardinality(S) <= MAX_CACHED_ITEM
    BY <1>1, FiniteCache DEF BoundInv
  <1>5. Cardinality(T) \in Nat /\ Cardinality(T) <= Cardinality(S)
    BY <1>3, <1>4, FS_Subset, FS_CardinalityType
  <1>6. Cardinality(T) <= MAX_CACHED_ITEM
    BY <1>4, <1>5, CacheAssumption
  <1>7. QED
    BY <1>2, <1>6 DEF BoundInv

LEMMA EnqueuesBound ==
    ASSUME CopyInv, BoundInv, NEW r \in Readers, EnqueueCachedSnapshotInfo(r)
    PROVE  BoundInv'
  <1>1. CASE cache' = cache
    BY <1>1, ShrinksBound
  <1>2. CASE \E K \in SUBSET InCache :
                /\ Cardinality(InCache) = MAX_CACHED_ITEM => K = {m \in InCache : \A k \in InCache : m <= k}
                /\ \A m \in Missions : cache'[m] = IF m = reading[r].m THEN reading[r].snapshot
                                                   ELSE IF m \in K THEN Absent ELSE cache[m]
    <2>1. PICK S : S = InCache
      OBVIOUS
    <2>2. PICK T : T = InCache'
      OBVIOUS
    <2>3. PICK K \in SUBSET S :
             /\ Cardinality(S) = MAX_CACHED_ITEM => K = {m \in S : \A k \in S : m <= k}
             /\ \A m \in Missions : cache'[m] = IF m = reading[r].m THEN reading[r].snapshot
                                                ELSE IF m \in K THEN Absent ELSE cache[m]
      BY <1>2, <2>1
    <2>4. PICK a : a = reading[r].m
      OBVIOUS
    <2>5. T \subseteq (S \ K) \union {a}
      BY <2>1, <2>2, <2>3, <2>4 DEF InCache
    <2>6. S \subseteq Missions /\ IsFiniteSet(S) /\ Cardinality(S) \in Nat /\ Cardinality(S) <= MAX_CACHED_ITEM
      BY <2>1, FiniteCache DEF BoundInv, InCache
    <2>7. \E R \in SUBSET S : Cardinality(R) \in Nat /\ Cardinality(R) < MAX_CACHED_ITEM /\ S \ K \subseteq R
      <3>1. CASE Cardinality(S) = MAX_CACHED_ITEM
        <4>1. S # {}
          BY <2>6, <3>1, FS_EmptySet, CacheAssumption
        <4>2. S \subseteq Nat
          BY <2>6, MissionsAssumption
        <4>3. PICK x \in S : \A k \in S : x <= k
          BY <4>1, <4>2, LeastOf
        <4>4. x \in K
          BY <2>3, <3>1, <4>3
        <4>5. Cardinality(S \ {x}) = Cardinality(S) - 1
          BY <2>6, <4>3, FS_RemoveElement
        <4>6. Cardinality(S \ {x}) \in Nat /\ Cardinality(S \ {x}) < MAX_CACHED_ITEM
          BY <2>6, <3>1, <4>5, CacheAssumption
        <4>7. S \ K \subseteq S \ {x}
          BY <4>4
        <4>8. QED
          BY <4>6, <4>7
      <3>2. CASE Cardinality(S) # MAX_CACHED_ITEM
        BY <2>6, <3>2, CacheAssumption
      <3>3. QED
        BY <3>1, <3>2
    <2>8. PICK R \in SUBSET S : Cardinality(R) \in Nat /\ Cardinality(R) < MAX_CACHED_ITEM /\ S \ K \subseteq R
      BY <2>7
    <2>9. IsFiniteSet(R)
      BY <2>6, FS_Subset
    <2>10. IsFiniteSet(R \union {a}) /\ Cardinality(R \union {a}) \in {Cardinality(R), Cardinality(R) + 1}
      BY <2>9, FS_AddElement
    <2>11. T \subseteq R \union {a}
      BY <2>5, <2>8
    <2>12. Cardinality(T) \in Nat /\ Cardinality(T) <= Cardinality(R \union {a})
      BY <2>10, <2>11, FS_Subset, FS_CardinalityType
    <2>13. Cardinality(T) <= MAX_CACHED_ITEM
      BY <2>8, <2>10, <2>12, CacheAssumption
    <2>14. QED
      BY <2>2, <2>13 DEF BoundInv
  <1>3. QED
    BY <1>1, <1>2, EnqueuedFacts

LEMMA InitBound == Init => BoundInv
  <1>1. SUFFICES ASSUME Init PROVE BoundInv
    OBVIOUS
  <1>2. InCache = {}
    BY <1>1 DEF Init, InCache
  <1>3. QED
    BY <1>2, FS_EmptySet, CacheAssumption DEF BoundInv

LEMMA StopsBound ==
    ASSUME CopyInv, BoundInv, NEW n, NEW by, StopsSync(n, by)
    PROVE  BoundInv'
  BY ShrinksBound, DequeuedFacts DEF StopsSync, CopyInv

LEMMA NextBound ==
    ASSUME CopyInv, BoundInv, [Next]_vars
    PROVE  BoundInv'
  <1>1. CASE cache' = cache
    BY <1>1, ShrinksBound
  <1>2. CASE Synchronises
    <2>1. cache' = cache \/ \E K : cache' = Marked(K, "deaf")
      BY <1>2 DEF Synchronises, snapshots
    <2>2. "deaf" \in Whys
      BY DEF Whys
    <2>3. QED
      BY <2>1, <2>2, MarkedFacts, ShrinksBound DEF CopyInv
  <1>3. CASE OnChange
    <2>1. \A K : \A m \in Missions : Marked(K, "ignored")[m] = Absent <=> cache[m] = Absent
      BY MarkedFacts DEF CopyInv, Whys
    <2> DEFINE drops == IF GetNetworkIdByUuid = None /\ Head(changes).inserts # {} THEN {}
                        ELSE IF GetNetworkIdByUuid = None THEN Head(changes).deletes
                        ELSE Head(changes).deletes \union Head(changes).updates
               ignores == (Head(changes).deletes \union Head(changes).updates) \ drops
    <2>2. cache' = [m \in Missions |-> IF m \in drops THEN Absent ELSE Marked(ignores, "ignored")[m]]
      BY <1>3 DEF OnChange
    <2> HIDE DEF drops, ignores
    <2>3. QED
      BY <2>1, <2>2, ShrinksBound
  <1>4. CASE KvDies
    <2>1. cache' = cache \/ \E K : cache' = Marked(K, "deaf")
      BY <1>4, Zenon DEF KvDies, snapshots
    <2>2. "deaf" \in Whys
      BY DEF Whys
    <2>3. QED
      BY <2>1, <2>2, MarkedFacts, ShrinksBound DEF CopyInv
  <1>5. CASE KvSteps
    <2>1. KvStarts \/ OnRemoteDied => UNCHANGED snapshots
      BY DEF KvStarts, OnRemoteDied
    <2>2. WaitKvDataService \/ AddDeathRecipient \/ TryGetKvStore \/ SubscribeKvStore => UNCHANGED snapshots
      BY Zenon DEF WaitKvDataService, AddDeathRecipient, TryGetKvStore, SubscribeKvStore
    <2>3. QED
      BY <1>1, <1>2, <1>3, <1>4, <1>5, <2>1, <2>2 DEF KvSteps, snapshots
  <1>6. CASE FuzzyDelete
    <2>1. cache' = cache \/ cache' = Marked(Missions, "kept")
      BY <1>6 DEF FuzzyDelete, snapshots
    <2>2. "kept" \in Whys
      BY DEF Whys
    <2>3. QED
      BY <2>1, <2>2, MarkedFacts, ShrinksBound DEF CopyInv
  <1>7. ASSUME NEW r \in Readers, GetRemoteMissionSnapshotInfo(r) PROVE BoundInv'
    <2>1. PICK m \in Missions : cache' = cache \/ cache' = Dequeued({m})
      <3>1. PICK n \in NetIds, m \in Missions :
               \/ UNCHANGED snapshots
               \/ /\ cache[m] # Absent /\ reading' = [reading EXCEPT ![r] = [m |-> m, n |-> n, snapshot |-> cache[m]]]
                  /\ cache' = Dequeued({m})
               \/ cache' = cache
        BY <1>7 DEF GetRemoteMissionSnapshotInfo, snapshots
      <3>2. QED
        BY <3>1 DEF snapshots
    <2>2. QED
      BY <2>1, DequeuedFacts, ShrinksBound DEF CopyInv
  <1>8. CASE ClientSteps
    <2>1. RegisterListener \/ UnRegisterListener \/ DeviceOnlineNotify \/ CleanMissionResources => cache' = cache
      BY DEF RegisterListener, UnRegisterListener, DeviceOnlineNotify, CleanMissionResources, snapshots
    <2>2. StopSyncRemoteMissions \/ DeviceOfflineNotify => BoundInv'
      BY StopsBound DEF StopSyncRemoteMissions, DeviceOfflineNotify
    <2>3. QED
      BY <1>1, <1>6, <1>7, <1>8, <2>1, <2>2, EnqueuesBound DEF ClientSteps
  <1>9. CASE SourceSteps
    BY <1>1, <1>9, SourceOnly DEF snapshots
  <1>10. CASE UNCHANGED vars \/ UNCHANGED <<source, kv, connection, snapshots, cleaning>>
    BY <1>1, <1>10 DEF vars, snapshots
  <1>11. QED
    BY <1>5, <1>8, <1>9, <1>10 DEF Next, OnDevices

-----------------------------------------------------------------------------
(* Deletions.  The task that a leave has queued is dropped when the return is  *)
(* handled, as long as the network ids are resolved: none is left for a device *)
(* that the storage has seen return.                                           *)
Deletions == [name : UuidKeys, id : NetIds, by : {"stop", "offline"}]
Overdue == {t \in deleteTasks : t.by = "offline" /\ t.name = Uuid}
CleanTypes == deleteTasks \subseteq Deletions /\ listened \subseteq NetIds
UntoldInv == link # "registered" => \A t \in deleteTasks : t.by # "offline"
ResolvedInv == node = "notify" => uuidNetworkIdMap[Uuid] = Seen \/ uuidNetworkIdMap[NoUuid] = Seen
OverdueInv ==
    link = "registered" /\ node = "idle" /\ Seen # None => uuidNetworkIdMap[NoUuid] = Seen \/ Overdue = {}
LostInv == lost \subseteq {"stop", "unresolved", "unhandled"}

CleaningInv == CleanTypes /\ UntoldInv /\ ResolvedInv /\ OverdueInv /\ LostInv

LEMMA UuidApart == NoUuid # Uuid /\ \A n : GetUuidByNetworkId(n) \in UuidKeys
  BY DEF NoUuid, Uuid, UuidKeys, GetUuidByNetworkId, SoftbusUuid

LEMMA InitCleaning == Init => CleaningInv
  <1>1. SUFFICES ASSUME Init PROVE CleaningInv
    OBVIOUS
  <1>2. deleteTasks = {} /\ listened = {} /\ lost = {} /\ node = "idle" /\ link = "connecting"
    BY <1>1 DEF Init, DevicesInit
  <1>3. QED
    BY <1>2 DEF CleaningInv, CleanTypes, UntoldInv, ResolvedInv, OverdueInv, Overdue, LostInv

(* The devices stay, and no deletion is queued but by a stop. *)
LEMMA SameCleaning ==
    ASSUME CleaningInv, UNCHANGED devices, deleteTasks' \subseteq deleteTasks \union {t \in Deletions : t.by = "stop"},
           listened' \subseteq NetIds, LostInv'
    PROVE  CleaningInv'
  <1>1. Seen' = Seen
    BY DEF Seen, devices, softbus
  <1>2. Overdue' \subseteq Overdue
    BY DEF Overdue
  <1>3. CleanTypes' /\ UntoldInv' /\ ResolvedInv' /\ OverdueInv'
    BY <1>1, <1>2 DEF CleaningInv, CleanTypes, UntoldInv, ResolvedInv, OverdueInv, devices, linking, storage
  <1>4. QED
    BY <1>3 DEF CleaningInv

LEMMA SoftbusCleaning ==
    ASSUME DevicesInv, CleaningInv, SoftbusSteps, UNCHANGED cleaning
    PROVE  CleaningInv'
  <1>1. UNCHANGED <<linking, node, storage>>
    BY DEF SoftbusSteps, Joins, Leaves, Forgets
  <1>2. link = "registered" => Seen' = Seen
    BY SoftbusDevices
  <1>3. node = "notify" => link = "registered"
    BY DEF DevicesInv, UnlinkedInv
  <1>4. UNCHANGED <<link, node, uuidNetworkIdMap, deleteTasks, listened, lost>> /\ Overdue' = Overdue
    BY <1>1 DEF linking, storage, cleaning, Overdue
  <1>5. ResolvedInv' /\ OverdueInv'
    BY <1>2, <1>3, <1>4 DEF CleaningInv, ResolvedInv, OverdueInv
  <1>6. QED
    BY <1>4, <1>5 DEF CleaningInv, CleanTypes, UntoldInv, LostInv

LEMMA DeviceCleaning ==
    ASSUME DevicesInv, CleaningInv, DeviceSteps, UNCHANGED cleaning
    PROVE  CleaningInv'
  <1>1. UNCHANGED <<deleteTasks, listened, lost>> /\ Overdue' = Overdue
    BY DEF cleaning, Overdue
  <1>2. CleanTypes' /\ LostInv'
    BY <1>1 DEF CleaningInv, CleanTypes, LostInv
  <1>3. CASE SoftbusStarts
    <2>1. UNCHANGED <<link, node, tasks, here, uuidNetworkIdMap>>
      BY <1>3 DEF SoftbusStarts, linking, storage
    <2>2. Seen' = Seen
      BY <2>1 DEF Seen
    <2>3. QED
      BY <1>1, <1>2, <2>1, <2>2 DEF CleaningInv, UntoldInv, ResolvedInv, OverdueInv
  <1>4. CASE ConnectSoftbus \/ AddDeviceChangeListener
    <2>1. link # "registered" /\ node' = node
      <3>1. ConnectSoftbus => link = "connecting" /\ node' = node
        BY Zenon DEF ConnectSoftbus
      <3>2. AddDeviceChangeListener => link = "registering" /\ node' = node
        BY Zenon DEF AddDeviceChangeListener
      <3>3. QED
        BY <1>4, <3>1, <3>2
    <2>2. node' = "idle"
      BY <2>1 DEF DevicesInv, UnlinkedInv
    <2>3. Overdue = {} /\ \A t \in deleteTasks : t.by # "offline"
      BY <2>1 DEF CleaningInv, UntoldInv, Overdue
    <2>4. QED
      BY <1>1, <1>2, <2>2, <2>3 DEF CleaningInv, UntoldInv, ResolvedInv, OverdueInv
  <1>5. CASE NodeOnline
    <2>1. /\ node' = "notify" /\ Seen' = Reporting'
          /\ uuidNetworkIdMap'[Uuid] = Reporting' \/ uuidNetworkIdMap'[NoUuid] = Reporting'
      BY <1>5, OnlineDevices
    <2>2. link' = link
      BY <1>5 DEF NodeOnline, linking
    <2>3. QED
      BY <1>1, <1>2, <2>1, <2>2 DEF CleaningInv, UntoldInv, ResolvedInv, OverdueInv
  <1>6. CASE NodeOfflineEnds
    <2>1. Seen' = None
      BY <1>6, OfflineDevices
    <2>2. link' = link /\ node' = "idle"
      BY <1>6 DEF NodeOfflineEnds, NodeNotified, linking
    <2>3. QED
      BY <1>1, <1>2, <2>1, <2>2 DEF CleaningInv, UntoldInv, ResolvedInv, OverdueInv
  <1>7. QED
    BY <1>3, <1>4, <1>5, <1>6 DEF DeviceSteps

(* The return of the device drops the deletion. *)
LEMMA NotifyCleaning ==
    ASSUME DevicesInv, CleaningInv, DeviceOnlineNotify
    PROVE  CleaningInv'
  <1>1. /\ node = "notify" /\ NodeNotified /\ UNCHANGED <<softbus, linking, storage>>
        /\ UNCHANGED <<listened, lost>>
        /\ deleteTasks' = {t \in deleteTasks : t.name # GetUuidByNetworkId(Reporting)}
    BY DEF DeviceOnlineNotify, RemoveTask
  <1>2. Seen = Reporting /\ Seen' = Reporting /\ Reporting # None
    BY <1>1, OnlineNotifies
  <1>3. UNCHANGED <<link, uuidNetworkIdMap>> /\ node' = "idle"
    BY <1>1 DEF linking, storage, NodeNotified
  <1>4. OverdueInv'
    <2>1. CASE uuidNetworkIdMap[NoUuid] = Reporting
      BY <1>2, <1>3, <2>1 DEF OverdueInv
    <2>2. CASE uuidNetworkIdMap[NoUuid] # Reporting
      <3>1. uuidNetworkIdMap[Uuid] = Reporting
        BY <1>1, <1>2, <2>2 DEF CleaningInv, ResolvedInv
      <3>2. GetUuidByNetworkId(Reporting) = Uuid
        BY <2>2, <3>1 DEF GetUuidByNetworkId
      <3>3. Overdue' = {}
        BY <1>1, <3>2 DEF Overdue
      <3>4. QED
        BY <3>3 DEF OverdueInv
    <2>3. QED
      BY <2>1, <2>2
  <1>5. CleanTypes' /\ UntoldInv' /\ ResolvedInv' /\ LostInv'
    BY <1>1, <1>3 DEF CleaningInv, CleanTypes, UntoldInv, ResolvedInv, LostInv
  <1>6. QED
    BY <1>4, <1>5 DEF CleaningInv

LEMMA LeaveCleaning ==
    ASSUME DevicesInv, CleaningInv, CleanMissionResources \/ DeviceOfflineNotify
    PROVE  CleaningInv'
  <1>1. node' \in {"stop", "left"} /\ link' = link /\ lost' = lost
    BY DEF CleanMissionResources, DeviceOfflineNotify, linking
  <1>2. tasks # <<>>
    BY DEF CleanMissionResources, DeviceOfflineNotify, Handles, DevicesInv, HeadInv
  <1>3. link = "registered" /\ Reporting \in NetIds
    BY <1>2, HeadReport
  <1>4. CleanTypes'
    <2>1. CASE CleanMissionResources
      BY <2>1 DEF CleanMissionResources, CleaningInv, CleanTypes
    <2>2. CASE DeviceOfflineNotify
      <3>1. DeleteTask(Reporting, "offline") \in Deletions
        BY <1>3, UuidApart DEF DeleteTask, Deletions
      <3>2. QED
        BY <2>2, <3>1 DEF DeviceOfflineNotify, StopsSync, CleaningInv, CleanTypes
    <2>3. QED
      BY <2>1, <2>2
  <1>5. UntoldInv' /\ ResolvedInv' /\ OverdueInv' /\ LostInv'
    BY <1>1, <1>3 DEF CleaningInv, UntoldInv, ResolvedInv, OverdueInv, LostInv
  <1>6. QED
    BY <1>4, <1>5 DEF CleaningInv

(* A deletion of a device that is here: a stop asked for it, or the return is  *)
(* not handled yet, or an id was not resolved.                                 *)
LEMMA LosesCleaning ==
    ASSUME DevicesInv, CleaningInv, FuzzyDelete
    PROVE  CleaningInv'
  <1>1. PICK t \in deleteTasks :
            /\ deleteTasks' = deleteTasks \ {t}
            /\ lost' = lost \/ (here \in listened /\ lost' = lost \union {Reason(t)})
            /\ UNCHANGED <<devices, listened>>
    BY DEF FuzzyDelete
  <1>2. ASSUME here \in listened
        PROVE  Reason(t) \in {"stop", "unresolved", "unhandled"}
    <2>1. t.by \in {"stop", "offline"} /\ t.name \in UuidKeys
      BY DEF CleaningInv, CleanTypes, Deletions
    <2>2. SUFFICES ASSUME t.by = "offline", NoUuid \notin {t.name, GetUuidByNetworkId(here)}, tasks = <<>> PROVE FALSE
      BY <2>1 DEF Reason
    <2>3. t \in Overdue /\ link = "registered"
      BY <2>1, <2>2 DEF Overdue, UuidKeys, CleaningInv, UntoldInv
    <2>4. node = "idle" /\ Seen = here
      <3>1. node \in {"idle", "notify", "stop", "left"}
        BY Zenon DEF DevicesInv, DevicesTypeOK
      <3>2. QED
        BY <2>2, <3>1 DEF DevicesInv, HeadInv, Seen
    <2>5. here # None
      BY <1>2, NoneAssumption DEF CleaningInv, CleanTypes
    <2>6. uuidNetworkIdMap[NoUuid] = here
      BY <2>3, <2>4, <2>5 DEF CleaningInv, OverdueInv
    <2>7. QED
      BY <2>2, <2>6 DEF GetUuidByNetworkId
  <1>3. LostInv'
    BY <1>1, <1>2 DEF CleaningInv, LostInv
  <1>4. QED
    BY <1>1, <1>3, SameCleaning DEF CleaningInv, CleanTypes

LEMMA NextCleaning ==
    ASSUME DevicesInv, CleaningInv, [Next]_vars
    PROVE  CleaningInv'
  <1>1. CASE UNCHANGED <<devices, cleaning>>
    BY <1>1, SameCleaning DEF CleaningInv, CleanTypes, LostInv, cleaning
  <1>2. CASE RegisterListener
    <2>1. /\ UNCHANGED devices /\ deleteTasks' \subseteq deleteTasks /\ lost' = lost
          /\ \E n \in NetIds : listened' = listened \union {n}
      BY <1>2 DEF RegisterListener, RemoveTask
    <2>2. QED
      BY <2>1, SameCleaning DEF CleaningInv, CleanTypes, LostInv
  <1>3. CASE UnRegisterListener
    BY <1>3, SameCleaning DEF UnRegisterListener, CleaningInv, CleanTypes, LostInv
  <1>4. CASE StopSyncRemoteMissions
    <2>1. PICK n \in NetIds : /\ deleteTasks' = deleteTasks \union {DeleteTask(n, "stop")}
                              /\ UNCHANGED <<devices, listened, lost>>
      BY <1>4 DEF StopSyncRemoteMissions, StopsSync
    <2>2. DeleteTask(n, "stop") \in Deletions /\ DeleteTask(n, "stop").by = "stop"
      BY UuidApart DEF DeleteTask, Deletions
    <2>3. QED
      BY <2>1, <2>2, SameCleaning DEF CleaningInv, CleanTypes, LostInv
  <1>5. CASE \E r \in Readers : GetRemoteMissionSnapshotInfo(r) \/ EnqueueCachedSnapshotInfo(r)
    BY <1>1, <1>5, ReadersOnly
  <1>6. CASE ClientSteps
    BY <1>2, <1>3, <1>4, <1>5, <1>6, NotifyCleaning, LeaveCleaning, LosesCleaning DEF ClientSteps
  <1>7. CASE SourceSteps \/ KvSteps
    BY <1>1, <1>7, SourceOnly, KvOnly
  <1>8. CASE UNCHANGED vars
    BY <1>1, <1>8 DEF vars
  <1>9. CASE OnDevices(SoftbusSteps) \/ OnDevices(DeviceSteps)
    BY <1>9, SoftbusCleaning, DeviceCleaning DEF OnDevices
  <1>10. QED
    BY <1>6, <1>7, <1>8, <1>9 DEF Next

-----------------------------------------------------------------------------
TrackedInv == DevicesInv /\ ConnectionInv /\ SourceInv /\ CopyInv /\ BoundInv /\ CleaningInv

LEMMA TrackedType == TrackedInv => TypeOK
  <1>1. SUFFICES ASSUME TrackedInv PROVE TypeOK
    OBVIOUS
  <1>2. DevicesTypeOK /\ Cardinality(InCache) <= MAX_CACHED_ITEM /\ listened \subseteq NetIds
    BY <1>1 DEF TrackedInv, DevicesInv, BoundInv, CleaningInv, CleanTypes
  <1>3. /\ mission \in [Missions -> Versions \union {NoSnapshot}] /\ newest \in Versions
        /\ later \union initList \subseteq Missions
        /\ src \in [Missions -> Versions \union {NoSnapshot}] /\ store \in [Missions -> Versions \union {NoSnapshot}]
        /\ unsent \subseteq Missions
    BY <1>1 DEF TrackedInv, SourceInv, SourceTypes, CopyInv, CopyTypes, Stored
  <1>4. isReg \in BOOLEAN
    BY <1>1 DEF TrackedInv, SourceInv, SourceTypes
  <1>5. kvStorePtr \in {"none", "live", "dead"} /\ waitTasks \in Nat
    BY <1>1, Zenon DEF TrackedInv, ConnectionInv, WaitTypes
  <1>6. {kvUp, watched, kvDied, subscribed} \subseteq BOOLEAN
    BY <1>1, Zenon DEF TrackedInv, ConnectionInv, WaitTypes
  <1>7. QED
    BY <1>2, <1>3, <1>4, <1>5, <1>6, Zenon DEF TypeOK

(* Once all is done, the device is known exactly while it is here and under the network id   *)
(* it has, and the storage is connected to the service that runs; a device that is here and    *)
(* listened to has lost its data only to the exceptions; and the cache keeps its limit.           *)
THEOREM DeviceTrackedCorrect == Spec => []DeviceTracked
  <1>1. Init => TrackedInv
    BY InitDevices, InitConnection, InitSource, InitCopy, InitBound, InitCleaning DEF Init, TrackedInv
  <1>2. TrackedInv /\ [Next]_vars => TrackedInv'
    BY NextDevices, NextConnection, NextSource, NextCopy, NextBound, NextCleaning DEF TrackedInv
  <1>3. TrackedInv => DeviceTracked
    <2>1. SUFFICES ASSUME TrackedInv PROVE DeviceTracked
      OBVIOUS
    <2>2. ASSUME DevicesSettled, link = "registered"
          PROVE  remoteDevices = {here} \ {None} /\ (unresolved \/ uuidNetworkIdMap[Uuid] = here)
      <3>1. Seen = here
        BY <2>2 DEF DevicesSettled, Seen
      <3>2. QED
        BY <2>1, <2>2, <3>1 DEF TrackedInv, DevicesInv, LinkedInv
    <2>3. ASSUME StorageSettled
          PROVE  (kvStorePtr = "live" /\ watched /\ subscribed) \/ kvFault # "none"
      BY <2>1, <2>3 DEF TrackedInv, ConnectionInv, ConnectedInv, Coming, StorageSettled
    <2>4. TypeOK /\ lost \subseteq {"stop", "unresolved", "unhandled"}
      BY <2>1, TrackedType DEF TrackedInv, CleaningInv, LostInv
    <2>5. QED
      BY <2>2, <2>3, <2>4 DEF DeviceTracked
  <1>4. QED
    BY <1>1, <1>2, <1>3, PTL DEF Spec
=============================================================================
