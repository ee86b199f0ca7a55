-------------------------------- MODULE DmsCall --------------------------------
(***************************************************************************)
(* Remote call of abilities (StartAbilityByCall, ReleaseAbility).          *)
(*                                                                         *)
(* One device, the caller side, whose applications call abilities on the   *)
(* remote Devices.  A call is named by a callback object, its "connect".   *)
(* callerMap_ holds the devices a connect has a session with; calleeMap_,  *)
(* on each device, the wrapper that was bound with the ability manager     *)
(* (AMS) there.  No lock is held over a remote call or a call of the AMS,  *)
(* and neither side has a table of the other's.                            *)
(*                                                                         *)
(* A remote device knows a connect by a proxy, which dies with the         *)
(* application and with the link; after that the same connect comes as     *)
(* another proxy.  A proxy is the connect and the link's count.            *)
(*                                                                         *)
(* One step is one critical section, one message or one call of the AMS.   *)
(***************************************************************************)
EXTENDS Integers, Sequences, FiniteSets

CONSTANTS
    Devices,      \* remote devices
    Connects,     \* callback objects; each stands for its application
    Threads,      \* IPC threads of the caller's service
    None,
    MaxWrappers,  \* bound: wrappers of one proxy in use at a time
    MaxCalls,     \* bound: calls of the applications
    MaxDowns,     \* bound: how often a link fails
    Flaky         \* bound: devices whose link or abilities may fail

Proxies == Connects \X (0..MaxDowns)
Wrappers == 1..MaxWrappers

ASSUME CallAssumption ==
    /\ None \notin Connects \cup Devices \cup (Proxies \X Wrappers)
    /\ MaxWrappers \in Nat \ {0} /\ MaxCalls \in Nat /\ MaxDowns \in Nat
    /\ Flaky \subseteq Devices

VARIABLES
    alive,        \* connects whose application runs
    online,       \* devices that can be reached
    epoch,        \* device -> how often its link has failed
    callerMap,    \* connect -> devices it has a session with
    callerWatch,  \* connects with callerDeathRecipientForLocalDevice_
    callerDied,   \* connects whose ProcessCallerDied is queued at the caller
    offlineDue,   \* devices whose ProcessDeviceOffline is queued at the caller
    th,           \* what a thread of the caller is doing
    job,          \* the remote handler that serves the thread's call
    calleeMap,    \* device -> proxy -> recorded wrapper, 0 if none
    calleeWatch,  \* device -> proxies with callerDeathRecipient_
    calleeTasks,  \* device -> proxy -> deaths queued at the device's handler
    handling,     \* device -> the <<proxy, wrapper>> its handler is releasing, or None
    bound,        \* device -> <<proxy, wrapper>> bound with its AMS
    callerAdds,   \* connect -> additions minus removals reported by the caller
    calleeAdds,   \* device -> proxy -> the same, by the callee
    calls,        \* how many calls were made
    repeats,      \* device -> proxy -> additions reported for an entry that was there
    raced,        \* connects used in two ways at once
    lost,         \* <<connect, device>>: the ability died after it was called
    flapped,      \* <<connect, device>>: the link failed after the session was made
    dropped       \* <<connect, device>>: released along with another device

callerVars == <<callerMap, callerWatch, callerDied, callerAdds>>
calleeVars == <<calleeMap, calleeWatch, calleeTasks, handling, bound, calleeAdds, repeats>>
linkVars   == <<alive, online, epoch, offlineDue>>
ghostVars  == <<raced, lost, flapped, dropped>>
vars == <<callerVars, calleeVars, linkVars, ghostVars, th, job, calls>>

Idle == [pc |-> "idle", op |-> "none", c |-> None, d |-> None]
NoJob == [pc |-> "none", k |-> None, w |-> 0]

Init ==
    /\ alive = Connects /\ online = Devices /\ epoch = [d \in Devices |-> 0]
    /\ callerMap = [c \in Connects |-> {}]
    /\ callerWatch = {} /\ callerDied = {} /\ offlineDue = {}
    /\ th = [t \in Threads |-> Idle] /\ job = [t \in Threads |-> NoJob]
    /\ calleeMap = [d \in Devices |-> [k \in Proxies |-> 0]]
    /\ calleeWatch = [d \in Devices |-> {}]
    /\ calleeTasks = [d \in Devices |-> [k \in Proxies |-> << >>]]
    /\ handling = [d \in Devices |-> None]
    /\ bound = [d \in Devices |-> {}]
    /\ callerAdds = [c \in Connects |-> 0]
    /\ calleeAdds = [d \in Devices |-> [k \in Proxies |-> 0]]
    /\ calls = 0
    /\ repeats = [d \in Devices |-> [k \in Proxies |-> 0]]
    /\ raced = {} /\ lost = {} /\ flapped = {} /\ dropped = {}

-----------------------------------------------------------------------------
(* Proxies, and what is under way for a connect. *)

ProxyOf(c, d) == <<c, epoch[d]>>
Usable(k, d) == k[1] \in alive /\ d \in online /\ k[2] = epoch[d]

Busy(c) ==
    \/ \E t \in Threads : th[t].c = c
    \/ \E d \in Devices, e \in 0..MaxDowns :
          calleeTasks[d][<<c, e>>] # << >> \/ \E w \in Wrappers : handling[d] = <<<<c, e>>, w>>

FreshWrappers(k, d) ==
    Wrappers \ ({b[2] : b \in {x \in bound[d] : x[1] = k}} \cup {calleeMap[d][k]}
                \cup {job[t].w : t \in {x \in Threads : job[x].k = k}})

(* What the resource scheduler is told (ReportDistributedComponentChange, in the order  *)
(* of componentChangeHandler_) and what it gets when it asks (GetCallComponentList).    *)
Added(adds, x) == [adds EXCEPT ![x] = @ + 1]
Removed(adds, x) == [adds EXCEPT ![x] = @ - 1]
CallerComponents == {c \in Connects : callerMap[c] # {}}
CalleeComponents(d) == {k \in Proxies : calleeMap[d][k] # 0}

-----------------------------------------------------------------------------
(* The caller: StartRemoteAbilityByCall and ReleaseRemoteAbility up to the remote *)
(* call.  A device that GetRemoteDms does not find ends the call without effect.  *)
(* It does not matter which of the free threads takes the call.                   *)

Free(t) == th[t].pc = "idle" /\ job[t].pc = "none"
MayCall(t, c, d) ==
    /\ Free(t) /\ t = CHOOSE x \in Threads : Free(x)
    /\ c \in alive /\ d \in online /\ calls < MaxCalls

Calls(t, c, d, op) ==
    /\ MayCall(t, c, d)
    /\ th' = [th EXCEPT ![t] = [pc |-> "waiting", op |-> op, c |-> c, d |-> d]]
    /\ job' = [job EXCEPT ![t] = [pc |-> op, k |-> ProxyOf(c, d), w |-> 0]]
    /\ calls' = calls + 1
    /\ raced' = IF Busy(c) THEN raced \cup {c} ELSE raced
    /\ UNCHANGED <<callerVars, calleeVars, linkVars, lost, flapped, dropped>>

StartRemoteAbilityByCall(t, c, d) == Calls(t, c, d, "start")
ReleaseRemoteAbility(t, c, d) == Calls(t, c, d, "release")

(* The session is saved, and the connect watched when it gets its first one; the    *)
(* recipient of an application that has died is called at once.                     *)
SaveCallerComponent_Inverted(t) ==
    LET c == th[t].c IN
    /\ th[t].pc = "ok" /\ th[t].op = "start"
    /\ callerMap' = [callerMap EXCEPT ![c] = @ \cup {th[t].d}]
    /\ IF callerMap[c] # {} /\ c \in alive THEN callerWatch' = callerWatch \cup {c} ELSE UNCHANGED callerWatch
    /\ callerAdds' = IF callerMap[c] = {} THEN Added(callerAdds, c) ELSE callerAdds
    /\ th' = [th EXCEPT ![t] = Idle]
    /\ dropped' = dropped \ {<<c, th[t].d>>}
    /\ UNCHANGED <<callerDied, calleeVars, linkVars, job, calls, raced, lost, flapped>>
SaveCallerComponent(t) ==
    LET c == th[t].c  new == callerMap[c] = {} IN
    /\ th[t].pc = "ok" /\ th[t].op = "start"
    /\ callerMap' = [callerMap EXCEPT ![c] = @ \cup {th[t].d}]
    /\ callerWatch' = IF new /\ c \in alive THEN callerWatch \cup {c} ELSE callerWatch
    /\ callerDied' = IF new /\ c \notin alive THEN callerDied \cup {c} ELSE callerDied
    /\ callerAdds' = IF new THEN Added(callerAdds, c) ELSE callerAdds
    /\ th' = [th EXCEPT ![t] = Idle]
    /\ dropped' = dropped \ {<<c, th[t].d>>}
    /\ UNCHANGED <<calleeVars, linkVars, job, calls, raced, lost, flapped>>

(* The whole entry of a connect goes: its sessions with every device. *)
Erases(c) ==
    /\ callerMap' = [callerMap EXCEPT ![c] = {}]
    /\ callerAdds' = IF callerMap[c] = {} THEN callerAdds ELSE Removed(callerAdds, c)

RemoveCallerComponent(t) ==
    LET c == th[t].c IN
    /\ th[t].pc = "ok" /\ th[t].op = "release"
    /\ Erases(c)
    /\ callerWatch' = callerWatch \ {c}
    /\ dropped' = dropped \cup {<<c, d>> : d \in callerMap[c] \ {th[t].d}}
    /\ th' = [th EXCEPT ![t] = Idle]
    /\ UNCHANGED <<callerDied, calleeVars, linkVars, job, calls, raced, lost, flapped>>

(* ProcessCallerDied of the caller's own device. *)
HandleLocalCallerDied(c) ==
    /\ c \in callerDied
    /\ callerDied' = callerDied \ {c}
    /\ Erases(c)
    /\ UNCHANGED <<callerWatch, calleeVars, linkVars, ghostVars, th, job, calls>>

(* The part of ProcessDeviceOffline about calls: one report for a connect whose last *)
(* session went.                                                                     *)
LastSessions(d) == {c \in Connects : callerMap[c] = {d}}
ProcessCalleeOffline(d) ==
    /\ d \in offlineDue
    /\ offlineDue' = offlineDue \ {d}
    /\ callerMap' = [c \in Connects |-> callerMap[c] \ {d}]
    /\ callerWatch' = callerWatch \ LastSessions(d)
    /\ callerAdds' = [c \in Connects |-> IF c \in LastSessions(d) THEN callerAdds[c] - 1
                                                           ELSE callerAdds[c]]
    /\ UNCHANGED <<callerDied, calleeVars, alive, online, epoch, ghostVars, th, job, calls>>

-----------------------------------------------------------------------------
(* The callee: the remote handlers that serve a call. *)

At(t, place) == job[t].pc = place
Goes(t, place, w) == job' = [job EXCEPT ![t] = [pc |-> place, k |-> @.k, w |-> w]]
DeviceOf(t) == th[t].d

(* The answer reaches the caller unless its thread has given up with the link; a call *)
(* that failed leaves the table of the caller as it is.                               *)
Succeeds(t) ==
    /\ job' = [job EXCEPT ![t] = NoJob]
    /\ th' = [th EXCEPT ![t] = IF th[t].pc = "waiting" THEN [th[t] EXCEPT !.pc = "ok"] ELSE Idle]
Fails(t) ==
    /\ job' = [job EXCEPT ![t] = NoJob]
    /\ th' = [th EXCEPT ![t] = Idle]

(* StartAbilityByCallFromRemote: the wrapper of the entry, or a new one, decided      *)
(* under calleeLock_; the checks before it may deny the call.                         *)
StartFinds_Rewraps(t) ==
    LET d == DeviceOf(t)  k == job[t].k IN
    /\ At(t, "start")
    /\ \/ FreshWrappers(k, d) # {} /\ Goes(t, "found", CHOOSE w \in FreshWrappers(k, d) : TRUE) /\ UNCHANGED th
       \/ Fails(t)
    /\ UNCHANGED <<callerVars, calleeVars, linkVars, ghostVars, calls>>
StartFinds(t) ==
    LET d == DeviceOf(t)  k == job[t].k IN
    /\ At(t, "start")
    /\ \/ calleeMap[d][k] # 0 /\ Goes(t, "found", calleeMap[d][k]) /\ UNCHANGED th
       \/ /\ calleeMap[d][k] = 0 /\ FreshWrappers(k, d) # {}
          /\ Goes(t, "found", CHOOSE w \in FreshWrappers(k, d) : TRUE) /\ UNCHANGED th
       \/ Fails(t)
    /\ UNCHANGED <<callerVars, calleeVars, linkVars, ghostVars, calls>>

AmsStartAbilityByCall(t) ==
    LET d == DeviceOf(t) IN
    /\ At(t, "found")
    /\ \/ /\ bound' = [bound EXCEPT ![d] = @ \cup {<<job[t].k, job[t].w>>}]
          /\ Goes(t, "started", job[t].w) /\ UNCHANGED th
       \/ Fails(t) /\ UNCHANGED bound
    /\ UNCHANGED <<callerVars, calleeMap, calleeWatch, calleeTasks, handling, calleeAdds, repeats,
                   linkVars, ghostVars, calls>>

(* The addition is reported, and emplace keeps an entry that is there already. *)
StartRecords(t) ==
    LET d == DeviceOf(t)  k == job[t].k IN
    /\ At(t, "started")
    /\ calleeAdds' = [calleeAdds EXCEPT ![d] = Added(@, k)]
    /\ IF calleeMap[d][k] = 0
       THEN calleeMap' = [calleeMap EXCEPT ![d][k] = job[t].w] /\ UNCHANGED repeats
       ELSE repeats' = [repeats EXCEPT ![d][k] = @ + 1] /\ UNCHANGED calleeMap
    /\ lost' = lost \ {<<k[1], d>>}
    /\ flapped' = IF Usable(k, d) THEN flapped \ {<<k[1], d>>} ELSE flapped
    /\ Goes(t, "recorded", job[t].w)
    /\ UNCHANGED <<callerVars, calleeWatch, calleeTasks, handling, bound, linkVars, th, calls,
                   raced, dropped>>

(* AddDeathRecipient, after the lock was released. *)
StartWatches(t) ==
    LET d == DeviceOf(t)  k == job[t].k IN
    /\ At(t, "recorded")
    /\ IF Usable(k, d)
       THEN calleeWatch' = [calleeWatch EXCEPT ![d] = @ \cup {k}] /\ UNCHANGED calleeTasks
       ELSE calleeTasks' = [calleeTasks EXCEPT ![d][k] = Append(@, "callerDied")] /\ UNCHANGED calleeWatch
    /\ Succeeds(t)
    /\ UNCHANGED <<callerVars, calleeMap, handling, bound, calleeAdds, repeats, linkVars, ghostVars, calls>>

(* An entry goes, with the report of its removal. *)
Forgets(d, k) ==
    /\ calleeMap' = [calleeMap EXCEPT ![d][k] = 0]
    /\ calleeAdds' = IF calleeMap[d][k] = 0 THEN calleeAdds ELSE [calleeAdds EXCEPT ![d] = Removed(@, k)]

(* ReleaseAbilityFromRemote: the entry and its recipient go in one section, then the *)
(* AMS is asked, whose refusal the caller is told.                                   *)
ReleaseForgets(t) ==
    LET d == DeviceOf(t)  k == job[t].k IN
    /\ At(t, "release")
    /\ IF calleeMap[d][k] = 0
       THEN Fails(t) /\ UNCHANGED <<calleeMap, calleeAdds, calleeWatch>>
       ELSE /\ Forgets(d, k)
            /\ calleeWatch' = [calleeWatch EXCEPT ![d] = @ \ {k}]
            /\ Goes(t, "erased", calleeMap[d][k]) /\ UNCHANGED th
    /\ UNCHANGED <<callerVars, calleeTasks, handling, bound, repeats, linkVars, ghostVars, calls>>

AmsReleaseAbility_Unwatches(t) ==
    LET d == DeviceOf(t)  b == <<job[t].k, job[t].w>> IN
    /\ At(t, "erased")
    /\ bound' = [bound EXCEPT ![d] = @ \ {b}]
    /\ calleeWatch' = [calleeWatch EXCEPT ![d] = @ \ {b[1]}]
    /\ IF b \in bound[d] THEN Succeeds(t) ELSE Fails(t)
    /\ UNCHANGED <<callerVars, calleeMap, calleeTasks, handling, calleeAdds, repeats,
                   linkVars, ghostVars, calls>>
AmsReleaseAbility(t) ==
    LET d == DeviceOf(t)  b == <<job[t].k, job[t].w>> IN
    /\ At(t, "erased")
    /\ bound' = [bound EXCEPT ![d] = @ \ {b}]
    /\ IF b \in bound[d] THEN Succeeds(t) ELSE Fails(t)
    /\ UNCHANGED <<callerVars, calleeMap, calleeWatch, calleeTasks, handling, calleeAdds, repeats,
                   linkVars, ghostVars, calls>>

-----------------------------------------------------------------------------
(* The callee's handler: deaths of callers and of called abilities, in order. *)

NextDeath(d, k, kind) ==
    /\ handling[d] = None
    /\ calleeTasks[d][k] # << >> /\ Head(calleeTasks[d][k]) = kind
    /\ calleeTasks' = [calleeTasks EXCEPT ![d][k] = Tail(@)]
    /\ Forgets(d, k)

(* ProcessCallerDied forgets and then has the AMS release the wrapper (the connect *)
(* itself, which the AMS does not know, if there was no entry).                    *)
ProcessCallerDied(d, k) ==
    /\ NextDeath(d, k, "callerDied")
    /\ handling' = [handling EXCEPT ![d] = IF calleeMap[d][k] = 0 THEN None ELSE <<k, calleeMap[d][k]>>]
    /\ UNCHANGED <<callerVars, calleeWatch, bound, repeats, linkVars, ghostVars, th, job, calls>>

HandlerReleases(d) ==
    /\ handling[d] # None
    /\ bound' = [bound EXCEPT ![d] = @ \ {handling[d]}]
    /\ handling' = [handling EXCEPT ![d] = None]
    /\ UNCHANGED <<callerVars, calleeMap, calleeWatch, calleeTasks, calleeAdds, repeats,
                   linkVars, ghostVars, th, job, calls>>

(* The wrapper of a call was told that its ability is gone: the entry of its connect, *)
(* whichever wrapper that holds by then, goes; the caller is not told.                *)
ProcessCalleeDied(d, k) ==
    /\ NextDeath(d, k, "calleeDied")
    /\ UNCHANGED <<callerVars, calleeWatch, handling, bound, repeats, linkVars, ghostVars, th, job, calls>>

-----------------------------------------------------------------------------
(* The world: deaths of applications and abilities, links that fail and return. *)

(* The proxies of a set die: the recipients of those watched are called. *)
ProxiesDie(S) ==
    /\ calleeWatch' = [d \in Devices |-> {k \in calleeWatch[d] : <<d, k>> \notin S}]
    /\ calleeTasks' = [d \in Devices |-> [k \in Proxies |->
           IF <<d, k>> \in S /\ k \in calleeWatch[d] THEN Append(calleeTasks[d][k], "callerDied")
                                                     ELSE calleeTasks[d][k]]]

ApplicationDies(c) ==
    /\ c \in alive
    /\ alive' = alive \ {c}
    /\ callerWatch' = callerWatch \ {c}
    /\ callerDied' = callerDied \cup (callerWatch \cap {c})
    /\ ProxiesDie({<<d, <<c, epoch[d]>>>> : d \in Devices})
    /\ UNCHANGED <<callerMap, callerAdds, calleeMap, handling, bound, calleeAdds, repeats,
                   online, epoch, offlineDue, ghostVars, th, job, calls>>

AbilityDies(d) ==
    LET gone == {b[1] : b \in bound[d]} IN
    /\ d \in Flaky /\ bound[d] # {}
    /\ bound' = [bound EXCEPT ![d] = {}]
    /\ calleeTasks' = [calleeTasks EXCEPT ![d] = [k \in Proxies |->
           IF k \in gone THEN Append(calleeTasks[d][k], "calleeDied") ELSE calleeTasks[d][k]]]
    /\ lost' = lost \cup {<<k[1], d>> : k \in gone}
    /\ raced' = raced \cup {k[1] : k \in {x \in gone : \E t \in Threads : job[t].k = x}}
    /\ UNCHANGED <<callerVars, calleeMap, calleeWatch, handling, calleeAdds, repeats,
                   linkVars, th, job, calls, flapped, dropped>>

LinkDown(d) ==
    /\ d \in online \cap Flaky /\ epoch[d] < MaxDowns
    /\ online' = online \ {d}
    /\ offlineDue' = offlineDue \cup {d}
    /\ th' = [t \in Threads |-> IF th[t].pc = "waiting" /\ th[t].d = d
                                THEN [th[t] EXCEPT !.pc = "gaveUp"] ELSE th[t]]
    /\ ProxiesDie({<<d, <<c, epoch[d]>>>> : c \in Connects})
    /\ flapped' = flapped \cup {<<c, d>> : c \in {x \in Connects : d \in callerMap[x] \/ Busy(x)}}
    /\ UNCHANGED <<callerVars, calleeMap, handling, bound, calleeAdds, repeats,
                   alive, epoch, job, calls, raced, lost, dropped>>

(* DeviceOnline removes the task of ProcessDeviceOffline. *)
LinkUp(d) ==
    /\ d \notin online
    /\ online' = online \cup {d}
    /\ epoch' = [epoch EXCEPT ![d] = @ + 1]
    /\ offlineDue' = offlineDue \ {d}
    /\ UNCHANGED <<callerVars, calleeVars, alive, ghostVars, th, job, calls>>

-----------------------------------------------------------------------------
ThreadSteps(t) ==
    SaveCallerComponent(t) \/ RemoveCallerComponent(t)
JobSteps(t) ==
    \/ StartFinds(t) \/ AmsStartAbilityByCall(t) \/ StartRecords(t) \/ StartWatches(t)
    \/ ReleaseForgets(t) \/ AmsReleaseAbility(t)
HandlerSteps(d) ==
    \/ ProcessCalleeOffline(d) \/ HandlerReleases(d)
    \/ \E k \in Proxies : ProcessCallerDied(d, k) \/ ProcessCalleeDied(d, k)

Next ==
    \/ \E t \in Threads, c \in Connects, d \in Devices :
          StartRemoteAbilityByCall(t, c, d) \/ ReleaseRemoteAbility(t, c, d)
    \/ \E t \in Threads : ThreadSteps(t) \/ JobSteps(t)
    \/ \E c \in Connects : HandleLocalCallerDied(c) \/ ApplicationDies(c)
    \/ \E d \in Devices : HandlerSteps(d) \/ AbilityDies(d) \/ LinkDown(d) \/ LinkUp(d)

Spec == Init /\ [][Next]_vars

-----------------------------------------------------------------------------
(* Properties *)

TypeOK ==
    /\ alive \subseteq Connects /\ online \subseteq Devices /\ epoch \in [Devices -> 0..MaxDowns]
    /\ callerMap \in [Connects -> SUBSET Devices]
    /\ callerWatch \subseteq Connects /\ callerDied \subseteq Connects /\ offlineDue \subseteq Devices
    /\ th \in [Threads -> [pc : {"idle", "waiting", "gaveUp", "ok"},
                           op : {"none", "start", "release"},
                           c : Connects \cup {None}, d : Devices \cup {None}]]
    /\ job \in [Threads -> [pc : {"none", "start", "found", "started", "recorded", "release", "erased"},
                            k : Proxies \cup {None}, w : Wrappers \cup {0}]]
    /\ calleeMap \in [Devices -> [Proxies -> Wrappers \cup {0}]]
    /\ calleeWatch \in [Devices -> SUBSET Proxies]
    /\ calleeTasks \in [Devices -> [Proxies -> Seq({"callerDied", "calleeDied"})]]
    /\ handling \in [Devices -> (Proxies \X Wrappers) \cup {None}]
    /\ bound \in [Devices -> SUBSET (Proxies \X Wrappers)]

(* An entry of callerMap_ or calleeMap_ is never without a way to end with its        *)
(* application: its recipient is set, or its ProcessCallerDied is queued, or the       *)
(* handler that recorded it has still to set it (AddDeathRecipient comes after the     *)
(* lock was released in StartAbilityByCallFromRemote, while releases and deaths of the *)
(* same connect go on).                                                                *)
Queued(d, k) == \E i \in 1..Len(calleeTasks[d][k]) : calleeTasks[d][k][i] = "callerDied"
EveryCallWatched ==
    /\ TypeOK
    /\ \A c \in Connects : callerMap[c] # {} => c \in callerWatch \cup callerDied
    /\ \A d \in Devices, k \in Proxies : calleeMap[d][k] # 0 =>
          \/ k \in calleeWatch[d] \/ Queued(d, k)
          \/ \E t \in Threads : At(t, "recorded") /\ th[t].d = d /\ job[t].k = k

(* When nothing is under way, the two ends and the AMS agree about the calls of an      *)
(* application that runs, on devices that can be reached, unless it used the connect in *)
(* two ways at once: a session has an entry, an entry has a session, a bound ability is  *)
(* in an entry (and can be released), and additions and removals are reported in pairs, *)
(* once for each repeated start too many.  The code does not tell the caller that an    *)
(* ability died (lost), does not notice that a link failed and returned at once         *)
(* (flapped), and drops the sessions with all devices when one is released (dropped).   *)
Quiet ==
    /\ \A t \in Threads : th[t] = Idle /\ job[t] = NoJob
    /\ callerDied = {} /\ offlineDue = {}
    /\ \A d \in Devices : handling[d] = None /\ \A k \in Proxies : calleeTasks[d][k] = << >>
SidesAgree(c, d) ==
    LET recorded == calleeMap[d][ProxyOf(c, d)] # 0 IN
    /\ d \in callerMap[c] => recorded \/ <<c, d>> \in lost \cup flapped
    /\ recorded => d \in callerMap[c] \/ <<c, d>> \in dropped
CallEndsAgree ==
    Quiet => \A c \in Connects \ raced :
        /\ callerAdds[c] = IF c \in CallerComponents THEN 1 ELSE 0
        /\ \A d \in Devices :
              /\ c \in alive /\ d \in online => SidesAgree(c, d)
              /\ \A b \in bound[d] : b[1][1] = c => calleeMap[d][b[1]] = b[2]
              /\ \A k \in Proxies : k[1] = c =>
                    calleeAdds[d][k] = repeats[d][k] + IF k \in CalleeComponents(d) THEN 1 ELSE 0

(* When nothing is under way, both ends have forgotten an application that died, also  *)
(* when it died, or the link failed, with its call under way: the call then records    *)
(* what ProcessCallerDied has already cleaned, and the recipient it sets is called at   *)
(* once.                                                                               *)
DeadCallerForgotten ==
    Quiet => \A c \in Connects \ alive :
        c \notin CallerComponents
        /\ \A d \in Devices : \A k \in CalleeComponents(d) : k[1] # c
=============================================================================
