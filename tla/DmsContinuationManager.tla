------------------------ MODULE DmsContinuationManager ------------------------
(* The continuation manager (DistributedAbilityManagerService): applications register  *)
(* for a token, then callbacks for a token, and have a panel shown that lets the user    *)
(* choose a device; the panel calls back.  Calls come on IPC threads, a queue              *)
(* (continuationHandler_) does what takes long, and three mutexes guard the tokens, the      *)
(* callbacks and the panel's proxy; checks and uses are sections of their own.  A null         *)
(* pointer that is used ends the process, which starts anew with the counter of tokens          *)
(* it kept in a system parameter.  The connection to the panel is that of                         *)
(* DistributedSchedService (connect_), which no mutex guards.                                       *)
EXTENDS Naturals, Sequences, FiniteSets, SequencesExt

CONSTANTS
    Apps,             \* the applications, by access token, in the order of tokenMap_
    Threads,          \* the IPC threads of the service
    MAX_TOKEN_NUM,    \* 100000000 in the code
    MAX_REGISTER_NUM, \* 600 in the code
    Ready,            \* the callbacks each application has registered for a token at first
    MaxCalls          \* bound on the calls
ASSUME AppsAssumption == Apps \subseteq Nat \ {0} /\ IsFiniteSet(Apps)
ASSUME BoundsAssumption ==
    /\ MAX_TOKEN_NUM \in Nat /\ Cardinality(Apps) <= MAX_TOKEN_NUM
    /\ MAX_REGISTER_NUM \in Nat \ {0}
    /\ MaxCalls \in Nat

CbTypes == {"connect", "disconnect"}     \* EVENT_CONNECT, EVENT_DISCONNECT
ASSUME ReadyAssumption == Ready \in [Apps -> SUBSET CbTypes]
NoApp == 0
NoToken == 0
Tokens == 1 .. MAX_TOKEN_NUM
NoThread == 0
ASSUME ThreadsAssumption == NoThread \notin Threads
NoStub == 0
Stubs == 1 .. MaxCalls                   \* the connections to the panel (AppConnectionStub)

VARIABLES
    token,        \* token_, kept in the parameter TOKEN_KEY
    tokenMap,     \* tokenMap_: the tokens of each application
    callbackMap,  \* callbackMap_: for a token the notifiers by type, each by its application
    watched,      \* the notifiers <<token, type, application>> with a death recipient
    appProxy,     \* appProxy_: whether the panel's proxy is there
    connect,      \* connect_ of DistributedSchedService
    tokenOf,      \* the token an AppConnectionStub was made for
    ams,          \* the connections as the AMS has them
    queue,        \* continuationHandler_
    running,      \* the task it is in the middle of
    pc,           \* the call of each IPC thread
    deaths,       \* notifiers whose death the IPC still has to report
    alive,        \* the applications that live
    down,         \* the null pointer that ended the process
    calls,        \* calls so far
    given,        \* ghost: the tokens each application was given
    noticed,      \* ghost: the tokens with a notifier whose death was reported
    asked,        \* ghost: the tokens the panel was asked to be shown for
    shown,        \* ghost: the tokens it was shown for
    races         \* ghost: the races that have happened

tokens == <<token, tokenMap, given>>
callbacks == <<callbackMap, watched>>
panel == <<appProxy, connect, tokenOf, ams, asked, shown>>
tasks == <<queue, running>>
apps == <<alive, deaths, noticed>>
vars == <<tokens, callbacks, panel, tasks, apps, pc, calls, down, races>>

-----------------------------------------------------------------------------
Idle == [op |-> "idle", app |-> NoApp, tok |-> NoToken, cb |-> "none", at |-> "none", cut |-> FALSE]
Task(kind, t, cb, a, cut) == [kind |-> kind, tok |-> t, cb |-> cb, app |-> a, cut |-> cut]
Nothing == Task("none", NoToken, "none", NoApp, FALSE)

NoNotifiers == [c \in CbTypes |-> NoApp]
HasEntry(t) == t \in DOMAIN callbackMap                          \* IsNotifierRegistered
HasNotifier(t, cb) == HasEntry(t) /\ callbackMap[t][cb] # NoApp  \* IsNotifierRegisteredLocked
IsTokenRegistered(a, t) == t \in ToSet(tokenMap[a])
IsExceededRegisterMaxNum(a) == Len(tokenMap[a]) >= MAX_REGISTER_NUM

(* The entry of a token as it is set and as it goes; with it go the death recipients.  *)
SetEntry(t, e) == callbackMap' = [u \in DOMAIN callbackMap \union {t} |-> IF u = t THEN e ELSE callbackMap[u]]
NotifiersOf(t) == IF HasEntry(t) THEN {<<t, cb, callbackMap[t][cb]>> : cb \in CbTypes} ELSE {}
EraseEntry(t) ==
    /\ callbackMap' = [u \in DOMAIN callbackMap \ {t} |-> callbackMap[u]]
    /\ watched' = watched \ NotifiersOf(t)

(* The tokens after one is taken out: of one application after the other, until a list is *)
(* empty and goes (the loop of Unregister and HandleNotifierDied breaks there).  The tokens   *)
(* that are kept move up to the places free, in their order.                                    *)
Kept(s, t) == {i \in DOMAIN s : s[i] # t}
PlaceOf(S, n) == CHOOSE i \in S : Cardinality({j \in S : j <= i}) = n
Without(a, t) ==
    LET s == tokenMap[a] IN [n \in 1 .. Cardinality(Kept(s, t)) |-> s[PlaceOf(Kept(s, t), n)]]
Emptied(t) == {a \in Apps : tokenMap[a] # <<>> /\ Without(a, t) = <<>>}
(* Mutant: the loop ends after the first application, whether it had the token or not. *)
EraseToken_FirstOnly(t) ==
    tokenMap' = [a \in Apps |-> IF \A b \in Apps : tokenMap[b] # <<>> => a <= b THEN Without(a, t) ELSE tokenMap[a]]
EraseToken(t) ==
    tokenMap' = [a \in Apps |-> IF \A b \in Emptied(t) : a <= b THEN Without(a, t) ELSE tokenMap[a]]

Post(kind, t) == queue' = Append(queue, Task(kind, t, "none", NoApp, FALSE))

(* The next step of a call; cut is a ghost, set for the calls that may have checked the   *)
(* entry of a token which then goes away.                                                    *)
Moves(th, at) == pc' = [pc EXCEPT ![th].at = at]
Returns(th) == pc' = [pc EXCEPT ![th] = Idle]
Cut(c, t) == IF c.tok = t THEN [c EXCEPT !.cut = TRUE] ELSE c
Cuts(th, next, t) == pc' = [x \in Threads |-> IF x = th THEN next ELSE Cut(pc[x], t)]

-----------------------------------------------------------------------------
(* At first the applications of Ready have each registered a token, and their callbacks. *)
Init ==
    LET ready == {a \in Apps : Ready[a] # {}}
        nth == [a \in ready |-> Cardinality({b \in ready : b <= a})] IN
    /\ token = Cardinality(ready)
    /\ tokenMap = [a \in Apps |-> IF a \in ready THEN <<nth[a]>> ELSE <<>>]
    /\ given = [a \in Apps |-> IF a \in ready THEN {nth[a]} ELSE {}]
    /\ callbackMap = [t \in 1 .. Cardinality(ready) |->
          LET a == CHOOSE b \in ready : nth[b] = t
          IN [cb \in CbTypes |-> IF cb \in Ready[a] THEN a ELSE NoApp]]
    /\ watched = {<<nth[a], IF "connect" \in Ready[a] THEN "connect" ELSE "disconnect", a>> : a \in ready}
    /\ appProxy = FALSE /\ connect = NoStub /\ tokenOf = [s \in Stubs |-> NoToken]
    /\ ams = [s \in Stubs |-> "none"] /\ asked = {} /\ shown = {}
    /\ queue = <<>> /\ running = Nothing
    /\ alive = Apps /\ deaths = {} /\ noticed = {}
    /\ pc = [th \in Threads |-> Idle] /\ calls = 0 /\ down = "no" /\ races = {}

(* A call comes in: of an application, for a token it was given, or of the panel, for a   *)
(* token it was shown for.                                                                  *)
Enters(th, op, a, t, cb, at) ==
    /\ down = "no" /\ pc[th] = Idle /\ calls < MaxCalls
    /\ pc' = [pc EXCEPT ![th] = [op |-> op, app |-> a, tok |-> t, cb |-> cb, at |-> at, cut |-> FALSE]]
    /\ calls' = calls + 1
    /\ UNCHANGED <<tokens, callbacks, panel, tasks, apps, down, races>>

AppOps == {"Unregister", "UpdateConnectStatus", "StartDeviceManager"}
CbOps == {"RegisterDeviceSelectionCallback", "UnregisterDeviceSelectionCallback"}
PanelOps == {"OnDeviceConnect", "OnDeviceDisconnect", "OnDeviceCancel"}
CalledType(op) == IF op = "OnDeviceConnect" THEN "connect" ELSE "disconnect"

Calls(th) ==
    \/ \E a \in alive : Enters(th, "Register", a, NoToken, "none", "count")
    \/ \E a \in alive : \E t \in given[a], op \in AppOps : Enters(th, op, a, t, "none", "token")
    \/ \E a \in alive : \E t \in given[a], op \in CbOps, cb \in CbTypes : Enters(th, op, a, t, cb, "token")
    \/ \E t \in shown, op \in PanelOps : Enters(th, op, NoApp, t, CalledType(op), "close")

(* The steps of a call that only read the maps, in a section of their own. *)
Checks(th, at, passes, next) ==
    /\ down = "no" /\ pc[th].at = at
    /\ IF passes THEN Moves(th, next) ELSE Returns(th)
    /\ UNCHANGED <<tokens, callbacks, panel, tasks, apps, calls, down, races>>

RegisterCounts(th) == Checks(th, "count", ~IsExceededRegisterMaxNum(pc[th].app), "append")

(* The new token, kept in the parameter and then in the list of the application.  A token  *)
(* that comes round again may be one that is still registered.                               *)
NextToken == IF token + 1 > MAX_TOKEN_NUM THEN 1 ELSE token + 1
InUse(t) ==
    \/ HasEntry(t) \/ running.tok = t
    \/ \E a \in Apps : IsTokenRegistered(a, t)
    \/ \E th \in Threads : pc[th].tok = t
    \/ \E i \in DOMAIN queue : queue[i].tok = t
    \/ \E n \in deaths : n[1] = t
RegisterAppends(th) ==
    /\ down = "no" /\ pc[th].at = "append"
    /\ LET a == pc[th].app IN
       /\ tokenMap' = [tokenMap EXCEPT ![a] = Append(@, NextToken)]
       /\ given' = [given EXCEPT ![a] = @ \union {NextToken}]
    /\ token' = NextToken
    /\ races' = races \union (IF InUse(NextToken) THEN {"reissued"} ELSE {})
                    \union (IF token + 1 > MAX_TOKEN_NUM THEN {"wrapped"} ELSE {})
    /\ noticed' = noticed \ {NextToken}
    /\ Returns(th)
    /\ UNCHANGED <<callbacks, panel, tasks, alive, deaths, calls, down>>

CheckToken(th) ==
    Checks(th, "token", IsTokenRegistered(pc[th].app, pc[th].tok),
           CASE pc[th].op = "Unregister" -> "erase"
             [] OTHER -> "entry")

(* The callback is there (or, for a registration, is not there yet). *)
CheckEntry(th) ==
    LET c == pc[th] IN
    CASE c.op = "RegisterDeviceSelectionCallback" -> Checks(th, "entry", ~HasNotifier(c.tok, c.cb), "use")
      [] c.op \in AppOps -> Checks(th, "entry", HasEntry(c.tok), "use")
      [] OTHER -> Checks(th, "entry", HasNotifier(c.tok, c.cb), "use")

-----------------------------------------------------------------------------
(* Unregister: the callbacks of the token, then the token, then the panel is closed. *)
UnregisterErasesEntry(th) ==
    /\ down = "no" /\ pc[th].at = "erase"
    /\ EraseEntry(pc[th].tok)
    /\ Cuts(th, [pc[th] EXCEPT !.at = "erase token"], pc[th].tok)
    /\ UNCHANGED <<tokens, panel, tasks, apps, calls, down, races>>
UnregisterErasesToken(th) ==
    /\ down = "no" /\ pc[th].at = "erase token"
    /\ EraseToken(pc[th].tok)
    /\ Post("disconnect", NoToken)
    /\ Cuts(th, Idle, pc[th].tok)
    /\ UNCHANGED <<token, given, callbacks, panel, running, apps, calls, down, races>>

(* Only the first notifier of an entry gets the death recipient; one that is dead already *)
(* never reports.                                                                            *)
RegisterDeviceSelectionCallback(th) ==
    LET c == pc[th] IN
    /\ down = "no" /\ c.op = "RegisterDeviceSelectionCallback" /\ c.at = "use"
    /\ IF HasEntry(c.tok)
       THEN SetEntry(c.tok, [callbackMap[c.tok] EXCEPT ![c.cb] = c.app]) /\ watched' = watched
       ELSE /\ SetEntry(c.tok, [NoNotifiers EXCEPT ![c.cb] = c.app])
            /\ watched' = watched \union (IF c.app \in alive THEN {<<c.tok, c.cb, c.app>>} ELSE {})
    /\ races' = races \union (IF c.app \notin alive THEN {"died in call"} ELSE {})
    /\ Returns(th)
    /\ UNCHANGED <<tokens, panel, tasks, apps, calls, down>>

UnregisterDeviceSelectionCallback(th) ==
    LET c == pc[th]
        e == [callbackMap[c.tok] EXCEPT ![c.cb] = NoApp] IN
    /\ down = "no" /\ c.op = "UnregisterDeviceSelectionCallback" /\ c.at = "use"
    /\ \/ ~HasEntry(c.tok) /\ UNCHANGED callbacks
       \/ HasEntry(c.tok) /\ e = NoNotifiers /\ EraseEntry(c.tok)
       \/ /\ HasEntry(c.tok) /\ e # NoNotifiers
          /\ SetEntry(c.tok, e)
          /\ watched' = watched \ {<<c.tok, c.cb, callbackMap[c.tok][c.cb]>>}
    /\ races' = races \union (IF watched' # watched /\ c.tok \in DOMAIN callbackMap' THEN {"unwatched"} ELSE {})
                      \union (IF c.app \notin alive THEN {"died in call"} ELSE {})
    /\ Cuts(th, Idle, c.tok)
    /\ UNCHANGED <<tokens, panel, tasks, apps, calls, down>>

(* callbackMap_[token]-> of an entry that has gone uses a null pointer. *)
UsesNull(what) == down' = what /\ UNCHANGED <<tokens, callbacks, panel, tasks, apps, pc, calls, races>>

(* The status is kept with the callbacks (its value is not told apart here), and sent to    *)
(* the panel if there is one.                                                                  *)
UpdateKeeps(th) ==
    LET c == pc[th] IN
    /\ c.op = "UpdateConnectStatus" /\ c.at = "use" /\ down = "no"
    /\ IF HasEntry(c.tok)
       THEN Moves(th, "send") /\ UNCHANGED <<tokens, callbacks, panel, tasks, apps, calls, down, races>>
       ELSE UsesNull("entry")
(* Mutant: the task is queued without a look at appProxy_. *)
UpdateSends_Unlooked(th) ==
    LET c == pc[th] IN
    /\ down = "no" /\ c.op = "UpdateConnectStatus" /\ c.at = "send"
    /\ Post("update", c.tok)
    /\ Returns(th)
    /\ UNCHANGED <<tokens, callbacks, panel, running, apps, calls, down, races>>

UpdateSends(th) ==
    LET c == pc[th] IN
    /\ down = "no" /\ c.op = "UpdateConnectStatus" /\ c.at = "send"
    /\ IF appProxy THEN Post("update", c.tok) ELSE queue' = queue
    /\ Returns(th)
    /\ UNCHANGED <<tokens, callbacks, panel, running, apps, calls, down, races>>

(* StartDeviceManager: a task for the panel, or the panel is connected first. *)
StartPosts(th) ==
    LET c == pc[th] IN
    /\ down = "no" /\ c.op = "StartDeviceManager" /\ c.at = "use"
    /\ IF appProxy
       THEN Post("start", c.tok) /\ asked' = asked \union {c.tok} /\ Returns(th)
       ELSE Moves(th, "connect") /\ UNCHANGED <<queue, asked>>
    /\ UNCHANGED <<tokens, callbacks, appProxy, connect, tokenOf, ams, shown, running, apps, calls, down, races>>

(* DistributedSchedService::ConnectAbility: a connection that is still there is used again, *)
(* with the token it was made for.  Stubs are numbered as they are made, by one call each.    *)
FreshStub(s) == tokenOf[s] = NoToken /\ \A r \in Stubs : tokenOf[r] = NoToken => s <= r
ConnectAbility(th) ==
    LET c == pc[th] IN
    /\ down = "no" /\ c.at = "connect"
    /\ IF connect = NoStub
       THEN /\ \E s \in Stubs : FreshStub(s) /\ connect' = s /\ tokenOf' = [tokenOf EXCEPT ![s] = c.tok]
            /\ races' = races
       ELSE /\ UNCHANGED <<connect, tokenOf>>
            /\ races' = races \union (IF tokenOf[connect] # c.tok THEN {"reused"} ELSE {})
    /\ Moves(th, "bind")
    /\ UNCHANGED <<tokens, callbacks, appProxy, ams, asked, shown, tasks, apps, calls, down>>
AmsConnectAbility(th) ==
    LET c == pc[th] IN
    /\ down = "no" /\ c.at = "bind"
    /\ \/ /\ connect # NoStub
          /\ \E state \in IF ams[connect] = "connected" THEN {"connected", "connecting"} ELSE {"connecting"} :
                ams' = [ams EXCEPT ![connect] = state]
          /\ asked' = asked \union {c.tok} /\ connect' = connect
          /\ races' = races \union (IF running.kind = "disconnect" THEN {"crossed"} ELSE {})
                            \union (IF tokenOf[connect] # c.tok \/ ams[connect] = "connected"
                                    THEN {"reused"} ELSE {})
       \/ /\ connect' = NoStub
          /\ races' = races \union (IF connect # NoStub /\ ams[connect] # "none" THEN {"forgotten"} ELSE {})
          /\ UNCHANGED <<ams, asked>>
    /\ Returns(th)
    /\ UNCHANGED <<tokens, callbacks, appProxy, tokenOf, shown, tasks, apps, calls, down>>

-----------------------------------------------------------------------------
(* The panel has a choice, or was closed: it is disconnected first, then told on. *)
PanelCloses(th) ==
    /\ down = "no" /\ pc[th].at = "close"
    /\ Post("disconnect", NoToken)
    /\ IF pc[th].op = "OnDeviceCancel" THEN Returns(th) ELSE Moves(th, "entry")
    /\ UNCHANGED <<tokens, callbacks, panel, running, apps, calls, down, races>>
PanelTells(th) ==
    LET c == pc[th] IN
    /\ c.op \in {"OnDeviceConnect", "OnDeviceDisconnect"} /\ c.at = "use" /\ down = "no"
    /\ IF ~HasEntry(c.tok) THEN UsesNull("entry")
       ELSE /\ queue' = Append(queue, Task("tell", c.tok, c.cb, callbackMap[c.tok][c.cb], c.cut))
            /\ Returns(th)
            /\ UNCHANGED <<tokens, callbacks, panel, running, apps, calls, down, races>>

(* The AMS: the panel is connected (OnAbilityConnectDone), or is not any more               *)
(* (OnAbilityDisconnectDone), because it was disconnected or died: ScheduleStartDeviceManager. *)
AmsConnectDone ==
    \E s \in Stubs :
       /\ down = "no" /\ ams[s] = "connecting"
       /\ ams' = [ams EXCEPT ![s] = "connected"] /\ appProxy' = TRUE
       /\ Post("start", tokenOf[s])
       /\ UNCHANGED <<tokens, callbacks, connect, tokenOf, asked, shown, running, apps, pc, calls, down, races>>
(* Mutant: the proxy of the panel that has gone is kept. *)
AmsDisconnectDone_KeepsProxy ==
    \E s \in Stubs :
       /\ down = "no" /\ ams[s] # "none"
       /\ ams' = [ams EXCEPT ![s] = "none"] /\ appProxy' = appProxy
       /\ queue' = [i \in DOMAIN queue |-> [queue[i] EXCEPT !.cut = TRUE]]
       /\ races' = races \union (IF \E r \in Stubs \ {s} : ams[r] = "connected" THEN {"late"} ELSE {})
       /\ asked' = asked \ {tokenOf[s]}
       /\ UNCHANGED <<tokens, callbacks, connect, tokenOf, shown, running, apps, pc, calls, down>>

AmsDisconnectDone ==
    \E s \in Stubs :
       /\ down = "no" /\ ams[s] # "none"
       /\ ams' = [ams EXCEPT ![s] = "none"] /\ appProxy' = FALSE
       /\ queue' = [i \in DOMAIN queue |-> [queue[i] EXCEPT !.cut = TRUE]]
       /\ races' = races \union (IF \E r \in Stubs \ {s} : ams[r] = "connected" THEN {"late"} ELSE {})
       /\ asked' = asked \ {tokenOf[s]}
       /\ UNCHANGED <<tokens, callbacks, connect, tokenOf, shown, running, apps, pc, calls, down>>

-----------------------------------------------------------------------------
(* The queue.  HandleStartDeviceManager and HandleUpdateConnectStatus use appProxy_ as it is *)
(* when they run; a notifier that is null is used by its proxy.                               *)
Takes(kind) == down = "no" /\ running = Nothing /\ queue # <<>> /\ Head(queue).kind = kind
HandlerStarts ==
    /\ Takes("start")
    /\ IF appProxy
       THEN /\ shown' = shown \union {Head(queue).tok} /\ asked' = asked \ {Head(queue).tok}
            /\ queue' = Tail(queue)
            /\ UNCHANGED <<tokens, callbacks, appProxy, connect, tokenOf, ams, running, apps, pc, calls, down, races>>
       ELSE UsesNull("proxy")
HandlerUpdates ==
    /\ Takes("update")
    /\ IF appProxy
       THEN queue' = Tail(queue) /\ UNCHANGED <<tokens, callbacks, panel, running, apps, pc, calls, down, races>>
       ELSE UsesNull("proxy")
HandlerTells ==
    /\ Takes("tell")
    /\ IF Head(queue).app # NoApp
       THEN queue' = Tail(queue) /\ UNCHANGED <<tokens, callbacks, panel, running, apps, pc, calls, down, races>>
       ELSE UsesNull("notifier")

(* DisconnectAbility: the connection is ended and then forgotten. *)
HandlerDisconnects ==
    /\ Takes("disconnect")
    /\ queue' = Tail(queue) /\ asked' = {}
    /\ IF connect = NoStub THEN UNCHANGED <<ams, running>>
       ELSE /\ ams' = [ams EXCEPT ![connect] = IF @ = "none" THEN @ ELSE "disconnecting"]
            /\ running' = Head(queue)
    /\ UNCHANGED <<tokens, callbacks, appProxy, connect, tokenOf, shown, apps, pc, calls, down, races>>
HandlerForgetsConnection ==
    /\ down = "no" /\ running.kind = "disconnect"
    /\ connect' = NoStub /\ running' = Nothing
    /\ UNCHANGED <<tokens, callbacks, appProxy, tokenOf, ams, asked, shown, queue, apps, pc, calls, down, races>>

(* HandleNotifierDied: the entry with the notifier (found again under the lock), then its   *)
(* token, then the panel is closed.                                                            *)
HandlerForgetsNotifier ==
    LET d == Head(queue) IN
    /\ Takes("died")
    /\ IF <<d.tok, d.cb, d.app>> \in NotifiersOf(d.tok)
       THEN EraseEntry(d.tok) /\ running' = d /\ Cuts(NoThread, Idle, d.tok)
       ELSE UNCHANGED <<callbacks, running, pc>>
    /\ queue' = Tail(queue)
    /\ UNCHANGED <<tokens, panel, apps, calls, down, races>>
HandlerForgetsToken ==
    /\ down = "no" /\ running.kind = "died"
    /\ EraseToken(running.tok)
    /\ Post("disconnect", NoToken)
    /\ running' = Nothing
    /\ Cuts(NoThread, Idle, running.tok)
    /\ UNCHANGED <<token, given, callbacks, panel, apps, calls, down, races>>

-----------------------------------------------------------------------------
(* An application dies; the IPC reports each of its notifiers that has a death recipient,  *)
(* unless that was taken away meanwhile.                                                      *)
AppDies ==
    \E a \in alive :
       /\ down = "no"
       /\ alive' = alive \ {a}
       /\ deaths' = deaths \union {n \in watched : n[3] = a}
       /\ UNCHANGED <<tokens, callbacks, panel, tasks, noticed, pc, calls, down, races>>
ProcessNotifierDied ==
    \E n \in deaths :
       /\ down = "no"
       /\ deaths' = deaths \ {n}
       /\ \/ /\ queue' = Append(queue, Task("died", n[1], n[2], n[3], FALSE))
             /\ noticed' = noticed \union {n[1]}
          \/ n \notin watched /\ UNCHANGED <<queue, noticed>>
       /\ UNCHANGED <<tokens, callbacks, panel, running, alive, pc, calls, down, races>>

(* Mutant: the counter is not read back from the parameter. *)
Restart_CountsAnew ==
    /\ down # "no"
    /\ down' = "no"
    /\ token' = 0 /\ tokenMap' = [a \in Apps |-> <<>>] /\ given' = given
    /\ callbackMap' = <<>> /\ watched' = {}
    /\ appProxy' = FALSE /\ connect' = NoStub /\ tokenOf' = [s \in Stubs |-> NoToken]
    /\ ams' = [s \in Stubs |-> "none"] /\ asked' = {} /\ shown' = {}
    /\ queue' = <<>> /\ running' = Nothing
    /\ alive' = alive /\ deaths' = {} /\ noticed' = {}
    /\ pc' = [th \in Threads |-> Idle] /\ calls' = calls /\ races' = races \intersect {"wrapped"}

(* The process starts anew (OnStart): of its state only the counter was kept. *)
Restart ==
    /\ down # "no"
    /\ down' = "no"
    /\ token' = token /\ tokenMap' = [a \in Apps |-> <<>>] /\ given' = given
    /\ callbackMap' = <<>> /\ watched' = {}
    /\ appProxy' = FALSE /\ connect' = NoStub /\ tokenOf' = [s \in Stubs |-> NoToken]
    /\ ams' = [s \in Stubs |-> "none"] /\ asked' = {} /\ shown' = {}
    /\ queue' = <<>> /\ running' = Nothing
    /\ alive' = alive /\ deaths' = {} /\ noticed' = {}
    /\ pc' = [th \in Threads |-> Idle] /\ calls' = calls /\ races' = races \intersect {"wrapped"}

CallSteps(th) ==
    \/ RegisterCounts(th) \/ RegisterAppends(th) \/ CheckToken(th) \/ CheckEntry(th)
    \/ UnregisterErasesEntry(th) \/ UnregisterErasesToken(th)
    \/ RegisterDeviceSelectionCallback(th) \/ UnregisterDeviceSelectionCallback(th)
    \/ UpdateKeeps(th) \/ UpdateSends(th)
    \/ StartPosts(th) \/ ConnectAbility(th) \/ AmsConnectAbility(th)
    \/ PanelCloses(th) \/ PanelTells(th)
Handler ==
    \/ HandlerStarts \/ HandlerUpdates \/ HandlerTells
    \/ HandlerDisconnects \/ HandlerForgetsConnection
    \/ HandlerForgetsNotifier \/ HandlerForgetsToken

Next ==
    \/ \E th \in Threads : Calls(th) \/ CallSteps(th)
    \/ AmsConnectDone \/ AmsDisconnectDone
    \/ Handler
    \/ AppDies \/ ProcessNotifierDied \/ Restart

Spec == Init /\ [][Next]_vars

-----------------------------------------------------------------------------
TypeOK ==
    /\ token \in 0 .. MAX_TOKEN_NUM
    /\ tokenMap \in [Apps -> Seq(Tokens)] /\ given \in [Apps -> SUBSET Tokens]
    /\ DOMAIN callbackMap \subseteq Tokens
    /\ \A t \in DOMAIN callbackMap : callbackMap[t] \in [CbTypes -> Apps \union {NoApp}]
    /\ watched \union deaths \subseteq Tokens \X CbTypes \X Apps
    /\ appProxy \in BOOLEAN /\ connect \in Stubs \union {NoStub}
    /\ ams \in [Stubs -> {"none", "connecting", "connected", "disconnecting"}]
    /\ alive \subseteq Apps
    /\ down \in {"no", "entry", "proxy", "notifier"}

(* The service uses a null pointer only when another thread got in between its look and    *)
(* its use: the callbacks of the token went away after the call had checked them, or the       *)
(* panel was disconnected after a task for it was queued.  No sequence of calls that do not      *)
(* overlap does it, and no null entry is left behind in callbackMap_.                              *)
DiesOnlyByRace ==
    /\ down = "entry" => \E th \in Threads : pc[th].at = "use" /\ pc[th].cut
    /\ down \in {"proxy", "notifier"} => Head(queue).cut
    /\ \A t \in DOMAIN callbackMap : callbackMap[t] # NoNotifiers

AtRest ==
    /\ down = "no" /\ queue = <<>> /\ running = Nothing /\ deaths = {}
    /\ \A th \in Threads : pc[th] = Idle
    /\ \A s \in Stubs : ams[s] \in {"none", "connected"}

(* Once all is done, an application that died has left neither a callback that was watched  *)
(* nor the token of one; and every entry has a notifier that is watched, so that the death of    *)
(* its application will be seen.  The exceptions: the notifier that was set second is not watched,  *)
(* and stays so when the first is unregistered; an application that died in the middle of setting      *)
(* or unregistering a callback; a token that was given again while it was in use.  All state keeps its   *)
(* type.                                                                                                   *)
DeadAppForgotten ==
    /\ TypeOK
    /\ AtRest /\ races \intersect {"reissued", "died in call"} = {} =>
          /\ \A n \in watched : n[3] \in alive
          /\ \A t \in noticed : \A a \in Apps \ alive : t \notin ToSet(tokenMap[a])
          /\ "unwatched" \notin races => \A t \in DOMAIN callbackMap : NotifiersOf(t) \intersect watched # {}

(* Once all is done, a connection the AMS keeps is the one the service would close, the      *)
(* service has the panel's proxy exactly if one is connected, and the panel was shown for          *)
(* every token it was asked for since it was last closed.  The exceptions are the races on           *)
(* connect_ and appProxy_: a connection made while the handler closes it (crossed), one that a       *)
(* second start used and failed to connect, which forgets it (forgotten), the end of an older            *)
(* connection reported after the next was made (late), and a connection used again for another             *)
(* token, or for one that is already there (reused).                                                        *)
PanelAgrees ==
    AtRest =>
       /\ races \intersect {"crossed", "forgotten"} = {} => \A s \in Stubs : ams[s] = "connected" => connect = s
       /\ "late" \notin races => (appProxy <=> \E s \in Stubs : ams[s] = "connected")
       /\ "reused" \notin races => asked = {}

(* Two applications are never given one token, also not by a process that was started anew,  *)
(* until the counter has come round.                                                                *)
TokensApart ==
    "wrapped" \in races \/ \A a, b \in Apps : a # b => given[a] \intersect given[b] = {}
=============================================================================
