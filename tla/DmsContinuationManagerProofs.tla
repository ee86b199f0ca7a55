---------------------- MODULE DmsContinuationManagerProofs ----------------------
(***************************************************************************)
(* What DmsContinuationManager promises for any applications, threads and  *)
(* bounds on tokens and calls.                                             *)
(***************************************************************************)
EXTENDS DmsContinuationManager, FiniteSetTheorems, SequenceTheorems, TLAPS

-----------------------------------------------------------------------------
(* The tokens of the applications that are ready at first. *)
Prepared == {a \in Apps : Ready[a] # {}}
Upto(a) == {b \in Prepared : b <= a}
Nth == [a \in Prepared |-> Cardinality(Upto(a))]

LEMMA PreparedFinite ==
    /\ IsFiniteSet(Prepared) /\ Prepared \subseteq Nat \ {0}
    /\ Cardinality(Prepared) \in 0 .. MAX_TOKEN_NUM
  <1>1. Prepared \in SUBSET Apps /\ IsFiniteSet(Apps) /\ Prepared \subseteq Nat \ {0}
    BY AppsAssumption DEF Prepared
  <1>2. /\ IsFiniteSet(Prepared) /\ Cardinality(Prepared) \in Nat /\ Cardinality(Apps) \in Nat
        /\ Cardinality(Prepared) <= Cardinality(Apps)
    BY <1>1, FS_Subset, FS_CardinalityType
  <1>3. QED
    BY <1>1, <1>2, BoundsAssumption

(* The n-th of them gets the token n: no two get one token, and every token goes to one. *)
LEMMA NthType == Nth \in [Prepared -> 1 .. Cardinality(Prepared)]
  <1>1. SUFFICES ASSUME NEW a \in Prepared
                 PROVE  Cardinality(Upto(a)) \in 1 .. Cardinality(Prepared)
    BY DEF Nth
  <1>2. Upto(a) \in SUBSET Prepared /\ a \in Upto(a)
    BY PreparedFinite DEF Upto
  <1>3. /\ IsFiniteSet(Upto(a)) /\ Cardinality(Upto(a)) \in Nat /\ Cardinality(Prepared) \in Nat
        /\ Cardinality(Upto(a)) <= Cardinality(Prepared)
    BY <1>2, PreparedFinite, FS_Subset, FS_CardinalityType
  <1>4. Cardinality(Upto(a)) # 0
    BY <1>2, <1>3, FS_EmptySet
  <1>5. QED
    BY <1>3, <1>4

LEMMA NthApart == \A a, b \in Prepared : Nth[a] = Nth[b] => a = b
  <1>1. \A a, b \in Prepared : a < b => Nth[a] # Nth[b]
    <2>1. SUFFICES ASSUME NEW a \in Prepared, NEW b \in Prepared, a < b
                   PROVE  Cardinality(Upto(a)) # Cardinality(Upto(b))
      BY DEF Nth
    <2>2. Upto(a) \in SUBSET Upto(b) /\ b \in Upto(b) /\ b \notin Upto(a)
      <3>1. a \in Nat /\ b \in Nat /\ \A c \in Prepared : c \in Nat
        BY PreparedFinite
      <3>2. \A c \in Prepared : c <= a => c <= b
        BY <2>1, <3>1
      <3>3. b <= b /\ ~(b <= a)
        BY <2>1, <3>1
      <3>4. QED
        BY <3>2, <3>3 DEF Upto
    <2>3. IsFiniteSet(Upto(b))
      BY PreparedFinite, FS_Subset DEF Upto
    <2>4. QED
      BY <2>2, <2>3, FS_Subset
  <1>2. QED
    BY <1>1, PreparedFinite

LEMMA NthOnto == \A t \in 1 .. Cardinality(Prepared) : \E a \in Prepared : Nth[a] = t
  <1> DEFINE n == Cardinality(Prepared)
  <1>1. n \in Nat
    BY PreparedFinite
  <1>2. IsFiniteSet(1 .. n) /\ Cardinality(1 .. n) = n
    BY <1>1, FS_Interval
  <1>3. Nth \in Injection(Prepared, 1 .. n)
    BY NthType, NthApart DEF Injection, IsInjective
  <1>4. Nth \in Surjection(Prepared, 1 .. n)
    BY <1>2, <1>3, FS_Injection
  <1>5. QED
    BY <1>4 DEF Surjection

-----------------------------------------------------------------------------
(* No token twice.  Until the counter has come round it is above every token given. *)
TokensBelow ==
    /\ token \in Nat
    /\ given \in [Apps -> SUBSET Nat]
    /\ "wrapped" \in races \/ \A a \in Apps : \A t \in given[a] : t <= token

TokensInv == TokensBelow /\ TokensApart

LEMMA InitTokens == Init => TokensInv
  <1>1. SUFFICES ASSUME Init PROVE TokensInv
    OBVIOUS
  <1>2. /\ token = Cardinality(Prepared)
        /\ given = [a \in Apps |-> IF a \in Prepared THEN {Nth[a]} ELSE {}]
    BY <1>1 DEF Init, Prepared, Nth, Upto
  <1>3. token \in Nat
    BY <1>2, PreparedFinite, FS_CardinalityType
  <1>4. \A a \in Prepared : Nth[a] \in Nat /\ Nth[a] <= token
    BY <1>2, <1>3, NthType
  <1>5. TokensBelow
    BY <1>2, <1>3, <1>4 DEF TokensBelow
  <1>6. TokensApart
    BY <1>2, NthApart DEF TokensApart
  <1>7. QED
    BY <1>5, <1>6 DEF TokensInv

LEMMA AppendsTokens ==
    ASSUME TokensInv, NEW th \in Threads, RegisterAppends(th)
    PROVE  TokensInv'
  <1> DEFINE a == pc[th].app
  <1>1. /\ token' = NextToken /\ given' = [given EXCEPT ![a] = given[a] \union {NextToken}]
        /\ "wrapped" \in races => "wrapped" \in races'
        /\ token + 1 > MAX_TOKEN_NUM => "wrapped" \in races'
    BY DEF RegisterAppends
  <1>2. token \in Nat /\ MAX_TOKEN_NUM \in Nat /\ NextToken \in Nat
    BY BoundsAssumption DEF TokensInv, TokensBelow, NextToken
  <1>3. given' \in [Apps -> SUBSET Nat]
    BY <1>1, <1>2 DEF TokensInv, TokensBelow
  <1>4. CASE "wrapped" \in races'
    BY <1>1, <1>2, <1>3, <1>4 DEF TokensInv, TokensBelow, TokensApart
  <1>5. CASE "wrapped" \notin races'
    <2>1. NextToken = token + 1
      BY <1>1, <1>2, <1>5 DEF NextToken
    <2>2. \A b \in Apps : \A t \in given[b] : t \in Nat /\ t <= token
      BY <1>1, <1>5 DEF TokensInv, TokensBelow
    <2>3. \A b \in Apps : \/ given'[b] = given[b]
                          \/ b = a /\ given'[b] = given[b] \union {token + 1}
      BY <1>1, <2>1 DEF TokensInv, TokensBelow
    <2>4. \A b \in Apps : token + 1 \notin given[b]
      BY <1>2, <2>2
    <2>5. TokensApart'
      BY <1>1, <1>5, <2>3, <2>4 DEF TokensInv, TokensApart
    <2>6. \A b \in Apps : \A t \in given'[b] : t <= token + 1
      <3>1. \A t \in Nat : t <= token => t <= token + 1
        BY <1>2
      <3>2. token + 1 <= token + 1
        BY <1>2
      <3>3. QED
        BY <2>2, <2>3, <3>1, <3>2
    <2>7. TokensBelow'
      BY <1>1, <1>2, <1>3, <2>1, <2>6 DEF TokensBelow
    <2>8. QED
      BY <2>5, <2>7 DEF TokensInv
  <1>6. QED
    BY <1>4, <1>5

LEMMA NextTokens ==
    ASSUME TokensInv, [Next]_vars
    PROVE  TokensInv'
  <1>1. CASE \E th \in Threads : RegisterAppends(th)
    BY <1>1, AppendsTokens
  <1>2. CASE UNCHANGED <<token, given>> /\ ("wrapped" \in races => "wrapped" \in races')
    BY <1>2 DEF TokensInv, TokensBelow, TokensApart
  <1>3. CASE UNCHANGED vars
    BY <1>2, <1>3 DEF vars, tokens
  <1>4. CASE \E th \in Threads : Calls(th)
    BY <1>2, <1>4 DEF Calls, Enters, tokens
  <1>5. CASE \E th \in Threads : CallSteps(th) /\ ~RegisterAppends(th)
    BY <1>2, <1>5
       DEF CallSteps, RegisterCounts, CheckToken, CheckEntry, Checks,
           UnregisterErasesEntry, UnregisterErasesToken, RegisterDeviceSelectionCallback,
           UnregisterDeviceSelectionCallback, UpdateKeeps, UpdateSends, UsesNull, StartPosts,
           ConnectAbility, AmsConnectAbility, PanelCloses, PanelTells, tokens
  <1>6. CASE AmsConnectDone \/ AmsDisconnectDone \/ AppDies \/ ProcessNotifierDied \/ Restart
    BY <1>2, <1>6
       DEF AmsConnectDone, AmsDisconnectDone, AppDies, ProcessNotifierDied, Restart, tokens
  <1>7. CASE Handler
    BY <1>2, <1>7
       DEF Handler, HandlerStarts, HandlerUpdates, HandlerTells, HandlerDisconnects,
           HandlerForgetsConnection, HandlerForgetsNotifier, HandlerForgetsToken, UsesNull, tokens
  <1>8. QED
    BY <1>1, <1>3, <1>4, <1>5, <1>6, <1>7 DEF Next

(* Two applications are never given one token before the counter has come round, however  *)
(* often the process ends and starts anew.                                                *)
THEOREM TokensCorrect == Spec => []TokensApart
  <1>1. TokensInv => TokensApart
    BY DEF TokensInv
  <1>2. TokensInv /\ [Next]_vars => TokensInv'
    BY NextTokens
  <1>3. QED
    BY <1>1, <1>2, InitTokens, PTL DEF Spec

-----------------------------------------------------------------------------
(* Types of the calls, the tasks and the entries. *)
Toks == 0 .. MAX_TOKEN_NUM
Ops == {"idle", "Register"} \union AppOps \union CbOps \union PanelOps
Places == {"none", "count", "append", "token", "entry", "use", "send", "connect", "bind",
           "erase", "erase token", "close"}
Kinds == {"none", "start", "update", "tell", "disconnect", "died"}
CallSet == [op : Ops, app : Apps \union {NoApp}, tok : Toks, cb : CbTypes \union {"none"},
            at : Places, cut : BOOLEAN]
TaskSet == [kind : Kinds, tok : Toks, cb : CbTypes \union {"none"}, app : Apps \union {NoApp},
            cut : BOOLEAN]
Notifiers == Toks \X CbTypes \X Apps
Entries == [CbTypes -> Apps \union {NoApp}]

TokensType ==
    /\ token \in Toks /\ given \in [Apps -> SUBSET Toks]
    /\ tokenOf \in [Stubs -> Toks] /\ shown \in SUBSET Toks
AppsType == alive \in SUBSET Apps /\ watched \in SUBSET Notifiers /\ deaths \in SUBSET Notifiers
EntriesType == \A t \in DOMAIN callbackMap : t \in Toks /\ callbackMap[t] \in Entries
CallsType ==
    /\ pc \in [Threads -> CallSet]
    /\ \A th \in Threads :
          /\ pc[th].op \in {"Register"} \union AppOps \union CbOps => pc[th].app \in Apps
          /\ pc[th].op \in CbOps \union PanelOps => pc[th].cb \in CbTypes
          /\ pc[th].at \in {"count", "append"} => pc[th].op = "Register"
TasksType == queue \in Seq(TaskSet) /\ running \in TaskSet

TypeInv == TokensType /\ AppsType /\ EntriesType /\ CallsType /\ TasksType

LEMMA Zeros == NoApp \notin Apps /\ NoToken \in Toks
  BY AppsAssumption, BoundsAssumption DEF NoApp, NoToken, Toks

LEMMA TaskType ==
    ASSUME NEW kind \in Kinds, NEW t \in Toks, NEW cb \in CbTypes \union {"none"},
           NEW a \in Apps \union {NoApp}, NEW cut \in BOOLEAN
    PROVE  Task(kind, t, cb, a, cut) \in TaskSet
  BY DEF Task, TaskSet

LEMMA PostType ==
    ASSUME TypeInv, NEW kind \in Kinds, NEW t \in Toks, Post(kind, t)
    PROVE  queue' \in Seq(TaskSet)
  <1>1. PICK x \in TaskSet : x = Task(kind, t, "none", NoApp, FALSE)
    BY TaskType
  <1>2. queue' = Append(queue, x) /\ queue \in Seq(TaskSet)
    BY <1>1, Zenon DEF Post, TypeInv, TasksType
  <1>3. QED
    BY <1>2

LEMMA IdleType == Idle \in CallSet /\ Idle.op = "idle" /\ Idle.at = "none"
  BY Zeros DEF Idle, CallSet, Ops, Places

(* One thread goes on to c, which is as good a call. *)
GoodCall(c) ==
    /\ c \in CallSet
    /\ c.op \in {"Register"} \union AppOps \union CbOps => c.app \in Apps
    /\ c.op \in CbOps \union PanelOps => c.cb \in CbTypes
    /\ c.at \in {"count", "append"} => c.op = "Register"

LEMMA MovedCall ==
    ASSUME NEW c \in CallSet, NEW at \in Places
    PROVE  LET d == [c EXCEPT !.at = at] IN
           /\ d \in CallSet
           /\ d.op = c.op /\ d.app = c.app /\ d.tok = c.tok /\ d.cb = c.cb /\ d.at = at
           /\ d.cut = c.cut
  BY DEF CallSet

LEMMA MovesTo ==
    ASSUME CallsType, NEW th \in Threads, NEW at \in Places, Moves(th, at)
    PROVE  /\ pc'[th] = [pc[th] EXCEPT !.at = at]
           /\ \A x \in Threads : x # th => pc'[x] = pc[x]
           /\ pc' \in [Threads -> CallSet]
  <1>1. [pc[th] EXCEPT !.at = at] \in CallSet
    BY MovedCall DEF CallsType
  <1>2. pc' = [pc EXCEPT ![th] = [pc[th] EXCEPT !.at = at]]
    BY DEF Moves
  <1>3. QED
    BY <1>1, <1>2 DEF CallsType

LEMMA MovesType ==
    ASSUME CallsType, NEW th \in Threads, NEW at \in Places, Moves(th, at),
           at \in {"count", "append"} => pc[th].op = "Register"
    PROVE  CallsType'
  <1>1. GoodCall([pc[th] EXCEPT !.at = at])
    BY MovedCall DEF CallsType, GoodCall
  <1>2. QED
    BY <1>1, MovesTo DEF CallsType, GoodCall

LEMMA ReturnsType ==
    ASSUME CallsType, NEW th \in Threads, Returns(th)
    PROVE  CallsType'
  BY IdleType DEF Returns, CallsType, AppOps, CbOps, PanelOps

LEMMA IdleGood == GoodCall(Idle)
  BY IdleType DEF GoodCall, AppOps, CbOps, PanelOps

(* A cut call is the same call. *)
LEMMA CutCall ==
    ASSUME NEW c \in CallSet, NEW t
    PROVE  /\ Cut(c, t) \in CallSet
           /\ Cut(c, t).op = c.op /\ Cut(c, t).app = c.app /\ Cut(c, t).tok = c.tok
           /\ Cut(c, t).cb = c.cb /\ Cut(c, t).at = c.at
           /\ c.tok = t => Cut(c, t).cut
           /\ c.tok # t => Cut(c, t) = c
  BY DEF Cut, CallSet

LEMMA CutsType ==
    ASSUME CallsType, NEW th, NEW next, GoodCall(next), NEW t, Cuts(th, next, t)
    PROVE  CallsType'
  <1>1. pc' = [x \in Threads |-> IF x = th THEN next ELSE Cut(pc[x], t)]
    BY DEF Cuts
  <1>2. \A x \in Threads : pc[x] \in CallSet
    BY DEF CallsType
  <1>3. pc' \in [Threads -> CallSet]
    BY <1>1, <1>2, CutCall DEF GoodCall
  <1>4. ASSUME NEW x \in Threads PROVE GoodCall(pc'[x])
    <2>1. CASE x = th
      BY <1>1, <2>1
    <2>2. CASE x # th
      <3>1. pc'[x] = Cut(pc[x], t)
        BY <1>1, <2>2
      <3>2. QED
        BY <1>2, <3>1, CutCall DEF GoodCall, CallsType
    <2>3. QED
      BY <2>1, <2>2
  <1>5. QED
    BY <1>3, <1>4 DEF CallsType, GoodCall

LEMMA EraseEntryType ==
    ASSUME TypeInv, NEW t, EraseEntry(t)
    PROVE  EntriesType' /\ watched' \in SUBSET Notifiers
  BY DEF TypeInv, EntriesType, AppsType, EraseEntry

LEMMA SetEntryType ==
    ASSUME TypeInv, NEW t \in Toks, NEW e \in Entries, SetEntry(t, e)
    PROVE  EntriesType'
  BY DEF TypeInv, EntriesType, SetEntry

LEMMA InitType == Init => TypeInv
  <1>1. SUFFICES ASSUME Init PROVE TypeInv
    OBVIOUS
  <1> DEFINE n == Cardinality(Prepared)
  <1>2. n \in Nat /\ n <= MAX_TOKEN_NUM /\ MAX_TOKEN_NUM \in Nat /\ 1 .. n \subseteq Toks
    BY PreparedFinite, BoundsAssumption DEF Toks
  <1>3. /\ token = n
        /\ given = [a \in Apps |-> IF a \in Prepared THEN {Nth[a]} ELSE {}]
        /\ callbackMap = [t \in 1 .. n |->
              LET a == CHOOSE b \in Prepared : Nth[b] = t
              IN [cb \in CbTypes |-> IF cb \in Ready[a] THEN a ELSE NoApp]]
        /\ watched = {<<Nth[a], IF "connect" \in Ready[a] THEN "connect" ELSE "disconnect", a>> :
                         a \in Prepared}
    BY <1>1 DEF Init, Prepared, Nth, Upto
  <1>10. \A a \in Prepared : a \in Apps /\ Nth[a] \in Toks
    BY <1>2, NthType DEF Prepared
  <1>4. TokensType
    <2>1. token \in Toks
      BY <1>2, <1>3 DEF Toks
    <2>2. given \in [Apps -> SUBSET Toks]
      BY <1>10, <1>3
    <2>3. tokenOf \in [Stubs -> Toks] /\ shown \in SUBSET Toks
      BY <1>1, Zeros DEF Init
    <2>4. QED
      BY <2>1, <2>2, <2>3 DEF TokensType
  <1>5. AppsType
    <2>1. alive \in SUBSET Apps /\ deaths \in SUBSET Notifiers
      BY <1>1 DEF Init
    <2>2. \A a \in Prepared, cb \in CbTypes : <<Nth[a], cb, a>> \in Notifiers
      BY <1>10 DEF Notifiers
    <2>3. watched \in SUBSET Notifiers
      BY <1>3, <2>2 DEF CbTypes
    <2>4. QED
      BY <2>1, <2>3 DEF AppsType
  <1>6. EntriesType
    <2>1. \A t \in 1 .. n : (CHOOSE b \in Prepared : Nth[b] = t) \in Apps
      BY NthOnto DEF Prepared
    <2>2. QED
      BY <1>2, <1>3, <2>1 DEF EntriesType, Entries
  <1>7. CallsType
    BY <1>1, IdleType DEF Init, CallsType, AppOps, CbOps, PanelOps
  <1>8. TasksType
    <2>1. running \in TaskSet
      BY <1>1, TaskType, Zeros DEF Init, Nothing, Kinds
    <2>2. QED
      BY <1>1, <2>1 DEF Init, TasksType
  <1>9. QED
    BY <1>4, <1>5, <1>6, <1>7, <1>8 DEF TypeInv

LEMMA CallsTypeInv ==
    ASSUME TypeInv, NEW th \in Threads, Calls(th)
    PROVE  TypeInv'
  <1>1. PICK op \in Ops, a \in Apps \union {NoApp}, t \in Toks, cb \in CbTypes \union {"none"},
             at \in {"count", "token", "close"} :
           /\ Enters(th, op, a, t, cb, at)
           /\ op \in {"Register"} \union AppOps \union CbOps => a \in Apps
           /\ op \in CbOps \union PanelOps => cb \in CbTypes
           /\ at = "count" => op = "Register"
    BY Zeros DEF Calls, TypeInv, AppsType, TokensType, Ops, AppOps, CbOps, PanelOps, CalledType, CbTypes
  <1> DEFINE c == [op |-> op, app |-> a, tok |-> t, cb |-> cb, at |-> at, cut |-> FALSE]
  <1>2. GoodCall(c)
    BY <1>1 DEF GoodCall, CallSet, Places
  <1>3. pc' = [pc EXCEPT ![th] = c]
    BY <1>1 DEF Enters
  <1>4. CallsType'
    BY <1>2, <1>3 DEF TypeInv, CallsType, GoodCall
  <1>5. UNCHANGED <<tokens, callbacks, panel, tasks, apps>>
    BY <1>1 DEF Enters
  <1>6. QED
    BY <1>4, <1>5 DEF TypeInv, TokensType, AppsType, EntriesType, TasksType, tokens, callbacks,
                      panel, tasks, apps

LEMMA CallStepsTypeInv ==
    ASSUME TypeInv, NEW th \in Threads, CallSteps(th)
    PROVE  TypeInv'
  <1> DEFINE c == pc[th]
  <1>1. /\ c \in CallSet /\ c.tok \in Toks /\ c.app \in Apps \union {NoApp}
        /\ c.cb \in CbTypes \union {"none"} /\ GoodCall(c) /\ c.cut \in BOOLEAN
    BY DEF TypeInv, CallsType, GoodCall, CallSet
  <1>2. UNCHANGED <<alive, deaths, running>>
    BY DEF CallSteps, RegisterCounts, RegisterAppends, CheckToken, CheckEntry, Checks,
           UnregisterErasesEntry, UnregisterErasesToken, RegisterDeviceSelectionCallback,
           UnregisterDeviceSelectionCallback, UpdateKeeps, UpdateSends, UsesNull, StartPosts,
           ConnectAbility, AmsConnectAbility, PanelCloses, PanelTells, tasks, apps
  <1>3. TokensType'
    <2>1. CASE RegisterAppends(th)
      <3>1. /\ token' = NextToken /\ given' = [given EXCEPT ![c.app] = given[c.app] \union {NextToken}]
            /\ UNCHANGED <<tokenOf, shown>> /\ c.app \in Apps
        BY <1>1, <2>1 DEF RegisterAppends, panel, GoodCall, Ops
      <3>2. NextToken \in Toks
        <4>1. Apps # {} /\ IsFiniteSet(Apps)
          BY <3>1, AppsAssumption
        <4>2. MAX_TOKEN_NUM \in Nat /\ MAX_TOKEN_NUM >= 1
          BY <4>1, FS_EmptySet, FS_CardinalityType, BoundsAssumption
        <4>3. token \in Nat
          BY <4>2 DEF TypeInv, TokensType, Toks
        <4>4. QED
          BY <4>2, <4>3 DEF NextToken, Toks
      <3>3. QED
        BY <3>1, <3>2 DEF TypeInv, TokensType
    <2>2. CASE ConnectAbility(th)
      <3>1. /\ UNCHANGED <<token, given, shown>>
            /\ UNCHANGED tokenOf \/ \E s \in Stubs : tokenOf' = [tokenOf EXCEPT ![s] = c.tok]
        BY <2>2 DEF ConnectAbility, tokens
      <3>2. QED
        BY <1>1, <3>1 DEF TypeInv, TokensType
    <2>3. CASE ~RegisterAppends(th) /\ ~ConnectAbility(th)
      <3>1. UNCHANGED <<token, given, tokenOf, shown>>
        BY <2>3 DEF CallSteps, RegisterCounts, CheckToken, CheckEntry, Checks,
             UnregisterErasesEntry, UnregisterErasesToken, RegisterDeviceSelectionCallback,
             UnregisterDeviceSelectionCallback, UpdateKeeps, UpdateSends, UsesNull, StartPosts,
             AmsConnectAbility, PanelCloses, PanelTells, tokens, panel
      <3>2. QED
        BY <3>1 DEF TypeInv, TokensType
    <2>4. QED
      BY <2>1, <2>2, <2>3
  <1>4. AppsType' /\ EntriesType'
    <2>1. CASE UnregisterErasesEntry(th)
      BY <1>2, <2>1, EraseEntryType DEF UnregisterErasesEntry, TypeInv, AppsType
    <2>2. CASE RegisterDeviceSelectionCallback(th)
      <3>1. c.cb \in CbTypes /\ c.app \in Apps
        BY <1>1, <2>2 DEF RegisterDeviceSelectionCallback, GoodCall, CbOps
      <3>2. <<c.tok, c.cb, c.app>> \in Notifiers
        BY <1>1, <3>1 DEF Notifiers
      <3>3. HasEntry(c.tok) => [callbackMap[c.tok] EXCEPT ![c.cb] = c.app] \in Entries
        BY <3>1 DEF HasEntry, TypeInv, EntriesType, Entries
      <3>4. [NoNotifiers EXCEPT ![c.cb] = c.app] \in Entries
        BY <3>1 DEF NoNotifiers, Entries
      <3>5. EntriesType'
        BY <1>1, <2>2, <3>3, <3>4, SetEntryType DEF RegisterDeviceSelectionCallback
      <3>6. watched' \in SUBSET Notifiers
        BY <2>2, <3>2 DEF RegisterDeviceSelectionCallback, TypeInv, AppsType
      <3>7. QED
        BY <1>2, <3>5, <3>6 DEF TypeInv, AppsType
    <2>3. CASE UnregisterDeviceSelectionCallback(th)
      <3> DEFINE e == [callbackMap[c.tok] EXCEPT ![c.cb] = NoApp]
      <3>1. HasEntry(c.tok) => e \in Entries
        BY DEF HasEntry, TypeInv, EntriesType, Entries
      <3>2. \/ UNCHANGED callbacks
            \/ EraseEntry(c.tok)
            \/ HasEntry(c.tok) /\ SetEntry(c.tok, e) /\ watched' \subseteq watched
        BY <2>3 DEF UnregisterDeviceSelectionCallback
      <3>3. EntriesType' /\ watched' \in SUBSET Notifiers
        <4>1. CASE UNCHANGED callbacks
          BY <4>1 DEF callbacks, TypeInv, EntriesType, AppsType
        <4>2. CASE EraseEntry(c.tok)
          BY <4>2, EraseEntryType
        <4>3. CASE HasEntry(c.tok) /\ SetEntry(c.tok, e) /\ watched' \subseteq watched
          BY <1>1, <3>1, <4>3, SetEntryType DEF TypeInv, AppsType
        <4>4. QED
          BY <3>2, <4>1, <4>2, <4>3
      <3>4. QED
        BY <1>2, <3>3 DEF TypeInv, AppsType
    <2>4. CASE ~UnregisterErasesEntry(th) /\ ~RegisterDeviceSelectionCallback(th)
               /\ ~UnregisterDeviceSelectionCallback(th)
      <3>1. UNCHANGED callbacks
        BY <2>4 DEF CallSteps, RegisterCounts, RegisterAppends, CheckToken, CheckEntry, Checks,
             UnregisterErasesToken, UpdateKeeps, UpdateSends, UsesNull, StartPosts,
             ConnectAbility, AmsConnectAbility, PanelCloses, PanelTells
      <3>2. QED
        BY <1>2, <3>1 DEF callbacks, TypeInv, EntriesType, AppsType
    <2>5. QED
      BY <2>1, <2>2, <2>3, <2>4
  <1>5. CallsType'
    <2>1. \/ UNCHANGED pc
          \/ Returns(th)
          \/ \E at \in Places \ {"append", "count"} : Moves(th, at)
          \/ c.at = "count" /\ Moves(th, "append")
          \/ Cuts(th, Idle, c.tok)
          \/ Cuts(th, [c EXCEPT !.at = "erase token"], c.tok)
      BY DEF CallSteps, RegisterCounts, RegisterAppends, CheckToken, CheckEntry, Checks,
           UnregisterErasesEntry, UnregisterErasesToken, RegisterDeviceSelectionCallback,
           UnregisterDeviceSelectionCallback, UpdateKeeps, UpdateSends, UsesNull, StartPosts,
           ConnectAbility, AmsConnectAbility, PanelCloses, PanelTells, Places
    <2>2. GoodCall([c EXCEPT !.at = "erase token"])
      BY <1>1, MovedCall DEF GoodCall, Places
    <2>3. \A at \in Places \ {"append", "count"} : Moves(th, at) => CallsType'
      BY MovesType DEF TypeInv
    <2>4. c.at = "count" /\ Moves(th, "append") => CallsType'
      BY <1>1, MovesType DEF TypeInv, GoodCall, Places
    <2>5. UNCHANGED pc \/ Returns(th) => CallsType'
      BY ReturnsType DEF TypeInv, CallsType
    <2>6. Cuts(th, Idle, c.tok) \/ Cuts(th, [c EXCEPT !.at = "erase token"], c.tok) => CallsType'
      BY <2>2, IdleGood, CutsType DEF TypeInv
    <2>7. QED
      BY <2>1, <2>3, <2>4, <2>5, <2>6
  <1>6. TasksType'
    <2>1. \/ UNCHANGED queue
          \/ \E kind \in Kinds, t \in Toks : Post(kind, t)
          \/ PanelTells(th) /\ HasEntry(c.tok) /\ c.op \in PanelOps
             /\ queue' = Append(queue, Task("tell", c.tok, c.cb, callbackMap[c.tok][c.cb], c.cut))
      BY <1>1, Zeros DEF CallSteps, RegisterCounts, RegisterAppends, CheckToken, CheckEntry, Checks,
           UnregisterErasesEntry, UnregisterErasesToken, RegisterDeviceSelectionCallback,
           UnregisterDeviceSelectionCallback, UpdateKeeps, UpdateSends, UsesNull, StartPosts,
           ConnectAbility, AmsConnectAbility, PanelCloses, PanelTells, Kinds, PanelOps, tasks
    <2>2. CASE HasEntry(c.tok) /\ c.op \in PanelOps
               /\ queue' = Append(queue, Task("tell", c.tok, c.cb, callbackMap[c.tok][c.cb], c.cut))
      <3>1. c.cb \in CbTypes /\ callbackMap[c.tok][c.cb] \in Apps \union {NoApp}
        BY <1>1, <2>2 DEF GoodCall, HasEntry, TypeInv, EntriesType, Entries
      <3>2. PICK x \in TaskSet : x = Task("tell", c.tok, c.cb, callbackMap[c.tok][c.cb], c.cut)
        BY <1>1, <3>1, TaskType DEF Kinds
      <3>3. queue' = Append(queue, x) /\ queue \in Seq(TaskSet)
        BY <2>2, <3>2 DEF TypeInv, TasksType
      <3>4. QED
        BY <1>2, <3>3 DEF TypeInv, TasksType
    <2>3. UNCHANGED queue => TasksType'
      BY <1>2 DEF TypeInv, TasksType
    <2>4. \A kind \in Kinds, t \in Toks : Post(kind, t) => TasksType'
      BY <1>2, PostType DEF TypeInv, TasksType
    <2>5. QED
      BY <2>1, <2>2, <2>3, <2>4
  <1>7. QED
    BY <1>3, <1>4, <1>5, <1>6 DEF TypeInv

(* All the tasks are cut: the same tasks. *)
CutAll(q) == [i \in DOMAIN q |-> [q[i] EXCEPT !.cut = TRUE]]

LEMMA CutTask ==
    ASSUME NEW x \in TaskSet
    PROVE  LET y == [x EXCEPT !.cut = TRUE] IN
           /\ y \in TaskSet /\ y.cut
           /\ y.kind = x.kind /\ y.tok = x.tok /\ y.cb = x.cb /\ y.app = x.app
  BY DEF TaskSet

LEMMA CutQueue ==
    ASSUME NEW q \in Seq(TaskSet)
    PROVE  CutAll(q) \in Seq(TaskSet) /\ Len(CutAll(q)) = Len(q)
  <1>1. PICK n \in Nat : n = Len(q)
    BY LenProperties
  <1>2. q \in [1 .. n -> TaskSet] /\ DOMAIN q = 1 .. n
    BY <1>1, LenProperties
  <1>3. \A i \in 1 .. n : [q[i] EXCEPT !.cut = TRUE] \in TaskSet
    BY <1>2, CutTask
  <1>4. CutAll(q) \in [1 .. n -> TaskSet]
    BY <1>2, <1>3 DEF CutAll
  <1>5. CutAll(q) \in Seq(TaskSet)
    BY <1>4
  <1>6. QED
    BY <1>1, <1>4, <1>5, LenProperties

(* The AMS and the death of an application. *)
LEMMA OutsideTypeInv ==
    ASSUME TypeInv, AmsConnectDone \/ AmsDisconnectDone \/ AppDies \/ ProcessNotifierDied \/ Restart
    PROVE  TypeInv'
  <1> USE DEF AmsConnectDone, AmsDisconnectDone, AppDies, ProcessNotifierDied, Restart
  <1>1. TokensType'
    <2>1. /\ UNCHANGED <<token, given>>
          /\ UNCHANGED tokenOf \/ tokenOf' = [s \in Stubs |-> NoToken]
          /\ UNCHANGED shown \/ shown' = {}
      BY DEF tokens, panel
    <2>2. QED
      BY <2>1, Zeros DEF TypeInv, TokensType
  <1>2. AppsType'
    <2>1. alive' \subseteq alive /\ watched' \subseteq watched /\ deaths' \subseteq deaths \union watched
      BY DEF callbacks, apps
    <2>2. QED
      BY <2>1 DEF TypeInv, AppsType
  <1>3. EntriesType'
    <2>1. UNCHANGED callbackMap \/ callbackMap' = << >>
      BY DEF callbacks
    <2>2. QED
      BY <2>1 DEF TypeInv, EntriesType
  <1>4. CallsType'
    <2>1. UNCHANGED pc \/ pc' = [th \in Threads |-> Idle]
      OBVIOUS
    <2>2. QED
      BY <2>1, IdleType DEF TypeInv, CallsType, AppOps, CbOps, PanelOps
  <1>5. TasksType'
    <2>1. running' = running \/ running' = Nothing
      BY DEF tasks
    <2>2. Nothing \in TaskSet
      BY TaskType, Zeros DEF Nothing, Kinds
    <2>3. \/ UNCHANGED queue
          \/ queue' = << >>
          \/ \E t \in Toks : Post("start", t)
          \/ \E n \in deaths : queue' = Append(queue, Task("died", n[1], n[2], n[3], FALSE))
          \/ queue' = [i \in DOMAIN queue |-> [queue[i] EXCEPT !.cut = TRUE]]
      BY DEF tasks, TypeInv, TokensType
    <2>5. CASE \E t \in Toks : Post("start", t)
      BY <2>1, <2>2, <2>5, PostType DEF TypeInv, TasksType, Kinds
    <2>6. CASE \E n \in deaths : queue' = Append(queue, Task("died", n[1], n[2], n[3], FALSE))
      <3>1. PICK t \in Toks, cb \in CbTypes, a \in Apps : queue' = Append(queue, Task("died", t, cb, a, FALSE))
        BY <2>6 DEF TypeInv, AppsType, Notifiers
      <3>2. PICK x \in TaskSet : x = Task("died", t, cb, a, FALSE)
        BY TaskType DEF Kinds
      <3>3. queue' = Append(queue, x) /\ queue \in Seq(TaskSet)
        BY <3>1, <3>2 DEF TypeInv, TasksType
      <3>4. QED
        BY <2>1, <2>2, <3>3 DEF TypeInv, TasksType
    <2>7. CASE queue' = [i \in DOMAIN queue |-> [queue[i] EXCEPT !.cut = TRUE]]
      <3>1. queue' \in Seq(TaskSet)
        BY <2>7, CutQueue DEF TypeInv, TasksType, CutAll
      <3>2. QED
        BY <2>1, <2>2, <3>1 DEF TypeInv, TasksType
    <2>8. CASE UNCHANGED queue \/ queue' = << >>
      <3>1. queue \in Seq(TaskSet) /\ << >> \in Seq(TaskSet)
        BY DEF TypeInv, TasksType
      <3>4. queue' \in Seq(TaskSet)
        BY <2>8, <3>1, Zenon
      <3>2. running' \in TaskSet
        BY <2>1, <2>2 DEF TypeInv, TasksType
      <3>3. QED
        BY <3>2, <3>4 DEF TasksType
    <2>9. QED
      BY <2>3, <2>5, <2>6, <2>7, <2>8
  <1>6. QED
    BY <1>1, <1>2, <1>3, <1>4, <1>5 DEF TypeInv

LEMMA HandlerTypeInv ==
    ASSUME TypeInv, Handler
    PROVE  TypeInv'
  <1> USE DEF Handler, HandlerStarts, HandlerUpdates, HandlerTells, HandlerDisconnects,
              HandlerForgetsConnection, HandlerForgetsNotifier, HandlerForgetsToken, Takes, UsesNull
  <1>1. queue # << >> => Head(queue) \in TaskSet /\ Tail(queue) \in Seq(TaskSet)
    BY DEF TypeInv, TasksType
  <1>2. \A x \in TaskSet : x.tok \in Toks
    BY DEF TaskSet
  <1>3. TokensType'
    <2>1. /\ UNCHANGED <<token, given, tokenOf>>
          /\ \/ UNCHANGED shown
             \/ queue # << >> /\ shown' = shown \union {Head(queue).tok}
      BY DEF tokens, panel
    <2>2. QED
      BY <1>1, <1>2, <2>1 DEF TypeInv, TokensType
  <1>4. AppsType' /\ EntriesType'
    <2>1. UNCHANGED <<alive, deaths>> /\ (UNCHANGED callbacks \/ EraseEntry(Head(queue).tok))
      BY DEF apps
    <2>2. UNCHANGED callbacks => EntriesType' /\ watched' \in SUBSET Notifiers
      BY DEF callbacks, TypeInv, EntriesType, AppsType
    <2>3. QED
      BY <2>1, <2>2, EraseEntryType DEF TypeInv, AppsType
  <1>5. CallsType'
    <2>1. UNCHANGED pc \/ \E t : Cuts(NoThread, Idle, t)
      OBVIOUS
    <2>2. UNCHANGED pc => CallsType'
      BY DEF TypeInv, CallsType
    <2>3. QED
      BY <2>1, <2>2, IdleGood, CutsType DEF TypeInv
  <1>6. TasksType'
    <2>1. /\ \/ UNCHANGED queue
             \/ queue # << >> /\ queue' = Tail(queue)
             \/ Post("disconnect", NoToken)
          /\ \/ UNCHANGED running
             \/ queue # << >> /\ running' = Head(queue)
             \/ running' = Nothing
      BY DEF tasks
    <2>2. Nothing \in TaskSet
      BY TaskType, Zeros DEF Nothing, Kinds
    <2>3. Post("disconnect", NoToken) => queue' \in Seq(TaskSet)
      BY PostType, Zeros DEF Kinds
    <2>4. QED
      BY <1>1, <2>1, <2>2, <2>3 DEF TypeInv, TasksType
  <1>7. QED
    BY <1>3, <1>4, <1>5, <1>6 DEF TypeInv

LEMMA NextType == TypeInv /\ [Next]_vars => TypeInv'
  <1>1. SUFFICES ASSUME TypeInv, [Next]_vars PROVE TypeInv'
    OBVIOUS
  <1>2. CASE UNCHANGED vars
    BY <1>1, <1>2 DEF vars, tokens, callbacks, panel, tasks, apps, TypeInv, TokensType, AppsType,
                      EntriesType, CallsType, TasksType
  <1>3. CASE Next
    BY <1>1, <1>3, CallsTypeInv, CallStepsTypeInv, OutsideTypeInv, HandlerTypeInv DEF Next
  <1>4. QED
    BY <1>1, <1>2, <1>3

LEMMA Typed == Spec => []TypeInv
  BY InitType, NextType, PTL DEF Spec

-----------------------------------------------------------------------------
(* A null pointer is used only after a race.  A call that has checked the entry of its    *)
(* token still finds it, unless it was cut; a task for the panel still finds the proxy,    *)
(* and one that tells an application its notifier, unless it was cut.                      *)
UseSafe(c) ==
    c.at = "use" /\ ~c.cut => ( /\ c.op \in AppOps => HasEntry(c.tok)
                                /\ c.op \in PanelOps => HasNotifier(c.tok, c.cb) )
UseInv == \A th \in Threads : UseSafe(pc[th])
TaskSafe(x) ==
    /\ x.kind \in {"start", "update"} => appProxy \/ x.cut
    /\ x.kind = "tell" /\ x.app = NoApp => x.cut
QueueInv == \A i \in 1 .. Len(queue) : TaskSafe(queue[i])
NullInv == \A t \in DOMAIN callbackMap : callbackMap[t] # NoNotifiers
DownInv ==
    /\ down = "entry" => \E th \in Threads : pc[th].at = "use" /\ pc[th].cut
    /\ down \in {"proxy", "notifier"} => queue # << >> /\ Head(queue).cut

RaceInv == UseInv /\ QueueInv /\ NullInv /\ DownInv

LEMMA InitRace == Init => RaceInv
  <1>1. SUFFICES ASSUME Init PROVE RaceInv
    OBVIOUS
  <1>2. UseInv
    BY <1>1 DEF Init, UseInv, UseSafe, Idle
  <1>3. QueueInv
    BY <1>1 DEF Init, QueueInv
  <1>4. DownInv
    BY <1>1 DEF Init, DownInv
  <1>5. NullInv
    <2> DEFINE n == Cardinality(Prepared)
               A(t) == CHOOSE b \in Prepared : Nth[b] = t
    <2>1. callbackMap = [t \in 1 .. n |-> [cb \in CbTypes |-> IF cb \in Ready[A(t)] THEN A(t) ELSE NoApp]]
      BY <1>1 DEF Init, Prepared, Nth, Upto
    <2>2. SUFFICES ASSUME NEW t \in 1 .. n PROVE callbackMap[t] # NoNotifiers
      BY <2>1 DEF NullInv
    <2>3. A(t) \in Prepared
      BY NthOnto
    <2>4. PICK a \in Apps : a = A(t) /\ a # NoApp /\ Ready[a] # {} /\ Ready[a] \subseteq CbTypes
      BY <2>3, Zeros, ReadyAssumption DEF Prepared
    <2>5. PICK cb \in CbTypes : cb \in Ready[a]
      BY <2>4
    <2>6. callbackMap[t][cb] = a
      BY <2>1, <2>4, <2>5
    <2>7. QED
      BY <2>4, <2>6 DEF NoNotifiers
  <1>6. QED
    BY <1>2, <1>3, <1>4, <1>5 DEF RaceInv

(* A call that has not checked its entry yet, or no more needs it, is safe. *)
LEMMA UseKept ==
    ASSUME TypeInv, UseInv, UNCHANGED callbackMap, NEW th,
           \/ UNCHANGED pc
           \/ \E t : Cuts(th, Idle, t)
           \/ th \in Threads /\ (Returns(th) \/ \E at \in Places \ {"use"} : Moves(th, at))
    PROVE  UseInv'
  <1>1. \A x \in Threads : UseSafe(pc[x]) /\ pc[x] \in CallSet
    BY DEF UseInv, TypeInv, CallsType
  <1>2. CASE UNCHANGED pc
    BY <1>1, <1>2 DEF UseInv, UseSafe, HasEntry, HasNotifier
  <1>3. CASE \E t : Cuts(th, Idle, t)
    <2>1. PICK t : pc' = [x \in Threads |-> IF x = th THEN Idle ELSE Cut(pc[x], t)]
      BY <1>3 DEF Cuts
    <2>2. ASSUME NEW x \in Threads PROVE UseSafe(pc[x])'
      <3>1. CASE x = th
        BY <2>1, <3>1, IdleType DEF UseSafe
      <3>2. CASE x # th
        BY <1>1, <2>1, <3>2, CutCall DEF UseSafe, HasEntry, HasNotifier
      <3>3. QED
        BY <3>1, <3>2
    <2>3. QED
      BY <2>2 DEF UseInv
  <1>4. CASE th \in Threads /\ Returns(th)
    BY <1>1, <1>4, IdleType DEF Returns, UseInv, UseSafe, HasEntry, HasNotifier, TypeInv, CallsType
  <1>5. CASE th \in Threads /\ \E at \in Places \ {"use"} : Moves(th, at)
    <2>1. PICK at \in Places \ {"use"} : Moves(th, at)
      BY <1>5
    <2>2. /\ pc'[th] = [pc[th] EXCEPT !.at = at] /\ pc[th] \in CallSet
          /\ \A x \in Threads : x # th => pc'[x] = pc[x]
      BY <1>1, <1>5, <2>1, MovesTo DEF TypeInv
    <2>3. pc'[th].at # "use"
      BY <2>1, <2>2, MovedCall
    <2>4. QED
      BY <1>1, <2>2, <2>3 DEF UseInv, UseSafe, HasEntry, HasNotifier
  <1>6. QED
    BY <1>2, <1>3, <1>4, <1>5

(* The call that is about to check its entry is safe if it goes on. *)
LEMMA UseChecked ==
    ASSUME TypeInv, UseInv, NEW th \in Threads, CheckEntry(th)
    PROVE  UseInv'
  <1>1. UNCHANGED callbackMap
    BY DEF CheckEntry, Checks, callbacks
  <1>2. CASE Returns(th)
    BY <1>1, <1>2, UseKept
  <1>3. CASE Moves(th, "use")
    <2>1. /\ pc[th].op \in AppOps => HasEntry(pc[th].tok) \/ Returns(th)
          /\ pc[th].op \in PanelOps => HasNotifier(pc[th].tok, pc[th].cb) \/ Returns(th)
      BY DEF CheckEntry, Checks, AppOps, CbOps, PanelOps
    <2>2. /\ pc'[th] = [pc[th] EXCEPT !.at = "use"] /\ pc[th] \in CallSet
          /\ \A x \in Threads : x # th => pc'[x] = pc[x]
      BY <1>3, MovesTo DEF TypeInv, CallsType, Places
    <2>3. pc'[th].op = pc[th].op /\ pc'[th].tok = pc[th].tok /\ pc'[th].cb = pc[th].cb
      <3>1. PICK at \in Places : at = "use"
        BY DEF Places
      <3>2. QED
        BY <2>2, <3>1, MovedCall
    <2>4. CASE ~Returns(th)
      BY <1>1, <2>1, <2>2, <2>3, <2>4 DEF UseInv, UseSafe, HasEntry, HasNotifier
    <2>5. QED
      BY <1>2, <2>4
  <1>4. QED
    BY <1>2, <1>3 DEF CheckEntry, Checks

(* The entry of one token changes and the calls for that token are cut. *)
LEMMA UseCut ==
    ASSUME TypeInv, UseInv, NEW th, NEW next, next.at # "use", NEW t, Cuts(th, next, t),
           \A u : u # t => (HasEntry(u) => HasEntry(u)' /\ callbackMap'[u] = callbackMap[u])
    PROVE  UseInv'
  <1>1. pc' = [x \in Threads |-> IF x = th THEN next ELSE Cut(pc[x], t)]
    BY DEF Cuts
  <1>2. SUFFICES ASSUME NEW x \in Threads PROVE UseSafe(pc[x])'
    BY DEF UseInv
  <1>3. UseSafe(pc[x]) /\ pc[x] \in CallSet
    BY DEF UseInv, TypeInv, CallsType
  <1>4. CASE x = th
    BY <1>1, <1>4 DEF UseSafe
  <1>5. CASE x # th /\ pc[x].tok = t
    BY <1>1, <1>3, <1>5, CutCall DEF UseSafe
  <1>6. CASE x # th /\ pc[x].tok # t
    <2>1. pc'[x] = pc[x]
      BY <1>1, <1>3, <1>6, CutCall
    <2>2. HasEntry(pc[x].tok) => HasEntry(pc[x].tok)' /\ callbackMap'[pc[x].tok] = callbackMap[pc[x].tok]
      BY <1>6, <2>1
    <2>3. QED
      BY <1>3, <2>1, <2>2 DEF UseSafe, HasNotifier
  <1>7. QED
    BY <1>4, <1>5, <1>6

LEMMA UseRegistered ==
    ASSUME TypeInv, UseInv, NEW th \in Threads, RegisterDeviceSelectionCallback(th)
    PROVE  UseInv'
  <1> DEFINE c == pc[th]
  <1>1. c.cb \in CbTypes /\ c.app \in Apps /\ c.app # NoApp
    BY Zeros DEF RegisterDeviceSelectionCallback, TypeInv, CallsType, CbOps
  <1>2. PICK e \in Entries :
           /\ SetEntry(c.tok, e)
           /\ \A cb \in CbTypes : HasNotifier(c.tok, cb) => e[cb] # NoApp
    <2>1. CASE HasEntry(c.tok)
      <3>1. SetEntry(c.tok, [callbackMap[c.tok] EXCEPT ![c.cb] = c.app])
        BY <2>1 DEF RegisterDeviceSelectionCallback
      <3>2. callbackMap[c.tok] \in Entries
        BY <2>1 DEF HasEntry, TypeInv, EntriesType
      <3>3. PICK e : e = [callbackMap[c.tok] EXCEPT ![c.cb] = c.app]
        OBVIOUS
      <3>4. e \in Entries
        BY <1>1, <3>2, <3>3 DEF Entries
      <3>5. \A cb \in CbTypes : e[cb] = IF cb = c.cb THEN c.app ELSE callbackMap[c.tok][cb]
        BY <1>1, <3>2, <3>3 DEF Entries
      <3>6. QED
        <4>1. SetEntry(c.tok, e)
          BY <3>1, <3>3 DEF SetEntry
        <4>2. \A cb \in CbTypes : HasNotifier(c.tok, cb) => e[cb] # NoApp
          BY <1>1, <3>5 DEF HasNotifier
        <4>3. QED
          BY <3>4, <4>1, <4>2
    <2>2. CASE ~HasEntry(c.tok)
      BY <1>1, <2>2 DEF RegisterDeviceSelectionCallback, HasNotifier, NoNotifiers, Entries
    <2>3. QED
      BY <2>1, <2>2
  <1>3. \A t : HasEntry(t) => HasEntry(t)'
    BY <1>2 DEF SetEntry, HasEntry
  <1>4. \A t : \A cb \in CbTypes : HasNotifier(t, cb) => HasNotifier(t, cb)'
    BY <1>2 DEF SetEntry, HasEntry, HasNotifier
  <1>5. SUFFICES ASSUME NEW x \in Threads PROVE UseSafe(pc[x])'
    BY DEF UseInv
  <1>6. UseSafe(pc[x]) /\ (pc[x].op \in PanelOps => pc[x].cb \in CbTypes)
    BY DEF UseInv, TypeInv, CallsType
  <1>7. pc'[x] = IF x = th THEN Idle ELSE pc[x]
    BY DEF RegisterDeviceSelectionCallback, Returns, TypeInv, CallsType
  <1>8. CASE x = th
    BY <1>7, <1>8, IdleType DEF UseSafe
  <1>9. CASE x # th
    <2>1. pc'[x] = pc[x]
      BY <1>7, <1>9
    <2>2. PICK t, cb : t = pc[x].tok /\ cb = pc[x].cb
      OBVIOUS
    <2>3. HasEntry(t) => t \in DOMAIN callbackMap'
      BY <1>3 DEF HasEntry
    <2>4. cb \in CbTypes /\ HasNotifier(t, cb) => t \in DOMAIN callbackMap' /\ callbackMap'[t][cb] # NoApp
      BY <1>4 DEF HasNotifier, HasEntry
    <2>5. QED
      BY <1>6, <2>1, <2>2, <2>3, <2>4 DEF UseSafe, HasEntry, HasNotifier
  <1>10. QED
    BY <1>8, <1>9

LEMMA Erased ==
    ASSUME NEW t, EraseEntry(t)
    PROVE  \A u : u # t => (HasEntry(u) => HasEntry(u)' /\ callbackMap'[u] = callbackMap[u])
  BY DEF EraseEntry, HasEntry

LEMMA WasSet ==
    ASSUME NEW t, NEW e, SetEntry(t, e)
    PROVE  \A u : u # t => (HasEntry(u) => HasEntry(u)' /\ callbackMap'[u] = callbackMap[u])
  BY DEF SetEntry, HasEntry

LEMMA UseUnregistered ==
    ASSUME TypeInv, UseInv, NEW th \in Threads, UnregisterDeviceSelectionCallback(th)
    PROVE  UseInv'
  <1>1. PICK t : t = pc[th].tok
    OBVIOUS
  <1>2. Cuts(th, Idle, t)
    BY <1>1 DEF UnregisterDeviceSelectionCallback, Cuts
  <1>3. CASE UNCHANGED callbackMap
    BY <1>2, <1>3, UseKept
  <1>4. CASE EraseEntry(pc[th].tok)
    <2>1. EraseEntry(t)
      BY <1>1, <1>4 DEF EraseEntry
    <2>2. QED
      BY <1>2, <2>1, Erased, UseCut, IdleType
  <1>5. CASE SetEntry(pc[th].tok, [callbackMap[pc[th].tok] EXCEPT ![pc[th].cb] = NoApp])
    <2>1. PICK e : e = [callbackMap[pc[th].tok] EXCEPT ![pc[th].cb] = NoApp]
      OBVIOUS
    <2>2. SetEntry(t, e)
      BY <1>1, <1>5, <2>1 DEF SetEntry
    <2>3. QED
      BY <1>2, <2>2, WasSet, UseCut, IdleType
  <1>6. QED
    BY <1>3, <1>4, <1>5 DEF UnregisterDeviceSelectionCallback, callbacks

LEMMA NextUse == TypeInv /\ UseInv /\ [Next]_vars => UseInv'
  <1>1. SUFFICES ASSUME TypeInv, UseInv, [Next]_vars PROVE UseInv'
    OBVIOUS
  <1>2. CASE UNCHANGED vars
    BY <1>1, <1>2, UseKept DEF vars, callbacks
  <1>3. ASSUME NEW th \in Threads, Calls(th) PROVE UseInv'
    <2>1. PICK op, a, t, cb, at : Enters(th, op, a, t, cb, at) /\ at # "use"
      BY <1>3 DEF Calls
    <2>2. /\ pc' = [pc EXCEPT ![th] = [op |-> op, app |-> a, tok |-> t, cb |-> cb, at |-> at, cut |-> FALSE]]
          /\ UNCHANGED callbackMap
      BY <2>1 DEF Enters, callbacks
    <2>3. pc'[th].at # "use" /\ \A x \in Threads : x # th => pc'[x] = pc[x]
      BY <1>1, <2>1, <2>2 DEF TypeInv, CallsType
    <2>4. QED
      BY <1>1, <2>2, <2>3 DEF UseInv, UseSafe, HasEntry, HasNotifier
  <1>4. ASSUME NEW th \in Threads, CallSteps(th) PROVE UseInv'
    <2>1. CASE CheckEntry(th)
      BY <1>1, <2>1, UseChecked
    <2>2. CASE RegisterDeviceSelectionCallback(th)
      BY <1>1, <2>2, UseRegistered
    <2>3. CASE UnregisterDeviceSelectionCallback(th)
      BY <1>1, <2>3, UseUnregistered
    <2>4. CASE UnregisterErasesEntry(th)
      <3>1. PICK t : t = pc[th].tok
        OBVIOUS
      <3>2. PICK next : next = [pc[th] EXCEPT !.at = "erase token"]
        OBVIOUS
      <3>3. EraseEntry(t) /\ Cuts(th, next, t)
        BY <2>4, <3>1, <3>2 DEF UnregisterErasesEntry, EraseEntry, NotifiersOf, HasEntry, Cuts
      <3>4. next.at # "use"
        BY <1>1, <3>2 DEF TypeInv, CallsType, CallSet
      <3>5. QED
        BY <1>1, <3>3, <3>4, Erased, UseCut
    <2>5. CASE \/ RegisterCounts(th) \/ RegisterAppends(th) \/ CheckToken(th) \/ UnregisterErasesToken(th)
               \/ UpdateKeeps(th) \/ UpdateSends(th) \/ StartPosts(th) \/ ConnectAbility(th)
               \/ AmsConnectAbility(th) \/ PanelCloses(th) \/ PanelTells(th)
      <3>1. UNCHANGED callbackMap
        BY <2>5 DEF RegisterCounts, RegisterAppends, CheckToken, Checks, UnregisterErasesToken, UpdateKeeps,
             UpdateSends, UsesNull, StartPosts, ConnectAbility, AmsConnectAbility, PanelCloses, PanelTells, callbacks
      <3>2. \/ UNCHANGED pc
            \/ Cuts(th, Idle, pc[th].tok)
            \/ Returns(th) \/ \E at \in Places \ {"use"} : Moves(th, at)
        BY <2>5 DEF RegisterCounts, RegisterAppends, CheckToken, Checks, UnregisterErasesToken, UpdateKeeps,
             UpdateSends, UsesNull, StartPosts, ConnectAbility, AmsConnectAbility, PanelCloses, PanelTells, Places
      <3>3. QED
        BY <1>1, <3>1, <3>2, UseKept
    <2>6. QED
      BY <1>4, <2>1, <2>2, <2>3, <2>4, <2>5 DEF CallSteps
  <1>5. CASE Handler
    <2>1. CASE HandlerForgetsNotifier
      <3>1. PICK t : t = Head(queue).tok
        OBVIOUS
      <3>2. CASE EraseEntry(Head(queue).tok) /\ Cuts(NoThread, Idle, Head(queue).tok)
        <4>1. EraseEntry(t) /\ Cuts(NoThread, Idle, t)
          BY <3>1, <3>2 DEF EraseEntry, NotifiersOf, HasEntry, Cuts
        <4>2. QED
          BY <1>1, <4>1, Erased, UseCut, IdleType
      <3>3. CASE UNCHANGED <<callbacks, pc>>
        BY <1>1, <3>3, UseKept DEF callbacks
      <3>4. QED
        BY <2>1, <3>2, <3>3 DEF HandlerForgetsNotifier
    <2>2. CASE ~HandlerForgetsNotifier
      <3>1. UNCHANGED callbackMap /\ (UNCHANGED pc \/ Cuts(NoThread, Idle, running.tok))
        BY <1>5, <2>2 DEF Handler, HandlerStarts, HandlerUpdates, HandlerTells, HandlerDisconnects,
             HandlerForgetsConnection, HandlerForgetsToken, UsesNull, callbacks
      <3>2. QED
        BY <1>1, <3>1, UseKept
    <2>3. QED
      BY <2>1, <2>2
  <1>6. CASE AmsConnectDone \/ AmsDisconnectDone \/ AppDies \/ ProcessNotifierDied
    BY <1>1, <1>6, UseKept DEF AmsConnectDone, AmsDisconnectDone, AppDies, ProcessNotifierDied, callbacks
  <1>7. CASE Restart
    BY <1>7, IdleType DEF Restart, UseInv, UseSafe
  <1>8. QED
    BY <1>1, <1>2, <1>3, <1>4, <1>5, <1>6, <1>7 DEF Next

LEMMA NullKept ==
    ASSUME NullInv,
           \/ UNCHANGED callbackMap \/ callbackMap' = << >>
           \/ \E t : EraseEntry(t)
           \/ \E t, e : SetEntry(t, e) /\ e # NoNotifiers
    PROVE  NullInv'
  <1>1. CASE UNCHANGED callbackMap \/ callbackMap' = << >>
    BY <1>1 DEF NullInv, NoNotifiers
  <1>2. CASE \E t : EraseEntry(t)
    BY <1>2 DEF NullInv, NoNotifiers, EraseEntry
  <1>3. CASE \E t, e : SetEntry(t, e) /\ e # NoNotifiers
    BY <1>3 DEF NullInv, NoNotifiers, SetEntry
  <1>4. QED
    BY <1>1, <1>2, <1>3

LEMMA NextNull == TypeInv /\ NullInv /\ [Next]_vars => NullInv'
  <1>1. SUFFICES ASSUME TypeInv, NullInv, [Next]_vars PROVE NullInv'
    OBVIOUS
  <1>2. ASSUME NEW th \in Threads, RegisterDeviceSelectionCallback(th) PROVE NullInv'
    <2> DEFINE c == pc[th]
    <2>1. c.cb \in CbTypes /\ c.app # NoApp
      BY <1>1, <1>2, Zeros DEF RegisterDeviceSelectionCallback, TypeInv, CallsType, CbOps
    <2>2. PICK e : SetEntry(c.tok, e) /\ e[c.cb] = c.app
      <3>1. CASE HasEntry(c.tok)
        <4>1. PICK e : e = [callbackMap[c.tok] EXCEPT ![c.cb] = c.app]
          OBVIOUS
        <4>2. SetEntry(c.tok, e)
          BY <1>2, <3>1, <4>1 DEF RegisterDeviceSelectionCallback, SetEntry
        <4>3. callbackMap[c.tok] \in Entries
          BY <1>1, <3>1 DEF HasEntry, TypeInv, EntriesType
        <4>4. e[c.cb] = c.app
          BY <2>1, <4>1, <4>3 DEF Entries
        <4>5. QED
          BY <4>2, <4>4
      <3>2. CASE ~HasEntry(c.tok)
        <4>1. PICK e : e = [NoNotifiers EXCEPT ![c.cb] = c.app]
          OBVIOUS
        <4>2. SetEntry(c.tok, e)
          BY <1>2, <3>2, <4>1 DEF RegisterDeviceSelectionCallback, SetEntry
        <4>3. e[c.cb] = c.app
          BY <2>1, <4>1 DEF NoNotifiers
        <4>4. QED
          BY <4>2, <4>3
      <3>3. QED
        BY <3>1, <3>2
    <2>3. e # NoNotifiers
      BY <2>1, <2>2 DEF NoNotifiers
    <2>4. PICK t : t = c.tok
      OBVIOUS
    <2>5. SetEntry(t, e)
      BY <2>2, <2>4 DEF SetEntry
    <2>6. QED
      BY <1>1, <2>3, <2>5, NullKept
  <1>3. ASSUME NEW th \in Threads, UnregisterDeviceSelectionCallback(th) PROVE NullInv'
    <2>1. PICK t, e : t = pc[th].tok /\ e = [callbackMap[pc[th].tok] EXCEPT ![pc[th].cb] = NoApp]
      OBVIOUS
    <2>2. UNCHANGED callbackMap \/ EraseEntry(t) \/ (SetEntry(t, e) /\ e # NoNotifiers)
      BY <1>3, <2>1 DEF UnregisterDeviceSelectionCallback, callbacks, EraseEntry, SetEntry, NotifiersOf, HasEntry
    <2>3. QED
      BY <1>1, <2>2, NullKept
  <1>4. ASSUME NEW th \in Threads, UnregisterErasesEntry(th) PROVE NullInv'
    <2>1. PICK t : t = pc[th].tok
      OBVIOUS
    <2>2. EraseEntry(t)
      BY <1>4, <2>1 DEF UnregisterErasesEntry, EraseEntry, NotifiersOf, HasEntry
    <2>3. QED
      BY <1>1, <2>2, NullKept
  <1>5. CASE HandlerForgetsNotifier
    <2>1. PICK t : t = Head(queue).tok
      OBVIOUS
    <2>2. UNCHANGED callbackMap \/ EraseEntry(t)
      BY <1>5, <2>1 DEF HandlerForgetsNotifier, callbacks, EraseEntry, NotifiersOf, HasEntry
    <2>3. QED
      BY <1>1, <2>2, NullKept
  <1>6. CASE Restart
    BY <1>1, <1>6, NullKept DEF Restart
  <1>7. CASE UNCHANGED callbacks
    BY <1>1, <1>7, NullKept DEF callbacks
  <1>8. ASSUME NEW th \in Threads, CallSteps(th) PROVE NullInv'
    <2>1. CASE ~RegisterDeviceSelectionCallback(th) /\ ~UnregisterDeviceSelectionCallback(th)
               /\ ~UnregisterErasesEntry(th)
      BY <1>7, <1>8, <2>1
         DEF CallSteps, RegisterCounts, RegisterAppends, CheckToken, CheckEntry, Checks, UnregisterErasesToken,
             UpdateKeeps, UpdateSends, UsesNull, StartPosts, ConnectAbility, AmsConnectAbility,
             PanelCloses, PanelTells
    <2>2. QED
      BY <1>2, <1>3, <1>4, <2>1
  <1>9. CASE Handler
    <2>1. CASE ~HandlerForgetsNotifier
      BY <1>7, <1>9, <2>1 DEF Handler, HandlerStarts, HandlerUpdates, HandlerTells, HandlerDisconnects,
             HandlerForgetsConnection, HandlerForgetsToken, UsesNull
    <2>2. QED
      BY <1>5, <2>1
  <1>10. CASE AmsConnectDone \/ AmsDisconnectDone \/ AppDies \/ ProcessNotifierDied
    BY <1>7, <1>10 DEF AmsConnectDone, AmsDisconnectDone, AppDies, ProcessNotifierDied
  <1>11. CASE (\E th \in Threads : Calls(th)) \/ UNCHANGED vars
    BY <1>7, <1>11 DEF Calls, Enters, vars
  <1>12. QED
    BY <1>1, <1>6, <1>8, <1>9, <1>10, <1>11 DEF Next

-----------------------------------------------------------------------------
(* The queue: a task goes at its end, or is taken from its front, or all are cut. *)
LEMMA QueueKept ==
    ASSUME TypeInv, QueueInv, appProxy => appProxy',
           UNCHANGED queue \/ (queue # << >> /\ queue' = Tail(queue))
    PROVE  QueueInv'
  <1>1. PICK n \in Nat : n = Len(queue)
    BY LenProperties DEF TypeInv, TasksType
  <1>2. \A i \in 1 .. n : TaskSafe(queue[i])
    BY <1>1 DEF QueueInv
  <1>3. CASE UNCHANGED queue
    BY <1>1, <1>2, <1>3 DEF QueueInv, TaskSafe
  <1>4. CASE queue # << >> /\ queue' = Tail(queue)
    <2>1. /\ n > 0 /\ Len(queue') = n - 1
          /\ \A i \in 1 .. n - 1 : queue'[i] = queue[i + 1]
      BY <1>1, <1>4, HeadTailProperties, EmptySeq DEF TypeInv, TasksType
    <2>2. \A i \in 1 .. n - 1 : i + 1 \in 1 .. n
      BY <2>1
    <2>3. QED
      BY <1>2, <2>1, <2>2 DEF QueueInv, TaskSafe
  <1>5. QED
    BY <1>3, <1>4

LEMMA QueuePosts ==
    ASSUME TypeInv, QueueInv, appProxy => appProxy', NEW x \in TaskSet, queue' = Append(queue, x),
           x.kind \in {"start", "update"} => appProxy' \/ x.cut,
           x.kind = "tell" /\ x.app = NoApp => x.cut
    PROVE  QueueInv'
  <1>1. PICK n \in Nat : n = Len(queue)
    BY LenProperties DEF TypeInv, TasksType
  <1>2. \A i \in 1 .. n : TaskSafe(queue[i])
    BY <1>1 DEF QueueInv
  <1>3. /\ Len(queue') = n + 1 /\ queue'[n + 1] = x
        /\ \A i \in 1 .. n : queue'[i] = queue[i]
    BY <1>1, AppendProperties DEF TypeInv, TasksType
  <1>4. \A i \in 1 .. n + 1 : i \in 1 .. n \/ i = n + 1
    BY <1>1
  <1>5. QED
    BY <1>2, <1>3, <1>4 DEF QueueInv, TaskSafe

(* A task posted for no application in particular. *)
LEMMA QueuePost ==
    ASSUME TypeInv, QueueInv, appProxy => appProxy', NEW kind \in Kinds \ {"tell"}, NEW t \in Toks,
           Post(kind, t), kind \in {"start", "update"} => appProxy'
    PROVE  QueueInv'
  <1>1. PICK x \in TaskSet : x = Task(kind, t, "none", NoApp, FALSE)
    BY TaskType
  <1>2. queue' = Append(queue, x) /\ x.kind = kind
    BY <1>1 DEF Post, Task
  <1>3. QED
    BY <1>1, <1>2, QueuePosts

LEMMA QueueCut ==
    ASSUME TypeInv, queue' = CutAll(queue)
    PROVE  QueueInv'
  <1>1. PICK n \in Nat : n = Len(queue)
    BY LenProperties DEF TypeInv, TasksType
  <1>2. Len(queue') = n
    BY <1>1, CutQueue DEF TypeInv, TasksType
  <1>3. \A i \in 1 .. n : queue[i] \in TaskSet /\ queue'[i] = [queue[i] EXCEPT !.cut = TRUE]
    BY <1>1, LenProperties DEF CutAll, TypeInv, TasksType
  <1>4. \A i \in 1 .. n : queue'[i].cut
    BY <1>3, CutTask
  <1>5. QED
    BY <1>2, <1>4 DEF QueueInv, TaskSafe

LEMMA NextQueue == TypeInv /\ UseInv /\ QueueInv /\ [Next]_vars => QueueInv'
  <1>1. SUFFICES ASSUME TypeInv, UseInv, QueueInv, [Next]_vars PROVE QueueInv'
    OBVIOUS
  <1>2. CASE UNCHANGED <<queue, appProxy>>
    BY <1>1, <1>2, QueueKept
  <1>3. CASE UNCHANGED vars \/ \E th \in Threads : Calls(th)
    BY <1>2, <1>3 DEF vars, tasks, panel, Calls, Enters
  <1>4. ASSUME NEW th \in Threads, CallSteps(th) PROVE QueueInv'
    <2> DEFINE c == pc[th]
    <2>1. UNCHANGED appProxy /\ c \in CallSet /\ c.tok \in Toks
      BY <1>1, <1>4 DEF CallSteps, RegisterCounts, RegisterAppends, CheckToken, CheckEntry, Checks,
           UnregisterErasesEntry, UnregisterErasesToken, RegisterDeviceSelectionCallback,
           UnregisterDeviceSelectionCallback, UpdateKeeps, UpdateSends, UsesNull, StartPosts,
           ConnectAbility, AmsConnectAbility, PanelCloses, PanelTells, panel, TypeInv, CallsType, CallSet
    <2>2. \/ UNCHANGED queue
          \/ Post("disconnect", NoToken)
          \/ appProxy /\ Post("update", c.tok)
          \/ appProxy /\ Post("start", c.tok)
          \/ PanelTells(th) /\ HasEntry(c.tok)
      BY <1>4 DEF CallSteps, RegisterCounts, RegisterAppends, CheckToken, CheckEntry, Checks,
           UnregisterErasesEntry, UnregisterErasesToken, RegisterDeviceSelectionCallback,
           UnregisterDeviceSelectionCallback, UpdateKeeps, UpdateSends, UsesNull, StartPosts,
           ConnectAbility, AmsConnectAbility, PanelCloses, PanelTells, tasks
    <2>3. PICK t \in Toks : t = c.tok
      BY <2>1
    <2>4. CASE Post("disconnect", NoToken)
      BY <1>1, <2>1, <2>4, QueuePost, Zeros DEF Kinds
    <2>5. CASE appProxy /\ Post("update", c.tok)
      <3>1. Post("update", t)
        BY <2>3, <2>5 DEF Post
      <3>2. QED
        BY <1>1, <2>1, <2>5, <3>1, QueuePost DEF Kinds
    <2>6. CASE appProxy /\ Post("start", c.tok)
      <3>1. Post("start", t)
        BY <2>3, <2>6 DEF Post
      <3>2. QED
        BY <1>1, <2>1, <2>6, <3>1, QueuePost DEF Kinds
    <2>7. CASE PanelTells(th) /\ HasEntry(c.tok)
      <3>1. /\ queue' = Append(queue, Task("tell", c.tok, c.cb, callbackMap[c.tok][c.cb], c.cut))
            /\ c.op \in PanelOps /\ c.at = "use"
        BY <2>7 DEF PanelTells, UsesNull, PanelOps
      <3>2. c.cb \in CbTypes /\ c.cut \in BOOLEAN /\ callbackMap[c.tok][c.cb] \in Apps \union {NoApp}
        BY <1>1, <2>1, <2>7, <3>1 DEF HasEntry, TypeInv, CallsType, CallSet, EntriesType, Entries
      <3>3. PICK x \in TaskSet : x = Task("tell", c.tok, c.cb, callbackMap[c.tok][c.cb], c.cut)
        BY <2>1, <3>2, TaskType DEF Kinds
      <3>4. x.kind = "tell" /\ x.app = callbackMap[c.tok][c.cb]
        BY <3>3 DEF Task
      <3>5. x.app = NoApp => x.cut
        <4>1. c.cut \/ HasNotifier(c.tok, c.cb)
          BY <1>1, <3>1 DEF UseInv, UseSafe
        <4>2. x.cut = c.cut
          BY <3>3, Zenon DEF Task
        <4>3. QED
          BY <3>4, <4>1, <4>2 DEF HasNotifier
      <3>6. queue' = Append(queue, x)
        BY <3>1, <3>3
      <3>7. QED
        BY <1>1, <2>1, <3>4, <3>5, <3>6, QueuePosts
    <2>8. QED
      BY <1>2, <2>1, <2>2, <2>4, <2>5, <2>6, <2>7
  <1>5. CASE Handler
    <2>1. /\ UNCHANGED appProxy
          /\ \/ UNCHANGED queue
             \/ queue # << >> /\ queue' = Tail(queue)
             \/ Post("disconnect", NoToken)
      BY <1>5 DEF Handler, HandlerStarts, HandlerUpdates, HandlerTells, HandlerDisconnects,
             HandlerForgetsConnection, HandlerForgetsNotifier, HandlerForgetsToken, Takes, UsesNull, panel, tasks
    <2>2. CASE Post("disconnect", NoToken)
      BY <1>1, <2>1, <2>2, QueuePost, Zeros DEF Kinds
    <2>3. QED
      BY <1>1, <2>1, <2>2, QueueKept
  <1>6. CASE AmsConnectDone
    <2>1. PICK s \in Stubs : appProxy' = TRUE /\ Post("start", tokenOf[s])
      BY <1>6 DEF AmsConnectDone
    <2>2. PICK t \in Toks : t = tokenOf[s]
      BY <1>1 DEF TypeInv, TokensType
    <2>3. Post("start", t) /\ appProxy'
      BY <2>1, <2>2 DEF Post
    <2>4. QED
      BY <1>1, <2>3, QueuePost DEF Kinds
  <1>7. CASE AmsDisconnectDone
    BY <1>1, <1>7, QueueCut DEF AmsDisconnectDone, CutAll
  <1>8. CASE ProcessNotifierDied
    <2>1. UNCHANGED appProxy
      BY <1>8 DEF ProcessNotifierDied, panel
    <2>2. CASE UNCHANGED queue
      BY <1>2, <2>1, <2>2
    <2>3. CASE \E n \in deaths : queue' = Append(queue, Task("died", n[1], n[2], n[3], FALSE))
      <3>1. PICK t \in Toks, cb \in CbTypes, a \in Apps : queue' = Append(queue, Task("died", t, cb, a, FALSE))
        BY <1>1, <2>3 DEF TypeInv, AppsType, Notifiers
      <3>2. PICK x \in TaskSet : x = Task("died", t, cb, a, FALSE)
        BY TaskType DEF Kinds
      <3>3. queue' = Append(queue, x) /\ x.kind = "died"
        BY <3>1, <3>2 DEF Task
      <3>4. QED
        BY <1>1, <2>1, <3>3, QueuePosts
    <2>4. QED
      BY <1>8, <2>2, <2>3 DEF ProcessNotifierDied
  <1>9. CASE AppDies
    BY <1>2, <1>9 DEF AppDies, tasks, panel
  <1>10. CASE Restart
    BY <1>10, EmptySeq DEF Restart, QueueInv
  <1>11. QED
    BY <1>1, <1>3, <1>4, <1>5, <1>6, <1>7, <1>8, <1>9, <1>10 DEF Next

-----------------------------------------------------------------------------
(* The process ends only at the uses of the maps and of the proxies, and what they find    *)
(* there no more was taken away in between.                                                *)
LEMMA NextDown == TypeInv /\ UseInv /\ QueueInv /\ DownInv /\ [Next]_vars => DownInv'
  <1>1. SUFFICES ASSUME TypeInv, UseInv, QueueInv, DownInv, [Next]_vars PROVE DownInv'
    OBVIOUS
  <1>2. CASE down' = "no"
    BY <1>2 DEF DownInv
  <1>3. CASE UNCHANGED vars
    BY <1>1, <1>3 DEF DownInv, vars, tasks
  <1>4. ASSUME NEW th \in Threads, CallSteps(th) PROVE DownInv'
    <2> DEFINE c == pc[th]
    <2>1. CASE UsesNull("entry") /\ (UpdateKeeps(th) \/ PanelTells(th)) /\ ~HasEntry(c.tok)
      <3>1. c.at = "use" /\ (c.op \in AppOps \/ c.op \in PanelOps)
        BY <2>1 DEF UpdateKeeps, PanelTells, AppOps, PanelOps
      <3>2. c.cut
        BY <1>1, <2>1, <3>1 DEF UseInv, UseSafe, HasNotifier
      <3>3. pc' = pc /\ down' = "entry"
        BY <2>1 DEF UsesNull
      <3>4. QED
        BY <3>1, <3>2, <3>3 DEF DownInv
    <2>2. CASE ~(UsesNull("entry") /\ (UpdateKeeps(th) \/ PanelTells(th)) /\ ~HasEntry(c.tok))
      <3>1. down' = "no"
        BY <1>4, <2>2 DEF CallSteps, RegisterCounts, RegisterAppends, CheckToken, CheckEntry, Checks,
           UnregisterErasesEntry, UnregisterErasesToken, RegisterDeviceSelectionCallback,
           UnregisterDeviceSelectionCallback, UpdateKeeps, UpdateSends, StartPosts,
           ConnectAbility, AmsConnectAbility, PanelCloses, PanelTells
      <3>2. QED
        BY <1>2, <3>1
    <2>3. QED
      BY <2>1, <2>2
  <1>5. CASE Handler
    <2>1. \/ down' = "no"
          \/ /\ queue # << >> /\ UsesNull("proxy") /\ ~appProxy
             /\ Head(queue).kind \in {"start", "update"}
          \/ /\ queue # << >> /\ UsesNull("notifier") /\ Head(queue).app = NoApp
             /\ Head(queue).kind = "tell"
      BY <1>5 DEF Handler, HandlerStarts, HandlerUpdates, HandlerTells, HandlerDisconnects,
             HandlerForgetsConnection, HandlerForgetsNotifier, HandlerForgetsToken, Takes
    <2>2. queue # << >> => TaskSafe(Head(queue))
      <3>1. SUFFICES ASSUME queue # << >> PROVE TaskSafe(Head(queue))
        OBVIOUS
      <3>2. PICK n \in Nat : n = Len(queue)
        BY <1>1, LenProperties DEF TypeInv, TasksType
      <3>3. n > 0 /\ Head(queue) = queue[1]
        BY <1>1, <3>1, <3>2, EmptySeq DEF TypeInv, TasksType
      <3>4. QED
        BY <1>1, <3>2, <3>3 DEF QueueInv
    <2>3. CASE queue # << >> /\ Head(queue).cut /\ (UsesNull("proxy") \/ UsesNull("notifier"))
      BY <2>3 DEF UsesNull, DownInv, tasks
    <2>4. QED
      BY <1>2, <2>1, <2>2, <2>3 DEF TaskSafe
  <1>6. CASE AmsConnectDone \/ AmsDisconnectDone \/ AppDies \/ ProcessNotifierDied \/ Restart
             \/ \E th \in Threads : Calls(th)
    BY <1>2, <1>6 DEF AmsConnectDone, AmsDisconnectDone, AppDies, ProcessNotifierDied, Restart, Calls, Enters
  <1>7. QED
    BY <1>1, <1>3, <1>4, <1>5, <1>6 DEF Next

(* The service uses a null pointer only if another thread took the callbacks of the token  *)
(* away, or disconnected the panel, between its look and its use; and it leaves no null    *)
(* entry in callbackMap_.                                                                  *)
THEOREM DiesOnlyByRaceCorrect == Spec => []DiesOnlyByRace
  <1>1. TypeInv /\ RaceInv /\ [Next]_vars => (TypeInv /\ RaceInv)'
    BY NextType, NextUse, NextQueue, NextNull, NextDown DEF RaceInv
  <1>2. RaceInv => DiesOnlyByRace
    BY DEF RaceInv, DownInv, NullInv, DiesOnlyByRace
  <1>3. QED
    BY <1>1, <1>2, InitType, InitRace, PTL DEF Spec

-----------------------------------------------------------------------------
(* The panel.  A call of an application has a token to give, and a connection has one.   *)
Gives(c) ==
    /\ c.op \in AppOps \union CbOps => c.tok # NoToken
    /\ c.at \in {"connect", "bind"} => c.op = "StartDeviceManager"
GivesInv == \A th \in Threads : Gives(pc[th])
GivenInv == \A a \in Apps : NoToken \notin given[a]
StubsInv ==
    /\ connect \in Stubs \union {NoStub} /\ ams \in [Stubs -> {"none", "connecting", "connected", "disconnecting"}]
    /\ connect # NoStub => tokenOf[connect] # NoToken
    /\ \A s \in Stubs : ams[s] # "none" => tokenOf[s] # NoToken

(* The connection the service would close is the only one made or under way, and none is *)
(* while the handler closes it.                                                          *)
Bound(s) == ams[s] \in {"connecting", "connected"}
OneBound ==
    races \intersect {"crossed", "forgotten"} = {} =>
        /\ \A s \in Stubs : Bound(s) => connect = s
        /\ running.kind = "disconnect" => \A s \in Stubs : ~Bound(s)

(* The proxy is there because of a connection, and for each that is made. *)
ProxyKnown ==
    /\ appProxy \in BOOLEAN
    /\ appProxy => \E s \in Stubs : ams[s] # "none"
    /\ "late" \notin races => \A s \in Stubs : ams[s] = "connected" => appProxy

(* The panel is to be shown for a token: a task will, or a connection made for it. *)
StartTask(x, t) == x.kind = "start" /\ x.tok = t
Queued(q, t) == \E i \in 1 .. Len(q) : StartTask(q[i], t)
Due(t) ==
    \/ Queued(queue, t)
    \/ \E s \in Stubs : tokenOf[s] = t /\ ams[s] = "connecting"
AskedDue == "reused" \notin races => \A t \in asked : Due(t)

PanelInv == GivesInv /\ GivenInv /\ StubsInv /\ OneBound /\ ProxyKnown /\ AskedDue

LEMMA GivesKept ==
    ASSUME TypeInv, GivesInv,
           \/ UNCHANGED pc
           \/ \E th \in Threads : Returns(th) \/ (\E at \in Places \ {"connect", "bind"} : Moves(th, at))
           \/ \E th \in Threads, at \in {"connect", "bind"} : pc[th].op = "StartDeviceManager" /\ Moves(th, at)
           \/ \E th, t : Cuts(th, Idle, t)
    PROVE  GivesInv'
  <1>1. Gives(Idle)
    BY DEF Gives, Idle, AppOps, CbOps
  <1>2. CASE UNCHANGED pc
    BY <1>2 DEF GivesInv
  <1>3. ASSUME NEW th \in Threads, Returns(th) PROVE GivesInv'
    BY <1>1, <1>3 DEF GivesInv, Returns, TypeInv, CallsType
  <1>4. ASSUME NEW th \in Threads, NEW at \in Places, Moves(th, at),
               at \in {"connect", "bind"} => pc[th].op = "StartDeviceManager"
        PROVE  GivesInv'
    <2>1. pc[th] \in CallSet /\ Gives(pc[th])
      BY DEF TypeInv, CallsType, GivesInv
    <2>2. PICK d : d = [pc[th] EXCEPT !.at = at]
      OBVIOUS
    <2>3. d.op = pc[th].op /\ d.tok = pc[th].tok /\ d.at = at
      BY <2>1, <2>2, MovedCall
    <2>4. Gives(d)
      BY <1>4, <2>1, <2>3 DEF Gives
    <2>5. \A x \in Threads : pc'[x] = IF x = th THEN d ELSE pc[x]
      BY <1>4, <2>2, MovesTo DEF TypeInv
    <2>6. QED
      BY <2>4, <2>5 DEF GivesInv
  <1>5. ASSUME NEW th, NEW t, Cuts(th, Idle, t) PROVE GivesInv'
    <2>1. ASSUME NEW x \in Threads PROVE Gives(pc'[x])
      <3>1. CASE x = th
        BY <1>1, <1>5, <3>1 DEF Cuts
      <3>2. CASE x # th
        <4>1. pc'[x] = Cut(pc[x], t) /\ pc[x] \in CallSet /\ Gives(pc[x])
          BY <1>5, <3>2 DEF Cuts, TypeInv, CallsType, GivesInv
        <4>2. QED
          BY <4>1, CutCall DEF Gives
      <3>3. QED
        BY <3>1, <3>2
    <2>2. QED
      BY <2>1 DEF GivesInv
  <1>6. {"connect", "bind"} \subseteq Places
    BY DEF Places
  <1>7. QED
    BY <1>2, <1>3, <1>4, <1>5, <1>6

LEMMA NextGives ==
    ASSUME TypeInv, GivesInv, GivenInv, [Next]_vars
    PROVE  GivesInv'
  <1>1. ASSUME NEW th \in Threads, Calls(th) PROVE GivesInv'
    <2> DEFINE Given(op, a, t, cb, at) ==
                  /\ Enters(th, op, a, t, cb, at) /\ at \in {"count", "token", "close"}
                  /\ op \in AppOps \union CbOps => t # NoToken
    <2>1. PICK op, a, t, cb, at : Given(op, a, t, cb, at)
      <3>1. ASSUME NEW a \in alive, Enters(th, "Register", a, NoToken, "none", "count")
            PROVE  Given("Register", a, NoToken, "none", "count")
        BY <3>1 DEF AppOps, CbOps
      <3>2. ASSUME NEW a \in alive, NEW t \in given[a], NEW op, NEW cb, Enters(th, op, a, t, cb, "token")
            PROVE  Given(op, a, t, cb, "token")
        <4>1. t # NoToken
          BY <3>2 DEF GivenInv, TypeInv, AppsType
        <4>2. QED
          BY <3>2, <4>1
      <3>3. ASSUME NEW t, NEW op \in PanelOps, NEW cb, Enters(th, op, NoApp, t, cb, "close")
            PROVE  Given(op, NoApp, t, cb, "close")
        BY <3>3 DEF AppOps, CbOps, PanelOps
      <3>4. CASE \E a \in alive : Enters(th, "Register", a, NoToken, "none", "count")
        BY <3>1, <3>4
      <3>5. CASE \/ \E a \in alive : \E t \in given[a], op \in AppOps : Enters(th, op, a, t, "none", "token")
                 \/ \E a \in alive : \E t \in given[a], op \in CbOps, cb \in CbTypes : Enters(th, op, a, t, cb, "token")
        <4>1. PICK a, t, op, cb : a \in alive /\ t \in given[a] /\ Enters(th, op, a, t, cb, "token")
          BY <3>5
        <4>2. QED
          BY <3>2, <4>1
      <3>6. CASE \E t \in shown, op \in PanelOps : Enters(th, op, NoApp, t, CalledType(op), "close")
        BY <3>3, <3>6
      <3>7. QED
        BY <1>1, <3>4, <3>5, <3>6 DEF Calls
    <2>2. PICK c : c = [op |-> op, app |-> a, tok |-> t, cb |-> cb, at |-> at, cut |-> FALSE]
      OBVIOUS
    <2>3. Gives(c)
      BY <2>1, <2>2 DEF Gives
    <2>4. \A x \in Threads : pc'[x] = IF x = th THEN c ELSE pc[x]
      BY <2>1, <2>2 DEF Enters, TypeInv, CallsType
    <2>5. QED
      BY <2>3, <2>4 DEF GivesInv
  <1>2. ASSUME NEW th \in Threads, CallSteps(th) PROVE GivesInv'
    <2>1. CASE UnregisterErasesEntry(th)
      <3>1. PICK t, n : t = pc[th].tok /\ n = [pc[th] EXCEPT !.at = "erase token"]
        OBVIOUS
      <3>2. n.op = pc[th].op /\ n.tok = pc[th].tok /\ n.at = "erase token"
        BY <3>1, MovedCall DEF TypeInv, CallsType, Places
      <3>3. Gives(n)
        BY <3>2 DEF GivesInv, Gives
      <3>4. \A x \in Threads : pc'[x] = IF x = th THEN n ELSE Cut(pc[x], t)
        BY <2>1, <3>1 DEF UnregisterErasesEntry, Cuts
      <3>5. \A x \in Threads : Gives(Cut(pc[x], t))
        BY CutCall DEF Gives, GivesInv, TypeInv, CallsType
      <3>6. QED
        BY <3>3, <3>4, <3>5 DEF GivesInv
    <2>2. CASE ~UnregisterErasesEntry(th)
      <3>1. \/ UNCHANGED pc
            \/ Returns(th) \/ \E at \in Places \ {"connect", "bind"} : Moves(th, at)
            \/ pc[th].op = "StartDeviceManager" /\ Moves(th, "connect")
            \/ pc[th].at = "connect" /\ Moves(th, "bind")
            \/ Cuts(th, Idle, pc[th].tok)
        BY <1>2, <2>2 DEF CallSteps, RegisterCounts, RegisterAppends, CheckToken, CheckEntry, Checks,
           UnregisterErasesToken, RegisterDeviceSelectionCallback,
           UnregisterDeviceSelectionCallback, UpdateKeeps, UpdateSends, UsesNull, StartPosts,
           ConnectAbility, AmsConnectAbility, PanelCloses, PanelTells, Places
      <3>2. pc[th].at = "connect" => pc[th].op = "StartDeviceManager"
        BY DEF GivesInv, Gives
      <3>3. QED
        BY <3>1, <3>2, GivesKept
    <2>3. QED
      BY <2>1, <2>2
  <1>3. CASE Handler
    <2>1. UNCHANGED pc \/ \E t : Cuts(NoThread, Idle, t)
      BY <1>3 DEF Handler, HandlerStarts, HandlerUpdates, HandlerTells, HandlerDisconnects,
              HandlerForgetsConnection, HandlerForgetsNotifier, HandlerForgetsToken, UsesNull
    <2>2. QED
      BY <2>1, GivesKept
  <1>4. CASE AmsConnectDone \/ AmsDisconnectDone \/ AppDies \/ ProcessNotifierDied \/ UNCHANGED vars
    BY <1>4, GivesKept DEF AmsConnectDone, AmsDisconnectDone, AppDies, ProcessNotifierDied, vars
  <1>5. CASE Restart
    BY <1>5 DEF Restart, GivesInv, Gives, Idle, AppOps, CbOps
  <1>6. QED
    BY <1>1, <1>2, <1>3, <1>4, <1>5 DEF Next

LEMMA NextGiven ==
    ASSUME TypeInv, GivenInv, [Next]_vars
    PROVE  GivenInv'
  <1>1. ASSUME NEW th \in Threads, RegisterAppends(th) PROVE GivenInv'
    <2>1. given' = [given EXCEPT ![pc[th].app] = given[pc[th].app] \union {NextToken}]
      BY <1>1 DEF RegisterAppends
    <2>2. token \in Nat
      BY BoundsAssumption DEF TypeInv, TokensType, Toks
    <2>3. NextToken # NoToken
      BY <2>2 DEF NextToken, NoToken
    <2>4. QED
      BY <2>1, <2>3 DEF GivenInv, TypeInv, TokensType
  <1>2. CASE UNCHANGED given
    BY <1>2 DEF GivenInv
  <1>3. ASSUME NEW th \in Threads, CallSteps(th), ~RegisterAppends(th) PROVE UNCHANGED given
    BY <1>3 DEF CallSteps, RegisterCounts, CheckToken, CheckEntry, Checks,
           UnregisterErasesEntry, UnregisterErasesToken, RegisterDeviceSelectionCallback,
           UnregisterDeviceSelectionCallback, UpdateKeeps, UpdateSends, UsesNull, StartPosts,
           ConnectAbility, AmsConnectAbility, PanelCloses, PanelTells, tokens
  <1>4. CASE Handler \/ AmsConnectDone \/ AmsDisconnectDone \/ AppDies \/ ProcessNotifierDied \/ Restart
             \/ UNCHANGED vars \/ \E th \in Threads : Calls(th)
    <2>1. UNCHANGED given
      BY <1>4 DEF Handler, HandlerStarts, HandlerUpdates, HandlerTells, HandlerDisconnects,
              HandlerForgetsConnection, HandlerForgetsNotifier, HandlerForgetsToken, UsesNull,
              AmsConnectDone, AmsDisconnectDone, AppDies, ProcessNotifierDied, Restart, Calls, Enters, vars, tokens
    <2>2. QED
      BY <1>2, <2>1
  <1>5. QED
    BY <1>1, <1>2, <1>3, <1>4 DEF Next

(* The steps that touch the panel's connection; all others leave it. *)
PanelSame == UNCHANGED <<appProxy, connect, tokenOf, ams>>

LEMMA PanelSteps ==
    ASSUME [Next]_vars
    PROVE  \/ PanelSame
           \/ \E th \in Threads : ConnectAbility(th) \/ AmsConnectAbility(th)
           \/ AmsConnectDone \/ AmsDisconnectDone \/ HandlerDisconnects \/ HandlerForgetsConnection
           \/ Restart
  <1>1. ASSUME NEW th \in Threads, CallSteps(th), ~ConnectAbility(th), ~AmsConnectAbility(th) PROVE PanelSame
    BY <1>1 DEF CallSteps, RegisterCounts, RegisterAppends, CheckToken, CheckEntry, Checks,
           UnregisterErasesEntry, UnregisterErasesToken, RegisterDeviceSelectionCallback,
           UnregisterDeviceSelectionCallback, UpdateKeeps, UpdateSends, UsesNull, StartPosts,
           PanelCloses, PanelTells, panel, PanelSame
  <1>2. CASE Handler /\ ~HandlerDisconnects /\ ~HandlerForgetsConnection
    BY <1>2 DEF Handler, HandlerStarts, HandlerUpdates, HandlerTells,
              HandlerForgetsNotifier, HandlerForgetsToken, UsesNull, panel, PanelSame
  <1>3. CASE AppDies \/ ProcessNotifierDied \/ UNCHANGED vars \/ \E th \in Threads : Calls(th)
    BY <1>3 DEF AppDies, ProcessNotifierDied, Calls, Enters, vars, panel, PanelSame
  <1>4. QED
    BY <1>1, <1>2, <1>3 DEF Next, Handler

LEMMA StubType == NoStub \notin Stubs
  BY BoundsAssumption DEF NoStub, Stubs

(* The call that makes a connection, and the one that has it bound, by points. *)
LEMMA ConnectsAt ==
    ASSUME TypeInv, StubsInv, NEW th \in Threads, ConnectAbility(th)
    PROVE  /\ UNCHANGED <<appProxy, ams, asked, queue, running>>
           /\ \/ connect # NoStub /\ UNCHANGED <<connect, tokenOf>> /\ races \subseteq races'
              \/ connect = NoStub /\ UNCHANGED races /\ \E s \in Stubs :
                    /\ connect' = s /\ tokenOf[s] = NoToken
                    /\ \A r \in Stubs : tokenOf'[r] = IF r = s THEN pc[th].tok ELSE tokenOf[r]
  <1>1. UNCHANGED <<appProxy, ams, asked, queue, running>>
    BY DEF ConnectAbility, tasks
  <1>2. CASE connect # NoStub
    BY <1>1, <1>2 DEF ConnectAbility
  <1>3. CASE connect = NoStub
    <2>1. PICK s \in Stubs : tokenOf[s] = NoToken /\ connect' = s /\ tokenOf' = [tokenOf EXCEPT ![s] = pc[th].tok]
      BY <1>3 DEF ConnectAbility, FreshStub
    <2>2. \A r \in Stubs : tokenOf'[r] = IF r = s THEN pc[th].tok ELSE tokenOf[r]
      BY <2>1 DEF TypeInv, TokensType
    <2>3. UNCHANGED races
      BY <1>3 DEF ConnectAbility
    <2>4. QED
      BY <1>1, <1>3, <2>1, <2>2, <2>3
  <1>4. QED
    BY <1>2, <1>3

LEMMA BindsAt ==
    ASSUME TypeInv, StubsInv, NEW th \in Threads, AmsConnectAbility(th)
    PROVE  /\ UNCHANGED <<appProxy, tokenOf, queue, running>>
           /\ \/ /\ connect \in Stubs /\ UNCHANGED connect /\ asked' = asked \union {pc[th].tok}
                 /\ ams' \in [Stubs -> {"none", "connecting", "connected", "disconnecting"}]
                 /\ \A r \in Stubs : r # connect => ams'[r] = ams[r]
                 /\ ams'[connect] = "connecting" \/ (ams[connect] = "connected" /\ ams'[connect] = "connected")
                 /\ races \subseteq races'
                 /\ running.kind = "disconnect" => "crossed" \in races'
                 /\ tokenOf[connect] # pc[th].tok \/ ams[connect] = "connected" => "reused" \in races'
              \/ /\ connect' = NoStub /\ UNCHANGED <<ams, asked>> /\ races \subseteq races'
                 /\ connect # NoStub /\ ams[connect] # "none" => "forgotten" \in races'
  <1>1. UNCHANGED <<appProxy, tokenOf, queue, running>>
    BY DEF AmsConnectAbility, tasks
  <1> DEFINE Binds ==
        /\ connect # NoStub
        /\ \E state \in IF ams[connect] = "connected" THEN {"connected", "connecting"} ELSE {"connecting"} :
              ams' = [ams EXCEPT ![connect] = state]
        /\ asked' = asked \union {pc[th].tok} /\ connect' = connect
        /\ races' = races \union (IF running.kind = "disconnect" THEN {"crossed"} ELSE {})
                          \union (IF tokenOf[connect] # pc[th].tok \/ ams[connect] = "connected"
                                  THEN {"reused"} ELSE {})
  <1>2. CASE Binds
    <2>1. connect \in Stubs
      BY <1>2 DEF StubsInv
    <2>2. PICK state \in {"connected", "connecting"} :
             /\ ams' = [ams EXCEPT ![connect] = state]
             /\ state = "connected" => ams[connect] = "connected"
      BY <1>2
    <2>3. /\ ams' \in [Stubs -> {"none", "connecting", "connected", "disconnecting"}]
          /\ \A r \in Stubs : r # connect => ams'[r] = ams[r]
          /\ ams'[connect] = state
      BY <2>1, <2>2 DEF StubsInv
    <2>4. /\ races \subseteq races'
          /\ running.kind = "disconnect" => "crossed" \in races'
          /\ tokenOf[connect] # pc[th].tok \/ ams[connect] = "connected" => "reused" \in races'
      BY <1>2
    <2>5. asked' = asked \union {pc[th].tok} /\ UNCHANGED connect
      BY <1>2
    <2>6. QED
      BY <1>1, <2>1, <2>2, <2>3, <2>4, <2>5
  <1>3. CASE ~Binds
    <2>1. /\ connect' = NoStub
          /\ races' = races \union (IF connect # NoStub /\ ams[connect] # "none" THEN {"forgotten"} ELSE {})
          /\ UNCHANGED <<ams, asked>>
      BY <1>3 DEF AmsConnectAbility
    <2>2. QED
      BY <1>1, <2>1
  <1>4. QED
    BY <1>2, <1>3

LEMMA NextStubs ==
    ASSUME TypeInv, GivesInv, StubsInv, [Next]_vars
    PROVE  StubsInv'
  <1>1. CASE PanelSame
    BY <1>1 DEF PanelSame, StubsInv
  <1>2. ASSUME NEW th \in Threads, ConnectAbility(th) PROVE StubsInv'
    <2>1. pc[th].at = "connect"
      BY <1>2 DEF ConnectAbility
    <2>2. pc[th].tok # NoToken
      BY <2>1 DEF GivesInv, Gives, AppOps
    <2>3. QED
      BY <1>2, <2>2, ConnectsAt, StubType DEF StubsInv
  <1>3. ASSUME NEW th \in Threads, AmsConnectAbility(th) PROVE StubsInv'
    <2>1. UNCHANGED tokenOf /\ connect' \in {connect, NoStub}
      BY <1>3, BindsAt
    <2>2. /\ ams' \in [Stubs -> {"none", "connecting", "connected", "disconnecting"}]
          /\ \A r \in Stubs : ams'[r] # "none" => ams[r] # "none" \/ r = connect
      BY <1>3, BindsAt DEF StubsInv
    <2>3. connect # NoStub => tokenOf[connect] # NoToken
      BY DEF StubsInv
    <2>4. \A r \in Stubs : ams'[r] # "none" => tokenOf[r] # NoToken
      BY <2>2, <2>3, StubType DEF StubsInv
    <2>5. QED
      BY <2>1, <2>2, <2>3, <2>4 DEF StubsInv
  <1>4. CASE AmsConnectDone
    <2>1. PICK s \in Stubs : /\ ams[s] = "connecting" /\ ams' = [ams EXCEPT ![s] = "connected"]
                             /\ UNCHANGED <<connect, tokenOf>>
      BY <1>4 DEF AmsConnectDone
    <2>2. QED
      BY <2>1 DEF StubsInv
  <1>5. CASE AmsDisconnectDone
    <2>1. PICK s \in Stubs : ams' = [ams EXCEPT ![s] = "none"] /\ UNCHANGED <<connect, tokenOf>>
      BY <1>5 DEF AmsDisconnectDone
    <2>2. QED
      BY <2>1 DEF StubsInv
  <1>6. CASE HandlerDisconnects
    <2>1. PICK x \in {"none", "disconnecting"} : ams' = ams \/ (connect # NoStub /\ ams' = [ams EXCEPT ![connect] = x])
      <3>1. ams' = ams \/ (connect # NoStub /\ \E x \in {"none", "disconnecting"} : ams' = [ams EXCEPT ![connect] = x])
        BY <1>6 DEF HandlerDisconnects
      <3>2. QED
        BY <3>1
    <2>2. UNCHANGED <<connect, tokenOf>>
      BY <1>6 DEF HandlerDisconnects
    <2>3. QED
      BY <2>1, <2>2 DEF StubsInv
  <1>7. CASE HandlerForgetsConnection
    BY <1>7 DEF HandlerForgetsConnection, StubsInv
  <1>8. CASE Restart
    BY <1>8, StubType DEF Restart, StubsInv
  <1>9. QED
    BY <1>1, <1>2, <1>3, <1>4, <1>5, <1>6, <1>7, <1>8, PanelSteps

(* The connection the handler ends, and the one the AMS reports on, by points. *)
LEMMA DisconnectsAt ==
    ASSUME TypeInv, StubsInv, HandlerDisconnects
    PROVE  /\ UNCHANGED <<appProxy, connect, tokenOf, races>> /\ asked' = {}
           /\ queue # << >> /\ queue' = Tail(queue)
           /\ \A r \in Stubs : ams'[r] = IF r = connect /\ ams[r] # "none" THEN "disconnecting" ELSE ams[r]
           /\ running'.kind = "disconnect" => running.kind = "disconnect" \/ connect # NoStub
           /\ running = Nothing
  <1>1. /\ UNCHANGED <<appProxy, connect, tokenOf, races>> /\ asked' = {}
        /\ queue # << >> /\ queue' = Tail(queue) /\ running = Nothing
    BY DEF HandlerDisconnects, Takes
  <1>2. CASE connect = NoStub
    <2>1. UNCHANGED <<ams, running>>
      BY <1>2 DEF HandlerDisconnects
    <2>2. QED
      BY <1>1, <1>2, <2>1, StubType
  <1>3. CASE connect # NoStub
    <2>1. ams' = [ams EXCEPT ![connect] = IF @ = "none" THEN @ ELSE "disconnecting"]
      BY <1>3 DEF HandlerDisconnects
    <2>2. \A r \in Stubs : ams'[r] = IF r = connect /\ ams[r] # "none" THEN "disconnecting" ELSE ams[r]
      BY <1>3, <2>1 DEF StubsInv
    <2>3. QED
      BY <1>1, <1>3, <2>2
  <1>4. QED
    BY <1>2, <1>3

LEMMA ConnectDoneAt ==
    ASSUME TypeInv, StubsInv, AmsConnectDone
    PROVE  /\ UNCHANGED <<connect, tokenOf, races, running, asked>> /\ appProxy' = TRUE
           /\ \E s \in Stubs :
                 /\ ams[s] = "connecting" /\ Post("start", tokenOf[s])
                 /\ \A r \in Stubs : ams'[r] = IF r = s THEN "connected" ELSE ams[r]
  <1>1. /\ UNCHANGED <<connect, tokenOf, races, running, asked>> /\ appProxy' = TRUE
    BY DEF AmsConnectDone
  <1>2. PICK s \in Stubs : /\ ams[s] = "connecting" /\ Post("start", tokenOf[s])
                           /\ ams' = [ams EXCEPT ![s] = "connected"]
    BY DEF AmsConnectDone
  <1>3. \A r \in Stubs : ams'[r] = IF r = s THEN "connected" ELSE ams[r]
    BY <1>2 DEF StubsInv
  <1>4. QED
    BY <1>1, <1>2, <1>3

LEMMA DisconnectDoneAt ==
    ASSUME TypeInv, StubsInv, AmsDisconnectDone
    PROVE  /\ UNCHANGED <<connect, tokenOf, running>> /\ appProxy' = FALSE
           /\ races \subseteq races' /\ queue' = CutAll(queue)
           /\ \E s \in Stubs :
                 /\ ams[s] # "none" /\ asked' = asked \ {tokenOf[s]}
                 /\ \A r \in Stubs : ams'[r] = IF r = s THEN "none" ELSE ams[r]
                 /\ (\E r \in Stubs : r # s /\ ams[r] = "connected") => "late" \in races'
  <1>1. /\ UNCHANGED <<connect, tokenOf, running>> /\ appProxy' = FALSE
        /\ races \subseteq races' /\ queue' = CutAll(queue)
    BY DEF AmsDisconnectDone, CutAll
  <1>2. PICK s \in Stubs : /\ ams[s] # "none" /\ asked' = asked \ {tokenOf[s]}
                           /\ ams' = [ams EXCEPT ![s] = "none"]
                           /\ races' = races \union (IF \E r \in Stubs \ {s} : ams[r] = "connected" THEN {"late"} ELSE {})
    BY DEF AmsDisconnectDone
  <1>3. \A r \in Stubs : ams'[r] = IF r = s THEN "none" ELSE ams[r]
    BY <1>2 DEF StubsInv
  <1>4. (\E r \in Stubs : r # s /\ ams[r] = "connected") => "late" \in races'
    BY <1>2
  <1>5. QED
    BY <1>1, <1>2, <1>3, <1>4

(* Races stay noted while the process lives, and only one step makes the handler close. *)
LEMMA RacesStay ==
    ASSUME [Next]_vars, ~Restart
    PROVE  races \subseteq races'
  <1>1. ASSUME NEW th \in Threads, CallSteps(th) PROVE races \subseteq races'
    BY <1>1 DEF CallSteps, RegisterCounts, RegisterAppends, CheckToken, CheckEntry, Checks,
           UnregisterErasesEntry, UnregisterErasesToken, RegisterDeviceSelectionCallback,
           UnregisterDeviceSelectionCallback, UpdateKeeps, UpdateSends, UsesNull, StartPosts,
           ConnectAbility, AmsConnectAbility, PanelCloses, PanelTells
  <1>2. CASE Handler \/ AmsConnectDone \/ AmsDisconnectDone \/ AppDies \/ ProcessNotifierDied
             \/ UNCHANGED vars \/ \E th \in Threads : Calls(th)
    BY <1>2 DEF Handler, HandlerStarts, HandlerUpdates, HandlerTells, HandlerDisconnects,
              HandlerForgetsConnection, HandlerForgetsNotifier, HandlerForgetsToken, UsesNull,
              AmsConnectDone, AmsDisconnectDone, AppDies, ProcessNotifierDied, Calls, Enters, vars
  <1>3. QED
    BY <1>1, <1>2 DEF Next

LEMMA ClosesOnce ==
    ASSUME [Next]_vars, ~HandlerDisconnects, running'.kind = "disconnect"
    PROVE  running.kind = "disconnect"
  <1>1. Nothing.kind = "none"
    BY DEF Nothing, Task
  <1>2. ASSUME NEW th \in Threads, CallSteps(th) PROVE UNCHANGED running
    BY <1>2 DEF CallSteps, RegisterCounts, RegisterAppends, CheckToken, CheckEntry, Checks,
           UnregisterErasesEntry, UnregisterErasesToken, RegisterDeviceSelectionCallback,
           UnregisterDeviceSelectionCallback, UpdateKeeps, UpdateSends, UsesNull, StartPosts,
           ConnectAbility, AmsConnectAbility, PanelCloses, PanelTells, tasks
  <1>3. CASE HandlerForgetsNotifier
    BY <1>3 DEF HandlerForgetsNotifier, Takes
  <1>4. CASE HandlerForgetsConnection \/ HandlerForgetsToken \/ Restart
    BY <1>1, <1>4 DEF HandlerForgetsConnection, HandlerForgetsToken, Restart
  <1>5. CASE HandlerStarts \/ HandlerUpdates \/ HandlerTells
             \/ AmsConnectDone \/ AmsDisconnectDone \/ AppDies \/ ProcessNotifierDied
             \/ UNCHANGED vars \/ \E th \in Threads : Calls(th)
    BY <1>5 DEF HandlerStarts, HandlerUpdates, HandlerTells, UsesNull,
              AmsConnectDone, AmsDisconnectDone, AppDies, ProcessNotifierDied, Calls, Enters, vars, tasks
  <1>6. QED
    BY <1>2, <1>3, <1>4, <1>5 DEF Next, Handler

LEMMA NextOneBound ==
    ASSUME TypeInv, StubsInv, OneBound, [Next]_vars
    PROVE  OneBound'
  <1>1. CASE PanelSame /\ ~Restart /\ ~HandlerDisconnects
    BY <1>1, RacesStay, ClosesOnce DEF PanelSame, OneBound, Bound
  <1>2. ASSUME NEW th \in Threads, ConnectAbility(th) PROVE OneBound'
    <2>1. UNCHANGED <<ams, running>> /\ races \subseteq races' /\ (connect' = connect \/ connect = NoStub)
      BY <1>2, ConnectsAt
    <2>2. QED
      BY <2>1, StubType DEF OneBound, Bound
  <1>3. ASSUME NEW th \in Threads, AmsConnectAbility(th) PROVE OneBound'
    <2>1. CASE /\ connect \in Stubs /\ UNCHANGED connect
               /\ \A r \in Stubs : r # connect => ams'[r] = ams[r]
               /\ races \subseteq races' /\ UNCHANGED running
               /\ running.kind = "disconnect" => "crossed" \in races'
      BY <2>1 DEF OneBound, Bound
    <2>2. CASE /\ UNCHANGED <<ams, running>> /\ races \subseteq races'
               /\ connect # NoStub /\ ams[connect] # "none" => "forgotten" \in races'
      BY <2>2, StubType DEF OneBound, Bound
    <2>3. QED
      BY <1>3, <2>1, <2>2, BindsAt
  <1>4. CASE AmsConnectDone
    BY <1>4, ConnectDoneAt DEF OneBound, Bound
  <1>5. CASE AmsDisconnectDone
    BY <1>5, DisconnectDoneAt DEF OneBound, Bound
  <1>6. CASE HandlerDisconnects
    BY <1>6, DisconnectsAt DEF OneBound, Bound
  <1>7. CASE HandlerForgetsConnection
    <2>1. /\ running.kind = "disconnect" /\ UNCHANGED <<ams, races>> /\ running' = Nothing
      BY <1>7 DEF HandlerForgetsConnection
    <2>2. Nothing.kind = "none"
      BY DEF Nothing, Task
    <2>3. QED
      BY <2>1, <2>2 DEF OneBound, Bound
  <1>8. CASE Restart
    <2>1. ams' = [s \in Stubs |-> "none"]
      BY <1>8 DEF Restart
    <2>2. QED
      BY <2>1 DEF OneBound, Bound
  <1>9. QED
    BY <1>1, <1>2, <1>3, <1>4, <1>5, <1>6, <1>7, <1>8, PanelSteps

LEMMA NextProxy ==
    ASSUME TypeInv, StubsInv, ProxyKnown, [Next]_vars
    PROVE  ProxyKnown'
  <1>1. CASE PanelSame /\ ~Restart
    BY <1>1, RacesStay DEF PanelSame, ProxyKnown
  <1>2. ASSUME NEW th \in Threads, ConnectAbility(th) PROVE ProxyKnown'
    <2>1. UNCHANGED <<appProxy, ams>> /\ races \subseteq races'
      BY <1>2, ConnectsAt
    <2>2. QED
      BY <2>1 DEF ProxyKnown
  <1>3. ASSUME NEW th \in Threads, AmsConnectAbility(th) PROVE ProxyKnown'
    <2>1. /\ UNCHANGED appProxy /\ races \subseteq races'
          /\ \A r \in Stubs : /\ ams'[r] = "connected" => ams[r] = "connected"
                              /\ ams[r] # "none" => ams'[r] # "none"
      BY <1>3, BindsAt
    <2>2. QED
      BY <2>1 DEF ProxyKnown
  <1>4. CASE AmsConnectDone
    BY <1>4, ConnectDoneAt DEF ProxyKnown
  <1>5. CASE AmsDisconnectDone
    BY <1>5, DisconnectDoneAt DEF ProxyKnown
  <1>6. CASE HandlerDisconnects
    <2>1. /\ UNCHANGED <<appProxy, races>>
          /\ \A r \in Stubs : /\ ams'[r] = "connected" => ams[r] = "connected"
                              /\ ams[r] # "none" => ams'[r] # "none"
      BY <1>6, DisconnectsAt
    <2>2. QED
      BY <2>1 DEF ProxyKnown
  <1>7. CASE HandlerForgetsConnection
    BY <1>7 DEF HandlerForgetsConnection, ProxyKnown
  <1>8. CASE Restart
    <2>1. ams' = [s \in Stubs |-> "none"] /\ appProxy' = FALSE
      BY <1>8 DEF Restart
    <2>2. QED
      BY <2>1 DEF ProxyKnown
  <1>9. QED
    BY <1>1, <1>2, <1>3, <1>4, <1>5, <1>6, <1>7, <1>8, PanelSteps

(* The tasks that show the panel: what the steps of the queue leave of them. *)
LEMMA AppendQueued ==
    ASSUME TypeInv, NEW x, queue' = Append(queue, x)
    PROVE  \A t : Queued(queue, t) \/ StartTask(x, t) => Queued(queue', t)
  <1>1. PICK n \in Nat : n = Len(queue) /\ queue \in [1 .. n -> TaskSet]
    BY LenProperties DEF TypeInv, TasksType
  <1>2. PICK S : S = TaskSet \union {x}
    OBVIOUS
  <1>3. queue \in [1 .. n -> S]
    BY <1>1, <1>2
  <1>4. queue \in Seq(S) /\ x \in S
    BY <1>2, <1>3
  <1>5. /\ Len(queue') = n + 1 /\ queue'[n + 1] = x
        /\ \A i \in 1 .. n : queue'[i] = queue[i]
    BY <1>1, <1>4, AppendProperties
  <1>6. \A i \in 1 .. n : i \in 1 .. n + 1
    BY <1>1
  <1>7. n + 1 \in 1 .. n + 1
    BY <1>1
  <1>8. QED
    BY <1>1, <1>5, <1>6, <1>7 DEF Queued

LEMMA TailQueued ==
    ASSUME TypeInv, queue # << >>, queue' = Tail(queue)
    PROVE  \A t : Queued(queue, t) => Queued(queue', t) \/ StartTask(Head(queue), t)
  <1>1. PICK n \in Nat : n = Len(queue)
    BY LenProperties DEF TypeInv, TasksType
  <1>2. /\ n > 0 /\ Len(queue') = n - 1 /\ Head(queue) = queue[1]
        /\ \A i \in 1 .. n - 1 : queue'[i] = queue[i + 1]
    BY <1>1, HeadTailProperties, EmptySeq DEF TypeInv, TasksType
  <1>3. \A i \in 1 .. n : i = 1 \/ (i - 1 \in 1 .. n - 1 /\ (i - 1) + 1 = i)
    BY <1>2
  <1>4. ASSUME NEW t, Queued(queue, t), ~StartTask(Head(queue), t) PROVE Queued(queue', t)
    <2>1. PICK i \in 1 .. n : StartTask(queue[i], t)
      BY <1>1, <1>4 DEF Queued
    <2>2. i - 1 \in 1 .. n - 1 /\ (i - 1) + 1 = i
      BY <1>2, <1>3, <1>4, <2>1
    <2>3. queue'[i - 1] = queue[i]
      BY <1>2, <2>2
    <2>4. QED
      BY <1>2, <2>1, <2>2, <2>3 DEF Queued
  <1>5. QED
    BY <1>4

LEMMA CutQueued ==
    ASSUME TypeInv, queue' = CutAll(queue)
    PROVE  \A t : Queued(queue, t) => Queued(queue', t)
  <1>1. PICK n \in Nat : n = Len(queue)
    BY LenProperties DEF TypeInv, TasksType
  <1>2. Len(queue') = n
    BY <1>1, CutQueue DEF TypeInv, TasksType
  <1>3. \A i \in 1 .. n : queue[i] \in TaskSet /\ queue'[i] = [queue[i] EXCEPT !.cut = TRUE]
    BY <1>1, LenProperties DEF CutAll, TypeInv, TasksType
  <1>4. \A i \in 1 .. n : queue'[i].kind = queue[i].kind /\ queue'[i].tok = queue[i].tok
    BY <1>3, CutTask
  <1>5. QED
    BY <1>1, <1>2, <1>4 DEF Queued, StartTask

LEMMA PostQueued ==
    ASSUME TypeInv, NEW kind \in Kinds, NEW u \in Toks, Post(kind, u)
    PROVE  /\ \A t : Queued(queue, t) => Queued(queue', t)
           /\ kind = "start" => Queued(queue', u)
  <1>1. PICK x \in TaskSet : x = Task(kind, u, "none", NoApp, FALSE)
    BY TaskType
  <1>2. queue' = Append(queue, x) /\ x.kind = kind /\ x.tok = u
    BY <1>1 DEF Post, Task
  <1>3. QED
    BY <1>1, <1>2, AppendQueued DEF StartTask

(* What is due stays due when neither the tasks nor the connections under way get fewer. *)
LEMMA DueKept ==
    ASSUME AskedDue, races \subseteq races', "reused" \notin races' => asked' \subseteq asked,
           \A t \in asked' : Queued(queue, t) => Queued(queue', t),
           \A s \in Stubs : ams[s] = "connecting" => ams'[s] = "connecting" /\ tokenOf'[s] = tokenOf[s]
    PROVE  AskedDue'
  <1>1. SUFFICES ASSUME "reused" \notin races', NEW t \in asked'
                 PROVE  Queued(queue', t) \/ \E s \in Stubs : tokenOf'[s] = t /\ ams'[s] = "connecting"
    BY DEF AskedDue, Due
  <1>2. Due(t)
    BY <1>1 DEF AskedDue
  <1>3. QED
    BY <1>1, <1>2 DEF Due

(* What the steps that leave the connection do with the tasks and what was asked. *)
LEMMA TaskSteps ==
    ASSUME TypeInv, [Next]_vars
    PROVE  \/ UNCHANGED asked /\ (UNCHANGED queue \/ \E x : queue' = Append(queue, x))
           \/ UNCHANGED asked /\ queue # << >> /\ queue' = Tail(queue) /\ Head(queue).kind # "start"
           \/ queue # << >> /\ queue' = Tail(queue) /\ asked' = asked \ {Head(queue).tok}
           \/ \E u \in Toks : Post("start", u) /\ asked' = asked \union {u}
           \/ \E th \in Threads : ConnectAbility(th) \/ AmsConnectAbility(th)
           \/ AmsConnectDone \/ AmsDisconnectDone \/ HandlerDisconnects \/ Restart
  <1>1. ASSUME NEW th \in Threads, CallSteps(th), ~ConnectAbility(th), ~AmsConnectAbility(th), ~StartPosts(th)
        PROVE  UNCHANGED asked /\ (UNCHANGED queue \/ \E x : queue' = Append(queue, x))
    BY <1>1 DEF CallSteps, RegisterCounts, RegisterAppends, CheckToken, CheckEntry, Checks,
           UnregisterErasesEntry, UnregisterErasesToken, RegisterDeviceSelectionCallback,
           UnregisterDeviceSelectionCallback, UpdateKeeps, UpdateSends, UsesNull,
           PanelCloses, PanelTells, panel, tasks, Post
  <1>2. ASSUME NEW th \in Threads, StartPosts(th)
        PROVE  \/ UNCHANGED <<asked, queue>>
               \/ \E u \in Toks : Post("start", u) /\ asked' = asked \union {u}
    <2>1. pc[th].tok \in Toks
      BY DEF TypeInv, CallsType, CallSet
    <2>2. QED
      BY <1>2, <2>1 DEF StartPosts
  <1>3. CASE HandlerForgetsNotifier \/ HandlerForgetsToken \/ HandlerForgetsConnection
    BY <1>3 DEF HandlerForgetsNotifier, HandlerForgetsToken, HandlerForgetsConnection, Takes, panel, Post
  <1>4. CASE HandlerStarts \/ HandlerUpdates \/ HandlerTells
    BY <1>4 DEF HandlerStarts, HandlerUpdates, HandlerTells, UsesNull, Takes, panel, tasks
  <1>5. CASE AppDies \/ ProcessNotifierDied \/ UNCHANGED vars \/ \E th \in Threads : Calls(th)
    BY <1>5 DEF AppDies, ProcessNotifierDied, Calls, Enters, vars, panel, tasks
  <1>6. QED
    BY <1>1, <1>2, <1>3, <1>4, <1>5 DEF Next, Handler

LEMMA NextAskedDue ==
    ASSUME TypeInv, GivesInv, StubsInv, AskedDue, [Next]_vars
    PROVE  AskedDue'
  <1>1. ASSUME NEW th \in Threads, ConnectAbility(th) PROVE AskedDue'
    <2>1. UNCHANGED <<ams, asked, queue>> /\ races \subseteq races'
      BY <1>1, ConnectsAt
    <2>2. \A s \in Stubs : tokenOf[s] # NoToken => tokenOf'[s] = tokenOf[s]
      BY <1>1, ConnectsAt
    <2>3. \A s \in Stubs : ams[s] = "connecting" => tokenOf[s] # NoToken
      BY DEF StubsInv
    <2>4. QED
      BY <2>1, <2>2, <2>3, DueKept
  <1>2. ASSUME NEW th \in Threads, AmsConnectAbility(th) PROVE AskedDue'
    <2>1. UNCHANGED <<tokenOf, queue>> /\ races \subseteq races'
      BY <1>2, BindsAt
    <2>2. CASE UNCHANGED <<ams, asked>>
      BY <2>1, <2>2, DueKept
    <2>3. CASE /\ connect \in Stubs /\ asked' = asked \union {pc[th].tok}
               /\ \A r \in Stubs : r # connect => ams'[r] = ams[r]
               /\ ams'[connect] = "connecting" \/ (ams[connect] = "connected" /\ ams'[connect] = "connected")
               /\ tokenOf[connect] # pc[th].tok \/ ams[connect] = "connected" => "reused" \in races'
      <3>1. SUFFICES ASSUME "reused" \notin races', NEW t \in asked'
                     PROVE  Queued(queue', t) \/ \E s \in Stubs : tokenOf'[s] = t /\ ams'[s] = "connecting"
        BY DEF AskedDue, Due
      <3>2. tokenOf[connect] = pc[th].tok /\ ams'[connect] = "connecting"
        BY <2>3, <3>1
      <3>3. CASE t = pc[th].tok
        BY <2>1, <2>3, <3>2, <3>3
      <3>4. CASE t \in asked
        <4>1. Due(t)
          BY <2>1, <3>1, <3>4 DEF AskedDue
        <4>2. QED
          BY <2>1, <2>3, <3>2, <4>1 DEF Due
      <3>5. QED
        BY <2>3, <3>1, <3>3, <3>4
    <2>4. QED
      BY <1>2, <2>2, <2>3, BindsAt
  <1>3. CASE AmsConnectDone
    <2>1. PICK s \in Stubs : /\ ams[s] = "connecting" /\ Post("start", tokenOf[s])
                             /\ \A r \in Stubs : ams'[r] = IF r = s THEN "connected" ELSE ams[r]
      BY <1>3, ConnectDoneAt
    <2>2. UNCHANGED <<tokenOf, races, asked>>
      BY <1>3, ConnectDoneAt
    <2>3. PICK u \in Toks : u = tokenOf[s]
      BY DEF TypeInv, TokensType
    <2>4. /\ \A t : Queued(queue, t) => Queued(queue', t)
          /\ Queued(queue', u)
      BY <2>1, <2>3, PostQueued DEF Kinds
    <2>5. SUFFICES ASSUME "reused" \notin races', NEW t \in asked'
                   PROVE  Queued(queue', t) \/ \E r \in Stubs : tokenOf'[r] = t /\ ams'[r] = "connecting"
      BY DEF AskedDue, Due
    <2>6. Due(t)
      BY <2>2, <2>5 DEF AskedDue
    <2>7. QED
      BY <2>1, <2>2, <2>3, <2>4, <2>6 DEF Due
  <1>4. CASE AmsDisconnectDone
    <2>1. PICK s \in Stubs : /\ asked' = asked \ {tokenOf[s]}
                             /\ \A r \in Stubs : ams'[r] = IF r = s THEN "none" ELSE ams[r]
      BY <1>4, DisconnectDoneAt
    <2>2. UNCHANGED tokenOf /\ races \subseteq races' /\ \A t : Queued(queue, t) => Queued(queue', t)
      BY <1>4, DisconnectDoneAt, CutQueued
    <2>3. SUFFICES ASSUME "reused" \notin races', NEW t \in asked'
                   PROVE  Queued(queue', t) \/ \E r \in Stubs : tokenOf'[r] = t /\ ams'[r] = "connecting"
      BY DEF AskedDue, Due
    <2>4. Due(t) /\ t # tokenOf[s]
      BY <2>1, <2>2, <2>3 DEF AskedDue
    <2>5. QED
      BY <2>1, <2>2, <2>4 DEF Due
  <1>5. CASE HandlerDisconnects
    BY <1>5, DisconnectsAt DEF AskedDue
  <1>6. CASE Restart
    BY <1>6 DEF Restart, AskedDue
  <1>7. CASE /\ PanelSame \/ HandlerForgetsConnection
             /\ ~Restart /\ ~HandlerDisconnects /\ ~AmsConnectDone /\ ~AmsDisconnectDone
             /\ ~\E th \in Threads : ConnectAbility(th) \/ AmsConnectAbility(th)
    <2>1. UNCHANGED <<tokenOf, ams>> /\ races \subseteq races'
      BY <1>7, RacesStay DEF PanelSame, HandlerForgetsConnection
    <2>2. CASE UNCHANGED asked /\ (UNCHANGED queue \/ \E x : queue' = Append(queue, x))
      <3>1. \A t : Queued(queue, t) => Queued(queue', t)
        BY <2>2, AppendQueued
      <3>2. QED
        BY <2>1, <2>2, <3>1, DueKept
    <2>3. CASE UNCHANGED asked /\ queue # << >> /\ queue' = Tail(queue) /\ Head(queue).kind # "start"
      <3>1. \A t : Queued(queue, t) => Queued(queue', t)
        BY <2>3, TailQueued DEF StartTask
      <3>2. QED
        BY <2>1, <2>3, <3>1, DueKept
    <2>4. CASE queue # << >> /\ queue' = Tail(queue) /\ asked' = asked \ {Head(queue).tok}
      <3>1. \A t \in asked' : Queued(queue, t) => Queued(queue', t)
        BY <2>4, TailQueued DEF StartTask
      <3>2. QED
        BY <2>1, <2>4, <3>1, DueKept
    <2>5. ASSUME NEW u \in Toks, Post("start", u), asked' = asked \union {u} PROVE AskedDue'
      <3>1. (\A t : Queued(queue, t) => Queued(queue', t)) /\ Queued(queue', u)
        BY <2>5, PostQueued DEF Kinds
      <3>2. QED
        BY <2>1, <2>5, <3>1 DEF AskedDue, Due
    <2>6. QED
      BY <1>7, <2>2, <2>3, <2>4, <2>5, TaskSteps
  <1>8. QED
    BY <1>1, <1>2, <1>3, <1>4, <1>5, <1>6, <1>7, PanelSteps

LEMMA InitPanel == Init => PanelInv
  <1>1. SUFFICES ASSUME Init PROVE PanelInv
    OBVIOUS
  <1>2. /\ appProxy = FALSE /\ connect = NoStub /\ asked = {} /\ running = Nothing
        /\ ams = [s \in Stubs |-> "none"] /\ pc = [th \in Threads |-> Idle]
    BY <1>1 DEF Init
  <1>3. GivesInv
    BY <1>2 DEF GivesInv, Gives, Idle, AppOps, CbOps
  <1>4. GivenInv
    <2>1. given = [a \in Apps |-> IF a \in Prepared THEN {Nth[a]} ELSE {}]
      BY <1>1 DEF Init, Prepared, Nth, Upto
    <2>2. \A a \in Prepared : Nth[a] # NoToken
      <3>1. Cardinality(Prepared) \in Nat
        BY PreparedFinite, BoundsAssumption
      <3>2. QED
        BY <3>1, NthType DEF NoToken
    <2>3. QED
      BY <2>1, <2>2 DEF GivenInv
  <1>5. StubsInv
    BY <1>2 DEF StubsInv
  <1>6. Nothing.kind = "none"
    BY DEF Nothing, Task
  <1>7. OneBound /\ ProxyKnown /\ AskedDue
    BY <1>2, <1>6 DEF OneBound, Bound, ProxyKnown, AskedDue
  <1>8. QED
    BY <1>3, <1>4, <1>5, <1>7 DEF PanelInv

LEMMA PanelInvAgrees == PanelInv => PanelAgrees
  <1>1. SUFFICES ASSUME PanelInv, AtRest PROVE PanelAgrees
    BY DEF PanelAgrees
  <1>2. queue = << >> /\ \A s \in Stubs : ams[s] \in {"none", "connected"}
    BY <1>1 DEF AtRest
  <1>3. \A t : ~Due(t)
    <2>1. Len(queue) = 0
      BY <1>2
    <2>2. \A t : ~Queued(queue, t)
      BY <2>1 DEF Queued
    <2>3. QED
      BY <1>2, <2>2 DEF Due
  <1>4. QED
    BY <1>1, <1>2, <1>3 DEF PanelInv, OneBound, Bound, ProxyKnown, AskedDue, PanelAgrees

(* At rest the service, the AMS and the panel agree: a connection that is kept is the one  *)
(* that would be closed, the proxy is there exactly if one is made, and the panel was         *)
(* shown for every token it was asked for; but for the races PanelAgrees names.                 *)
THEOREM PanelCorrect == Spec => []PanelAgrees
  <1>1. Init => TypeInv /\ PanelInv
    BY InitType, InitPanel
  <1>2. TypeInv /\ PanelInv /\ [Next]_vars => TypeInv' /\ PanelInv'
    BY NextType, NextGives, NextGiven, NextStubs, NextOneBound, NextProxy, NextAskedDue DEF PanelInv
  <1>3. QED
    BY <1>1, <1>2, PanelInvAgrees, PTL DEF Spec

-----------------------------------------------------------------------------
(* What an application that died leaves.  The place of the n-th of the kept, and the list  *)
(* of tokens without one.                                                                   *)
LEMMA PlaceIn ==
    ASSUME NEW S, IsFiniteSet(S), S \subseteq Nat, NEW n \in 1 .. Cardinality(S)
    PROVE  PlaceOf(S, n) \in S
  <1> DEFINE R == [i \in S |-> Cardinality({j \in S : j <= i})]
             m == Cardinality(S)
  <1>1. m \in Nat
    BY FS_CardinalityType
  <1>2. R \in [S -> 1 .. m]
    <2>1. SUFFICES ASSUME NEW i \in S PROVE Cardinality({j \in S : j <= i}) \in 1 .. m
      OBVIOUS
    <2>2. {j \in S : j <= i} \in SUBSET S /\ i \in {j \in S : j <= i}
      OBVIOUS
    <2>3. /\ IsFiniteSet({j \in S : j <= i}) /\ Cardinality({j \in S : j <= i}) \in Nat
          /\ Cardinality({j \in S : j <= i}) <= m
      BY <2>2, FS_Subset, FS_CardinalityType
    <2>4. Cardinality({j \in S : j <= i}) # 0
      BY <2>2, <2>3, FS_EmptySet
    <2>5. QED
      BY <1>1, <2>3, <2>4
  <1>3. \A i, k \in S : i < k => R[i] # R[k]
    <2>1. SUFFICES ASSUME NEW i \in S, NEW k \in S, i < k
                   PROVE  Cardinality({j \in S : j <= i}) # Cardinality({j \in S : j <= k})
      OBVIOUS
    <2>2. {j \in S : j <= i} \in SUBSET {j \in S : j <= k}
      <3>1. \A j \in S : j <= i => j <= k
        BY <2>1
      <3>2. QED
        BY <3>1
    <2>3. k \in {j \in S : j <= k} /\ k \notin {j \in S : j <= i}
      BY <2>1
    <2>4. IsFiniteSet({j \in S : j <= k})
      BY FS_Subset
    <2>5. QED
      BY <2>2, <2>3, <2>4, FS_Subset
  <1>4. \A i, k \in S : R[i] = R[k] => i = k
    <2>1. \A i, k \in S : i < k \/ k < i \/ i = k
      OBVIOUS
    <2>2. QED
      BY <1>3, <2>1
  <1>5. R \in Injection(S, 1 .. m)
    BY <1>2, <1>4 DEF Injection, IsInjective
  <1>6. IsFiniteSet(1 .. m) /\ Cardinality(1 .. m) = m
    BY <1>1, FS_Interval
  <1>7. R \in Surjection(S, 1 .. m)
    BY <1>5, <1>6, FS_Injection
  <1>8. \E i \in S : R[i] = n
    BY <1>7 DEF Surjection
  <1>9. QED
    BY <1>8 DEF PlaceOf

MapType == tokenMap \in [Apps -> Seq(Tokens)]
Holds(a, t) == t \in ToSet(tokenMap[a])

LEMMA WithoutIs ==
    ASSUME MapType, NEW a \in Apps, NEW t
    PROVE  /\ Without(a, t) \in Seq(Tokens)
           /\ ToSet(Without(a, t)) \subseteq ToSet(tokenMap[a]) /\ t \notin ToSet(Without(a, t))
           /\ tokenMap[a] # << >> /\ Without(a, t) = << >> => Holds(a, t)
  <1>1. PICK s \in Seq(Tokens) : s = tokenMap[a]
    BY DEF MapType
  <1>2. PICK l \in Nat : l = Len(s) /\ DOMAIN s = 1 .. l /\ \A i \in 1 .. l : s[i] \in Tokens
    BY LenProperties
  <1>3. PICK S : S = Kept(s, t)
    OBVIOUS
  <1>4. /\ S \subseteq 1 .. l /\ \A i \in S : s[i] # t
        /\ \A i \in 1 .. l : s[i] # t => i \in S
    BY <1>2, <1>3 DEF Kept
  <1>5. IsFiniteSet(S) /\ S \subseteq Nat
    <2>1. 1 \in Int /\ l \in Int /\ S \in SUBSET (1 .. l)
      BY <1>4
    <2>2. IsFiniteSet(1 .. l)
      BY <2>1, FS_Interval
    <2>3. IsFiniteSet(S)
      BY <2>1, <2>2, FS_Subset
    <2>4. QED
      BY <1>4, <2>3
  <1>6. PICK m \in Nat : m = Cardinality(S)
    BY <1>5, FS_CardinalityType
  <1>7. \A n \in 1 .. m : PlaceOf(S, n) \in S
    BY <1>5, <1>6, PlaceIn
  <1>8. PICK w : w = [n \in 1 .. m |-> s[PlaceOf(S, n)]]
    OBVIOUS
  <1>9. Without(a, t) = w
    BY <1>1, <1>3, <1>6, <1>8 DEF Without
  <1>10. w \in [1 .. m -> Tokens] /\ \A n \in 1 .. m : w[n] = s[PlaceOf(S, n)]
    BY <1>2, <1>4, <1>7, <1>8
  <1>11. w \in Seq(Tokens) /\ DOMAIN w = 1 .. m
    BY <1>10
  <1>12. ToSet(w) \subseteq ToSet(s) /\ t \notin ToSet(w)
    BY <1>2, <1>4, <1>7, <1>10, <1>11 DEF ToSet
  <1>13. ASSUME s # << >>, w = << >>, t \notin ToSet(s) PROVE FALSE
    <2>1. l # 0
      BY <1>2, <1>13, EmptySeq
    <2>2. 1 \in S
      BY <1>2, <1>4, <1>13, <2>1 DEF ToSet
    <2>3. m # 0
      BY <1>5, <1>6, <2>2, FS_EmptySet
    <2>4. 1 \in DOMAIN w
      BY <1>6, <1>11, <2>3
    <2>5. QED
      BY <1>13, <2>4
  <1>14. QED
    BY <1>1, <1>9, <1>11, <1>12, <1>13 DEF Holds

(* No two have one token: then the loop takes a token from all. *)
LEMMA ErasesAll ==
    ASSUME MapType, NEW t, EraseToken(t), \A a, b \in Apps : Holds(a, t) /\ Holds(b, t) => a = b
    PROVE  /\ MapType'
           /\ \A a \in Apps : ToSet(tokenMap'[a]) \subseteq ToSet(tokenMap[a]) /\ t \notin ToSet(tokenMap'[a])
  <1>1. tokenMap' = [a \in Apps |-> IF \A b \in Emptied(t) : a <= b THEN Without(a, t) ELSE tokenMap[a]]
    BY DEF EraseToken
  <1>2. \A a \in Apps : tokenMap[a] \in Seq(Tokens)
    BY DEF MapType
  <1>3. MapType'
    BY <1>1, <1>2, WithoutIs DEF MapType
  <1>4. ASSUME NEW a \in Apps
        PROVE  ToSet(tokenMap'[a]) \subseteq ToSet(tokenMap[a]) /\ t \notin ToSet(tokenMap'[a])
    <2>1. tokenMap'[a] = Without(a, t) \/ tokenMap'[a] = tokenMap[a]
      BY <1>1
    <2>2. CASE ~Holds(a, t)
      BY <2>1, <2>2, WithoutIs DEF Holds
    <2>3. CASE Holds(a, t)
      <3>1. \A b \in Emptied(t) : b \in Apps /\ Holds(b, t)
        BY WithoutIs DEF Emptied
      <3>2. \A b \in Emptied(t) : a = b /\ a \in Nat
        BY <2>3, <3>1, AppsAssumption
      <3>3. \A b \in Emptied(t) : a <= b
        BY <3>2
      <3>4. tokenMap'[a] = Without(a, t)
        BY <1>1, <3>3
      <3>5. QED
        BY <3>4, WithoutIs
    <2>4. QED
      BY <2>2, <2>3
  <1>5. QED
    BY <1>3, <1>4

(* Without the premise the list is still one of tokens. *)
LEMMA ErasesType ==
    ASSUME MapType, NEW t, EraseToken(t)
    PROVE  MapType'
  <1>1. tokenMap' = [a \in Apps |-> IF \A b \in Emptied(t) : a <= b THEN Without(a, t) ELSE tokenMap[a]]
    BY DEF EraseToken
  <1>2. \A a \in Apps : tokenMap[a] \in Seq(Tokens)
    BY DEF MapType
  <1>3. QED
    BY <1>1, <1>2, WithoutIs DEF MapType

LEMMA AppendsAt ==
    ASSUME TypeInv, MapType, NEW th \in Threads, RegisterAppends(th)
    PROVE  /\ MapType' /\ NextToken \in Tokens /\ pc[th].app \in Apps /\ noticed' = noticed \ {NextToken}
           /\ \A a \in Apps : ToSet(tokenMap'[a]) \subseteq
                 ToSet(tokenMap[a]) \union (IF a = pc[th].app THEN {NextToken} ELSE {})
           /\ InUse(NextToken) => "reissued" \in races'
  <1>1. PICK b \in Apps : b = pc[th].app
    BY DEF RegisterAppends, TypeInv, CallsType
  <1>2. NextToken \in Tokens
    <2>1. Cardinality(Apps) # 0 /\ Cardinality(Apps) \in Nat
      BY <1>1, AppsAssumption, FS_EmptySet, FS_CardinalityType
    <2>2. MAX_TOKEN_NUM >= 1 /\ token \in Nat
      BY <2>1, BoundsAssumption DEF TypeInv, TokensType, Toks
    <2>3. QED
      BY <2>2, BoundsAssumption DEF NextToken, Tokens
  <1>3. PICK s \in Seq(Tokens) : s = tokenMap[b]
    BY DEF MapType
  <1>4. tokenMap' = [tokenMap EXCEPT ![b] = Append(s, NextToken)]
    BY <1>1, <1>3 DEF RegisterAppends
  <1>5. PICK r \in Seq(Tokens) : r = Append(s, NextToken)
    <2>1. PICK x \in Tokens : x = NextToken
      BY <1>2
    <2>2. Append(s, x) \in Seq(Tokens)
      BY AppendProperties
    <2>3. QED
      BY <2>1, <2>2
  <1>6. ToSet(r) \subseteq ToSet(s) \union {NextToken}
    <2>1. PICK n \in Nat : n = Len(s) /\ DOMAIN s = 1 .. n
      BY LenProperties
    <2>2. DOMAIN r = 1 .. n + 1 /\ r[n + 1] = NextToken /\ \A i \in 1 .. n : r[i] = s[i]
      BY <1>2, <1>5, <2>1, AppendProperties, LenProperties
    <2>3. \A i \in 1 .. n + 1 : i \in 1 .. n \/ i = n + 1
      BY <2>1
    <2>4. QED
      BY <2>1, <2>2, <2>3 DEF ToSet
  <1>7. MapType'
    BY <1>4, <1>5 DEF MapType
  <1>8. \A a \in Apps : tokenMap'[a] = IF a = b THEN r ELSE tokenMap[a]
    BY <1>4, <1>5 DEF MapType
  <1>9. (InUse(NextToken) => "reissued" \in races') /\ noticed' = noticed \ {NextToken}
    BY DEF RegisterAppends
  <1>10. QED
    BY <1>1, <1>2, <1>3, <1>6, <1>7, <1>8, <1>9

(* The steps that touch the tokens, and the lists stay lists of tokens. *)
LEMMA MapSteps ==
    ASSUME [Next]_vars
    PROVE  \/ UNCHANGED tokenMap
           \/ \E th \in Threads : RegisterAppends(th) \/ UnregisterErasesToken(th)
           \/ HandlerForgetsToken \/ Restart
  <1>1. ASSUME NEW th \in Threads, CallSteps(th), ~RegisterAppends(th), ~UnregisterErasesToken(th)
        PROVE  UNCHANGED tokenMap
    BY <1>1 DEF CallSteps, RegisterCounts, CheckToken, CheckEntry, Checks,
           UnregisterErasesEntry, RegisterDeviceSelectionCallback,
           UnregisterDeviceSelectionCallback, UpdateKeeps, UpdateSends, UsesNull, StartPosts,
           ConnectAbility, AmsConnectAbility, PanelCloses, PanelTells, tokens
  <1>2. CASE Handler /\ ~HandlerForgetsToken
    BY <1>2 DEF Handler, HandlerStarts, HandlerUpdates, HandlerTells, HandlerDisconnects,
              HandlerForgetsConnection, HandlerForgetsNotifier, UsesNull, tokens
  <1>3. CASE AmsConnectDone \/ AmsDisconnectDone \/ AppDies \/ ProcessNotifierDied
             \/ UNCHANGED vars \/ \E th \in Threads : Calls(th)
    BY <1>3 DEF AmsConnectDone, AmsDisconnectDone, AppDies, ProcessNotifierDied, Calls, Enters, vars, tokens
  <1>4. QED
    BY <1>1, <1>2, <1>3 DEF Next

LEMMA NextMap == TypeInv /\ MapType /\ [Next]_vars => MapType'
  <1>1. SUFFICES ASSUME TypeInv, MapType, [Next]_vars PROVE MapType'
    OBVIOUS
  <1>2. ASSUME NEW th \in Threads, UnregisterErasesToken(th) PROVE MapType'
    <2>1. PICK t : t = pc[th].tok
      OBVIOUS
    <2>2. EraseToken(t)
      BY <1>2, <2>1 DEF UnregisterErasesToken
    <2>3. QED
      BY <1>1, <2>2, ErasesType
  <1>3. CASE HandlerForgetsToken
    <2>1. PICK t : t = running.tok
      OBVIOUS
    <2>2. EraseToken(t)
      BY <1>3, <2>1 DEF HandlerForgetsToken, EraseToken, Emptied, Without
    <2>3. QED
      BY <1>1, <2>2, ErasesType
  <1>4. CASE Restart
    BY <1>4 DEF Restart, MapType
  <1>5. CASE UNCHANGED tokenMap
    BY <1>1, <1>5 DEF MapType
  <1>6. QED
    BY <1>1, <1>2, <1>3, <1>4, <1>5, MapSteps, AppendsAt

-----------------------------------------------------------------------------
(* The notifier of one type in an entry, and the steps of the entries by points. *)
NoteIn(m, t, cb) == IF t \in DOMAIN m THEN m[t][cb] ELSE NoApp

NotesAt(t, b, a) ==
    /\ NoteIn(callbackMap', t, b) = a
    /\ \A u : \A cb \in CbTypes : u # t \/ cb # b => NoteIn(callbackMap', u, cb) = NoteIn(callbackMap, u, cb)

LEMMA ErasesAt ==
    ASSUME NEW t, EraseEntry(t)
    PROVE  /\ DOMAIN callbackMap' = DOMAIN callbackMap \ {t}
           /\ \A cb : NoteIn(callbackMap', t, cb) = NoApp
           /\ \A u, cb : u # t => NoteIn(callbackMap', u, cb) = NoteIn(callbackMap, u, cb)
           /\ watched' \subseteq watched
           /\ \A n \in watched : n[1] # t => n \in watched'
           /\ \A cb \in CbTypes, a \in Apps : <<t, cb, a>> \in watched' => NoteIn(callbackMap, t, cb) # a
  <1>1. callbackMap' = [u \in DOMAIN callbackMap \ {t} |-> callbackMap[u]] /\ watched' = watched \ NotifiersOf(t)
    BY DEF EraseEntry
  <1>2. /\ DOMAIN callbackMap' = DOMAIN callbackMap \ {t}
        /\ \A cb : NoteIn(callbackMap', t, cb) = NoApp
        /\ \A u, cb : u # t => NoteIn(callbackMap', u, cb) = NoteIn(callbackMap, u, cb)
    BY <1>1 DEF NoteIn
  <1>3. \A n \in NotifiersOf(t) : n[1] = t
    BY DEF NotifiersOf
  <1>4. ASSUME NEW cb \in CbTypes, NEW a \in Apps, NoteIn(callbackMap, t, cb) = a
        PROVE  <<t, cb, a>> \in NotifiersOf(t)
    <2>1. HasEntry(t) /\ callbackMap[t][cb] = a
      BY <1>4, Zeros DEF NoteIn, HasEntry
    <2>2. QED
      BY <2>1 DEF NotifiersOf
  <1>5. QED
    BY <1>1, <1>2, <1>3, <1>4

LEMMA SetAt ==
    ASSUME NEW t, NEW b, NEW e, SetEntry(t, e),
           \A cb \in CbTypes : cb # b => e[cb] = NoteIn(callbackMap, t, cb)
    PROVE  DOMAIN callbackMap' = DOMAIN callbackMap \union {t} /\ NotesAt(t, b, e[b])
  <1>1. /\ DOMAIN callbackMap' = DOMAIN callbackMap \union {t}
        /\ callbackMap'[t] = e
        /\ \A u \in DOMAIN callbackMap : u # t => callbackMap'[u] = callbackMap[u]
    BY DEF SetEntry
  <1>2. NoteIn(callbackMap', t, b) = e[b]
    BY <1>1 DEF NoteIn
  <1>3. ASSUME NEW u, NEW cb \in CbTypes, u # t \/ cb # b
        PROVE  NoteIn(callbackMap', u, cb) = NoteIn(callbackMap, u, cb)
    <2>1. CASE u = t
      <3>1. NoteIn(callbackMap', u, cb) = e[cb]
        BY <1>1, <2>1 DEF NoteIn
      <3>2. QED
        BY <1>3, <2>1, <3>1
    <2>2. CASE u # t
      BY <1>1, <2>2 DEF NoteIn
    <2>3. QED
      BY <2>1, <2>2
  <1>4. QED
    BY <1>1, <1>2, <1>3 DEF NotesAt

RegisterSets(th, t, b, a) ==
    /\ pc[th].at = "use" /\ pc[th].op \in CbOps /\ a \in Apps /\ b \in CbTypes /\ t \in Toks
    /\ DOMAIN callbackMap' = DOMAIN callbackMap \union {t}
    /\ NotesAt(t, b, a)
    /\ watched \subseteq watched'
    /\ \A n \in watched' : n \in watched \/ (n = <<t, b, a>> /\ a \in alive)
    /\ t \notin DOMAIN callbackMap /\ a \in alive => <<t, b, a>> \in watched'
    /\ a \notin alive => "died in call" \in races'

LEMMA RegistersAt ==
    ASSUME TypeInv, NEW th \in Threads, RegisterDeviceSelectionCallback(th),
           NEW t, NEW b, NEW a
    PROVE  t = pc[th].tok /\ b = pc[th].cb /\ a = pc[th].app => RegisterSets(th, t, b, a)
  <1>0. SUFFICES ASSUME t = pc[th].tok /\ b = pc[th].cb /\ a = pc[th].app
                 PROVE  RegisterSets(th, t, b, a)
    OBVIOUS
  <1>1. /\ pc[th].at = "use" /\ pc[th].op \in CbOps
        /\ a \notin alive => "died in call" \in races'
    BY <1>0 DEF RegisterDeviceSelectionCallback, CbOps
  <1>2. a \in Apps /\ b \in CbTypes /\ t \in Toks
    BY <1>0, <1>1 DEF TypeInv, CallsType, CallSet
  <1>3. CASE HasEntry(t)
    <2>1. PICK e : e = [callbackMap[t] EXCEPT ![b] = a]
      OBVIOUS
    <2>2. SetEntry(t, e) /\ watched' = watched
      BY <1>0, <1>3, <2>1 DEF RegisterDeviceSelectionCallback
    <2>3. callbackMap[t] \in Entries /\ t \in DOMAIN callbackMap
      BY <1>3 DEF HasEntry, TypeInv, EntriesType
    <2>4. \A cb \in CbTypes : e[cb] = IF cb = b THEN a ELSE callbackMap[t][cb]
      BY <1>2, <2>1, <2>3 DEF Entries
    <2>5. DOMAIN callbackMap' = DOMAIN callbackMap \union {t} /\ NotesAt(t, b, a)
      <3>1. e[b] = a /\ \A cb \in CbTypes : cb # b => e[cb] = NoteIn(callbackMap, t, cb)
        BY <1>2, <2>3, <2>4 DEF NoteIn
      <3>2. DOMAIN callbackMap' = DOMAIN callbackMap \union {t} /\ NotesAt(t, b, e[b])
        BY <2>2, <3>1, SetAt
      <3>3. QED
        BY <3>1, <3>2
    <2>6. QED
      BY <1>1, <1>2, <2>2, <2>3, <2>5 DEF RegisterSets
  <1>4. CASE ~HasEntry(t)
    <2>1. PICK e : e = [NoNotifiers EXCEPT ![b] = a]
      OBVIOUS
    <2>2. /\ SetEntry(t, e)
          /\ watched' = watched \union (IF a \in alive THEN {<<t, b, a>>} ELSE {})
      BY <1>0, <1>4, <2>1 DEF RegisterDeviceSelectionCallback
    <2>3. \A cb \in CbTypes : e[cb] = IF cb = b THEN a ELSE NoApp
      BY <1>2, <2>1 DEF NoNotifiers
    <2>4. DOMAIN callbackMap' = DOMAIN callbackMap \union {t} /\ NotesAt(t, b, a)
      <3>1. e[b] = a /\ \A cb \in CbTypes : cb # b => e[cb] = NoteIn(callbackMap, t, cb)
        BY <1>2, <1>4, <2>3 DEF NoteIn, HasEntry
      <3>2. DOMAIN callbackMap' = DOMAIN callbackMap \union {t} /\ NotesAt(t, b, e[b])
        BY <2>2, <3>1, SetAt
      <3>3. QED
        BY <3>1, <3>2
    <2>5. QED
      BY <1>1, <1>2, <2>2, <2>4 DEF RegisterSets
  <1>5. QED
    BY <1>3, <1>4

UnregisterSets(th, t, b, a) ==
    /\ pc[th].at = "use" /\ pc[th].op \in CbOps /\ a \in Apps /\ b \in CbTypes
    /\ a \notin alive => "died in call" \in races'
    /\ \/ UNCHANGED callbacks
       \/ EraseEntry(t)
       \/ /\ DOMAIN callbackMap' = DOMAIN callbackMap
          /\ NotesAt(t, b, NoApp)
          /\ watched' = watched \ {<<t, b, NoteIn(callbackMap, t, b)>>}
          /\ watched' # watched => "unwatched" \in races'

LEMMA UnregistersAt ==
    ASSUME TypeInv, NEW th \in Threads, UnregisterDeviceSelectionCallback(th),
           NEW t, NEW b, NEW a
    PROVE  t = pc[th].tok /\ b = pc[th].cb /\ a = pc[th].app => UnregisterSets(th, t, b, a)
  <1>0. SUFFICES ASSUME t = pc[th].tok /\ b = pc[th].cb /\ a = pc[th].app
                 PROVE  UnregisterSets(th, t, b, a)
    OBVIOUS
  <1>1. /\ pc[th].at = "use" /\ pc[th].op \in CbOps
        /\ a \notin alive => "died in call" \in races'
    BY <1>0 DEF UnregisterDeviceSelectionCallback, CbOps
  <1>2. a \in Apps /\ b \in CbTypes
    BY <1>0, <1>1 DEF TypeInv, CallsType, CallSet
  <1>3. PICK e : e = [callbackMap[t] EXCEPT ![b] = NoApp]
    OBVIOUS
  <1>4. \/ UNCHANGED callbacks
        \/ EraseEntry(t)
        \/ HasEntry(t) /\ SetEntry(t, e) /\ watched' = watched \ {<<t, b, callbackMap[t][b]>>}
    BY <1>0, <1>3 DEF UnregisterDeviceSelectionCallback
  <1>5. CASE HasEntry(t) /\ SetEntry(t, e) /\ watched' = watched \ {<<t, b, callbackMap[t][b]>>}
    <2>2. callbackMap[t] \in Entries /\ t \in DOMAIN callbackMap
      BY <1>5 DEF HasEntry, TypeInv, EntriesType
    <2>3. \A cb \in CbTypes : e[cb] = IF cb = b THEN NoApp ELSE callbackMap[t][cb]
      BY <1>2, <1>3, <2>2 DEF Entries
    <2>4. DOMAIN callbackMap' = DOMAIN callbackMap \union {t} /\ NotesAt(t, b, NoApp)
      <3>1. e[b] = NoApp /\ \A cb \in CbTypes : cb # b => e[cb] = NoteIn(callbackMap, t, cb)
        BY <1>2, <2>2, <2>3 DEF NoteIn
      <3>2. DOMAIN callbackMap' = DOMAIN callbackMap \union {t} /\ NotesAt(t, b, e[b])
        BY <1>5, <3>1, SetAt
      <3>3. QED
        BY <3>1, <3>2
    <2>5. DOMAIN callbackMap' = DOMAIN callbackMap /\ NoteIn(callbackMap, t, b) = callbackMap[t][b]
      BY <2>2, <2>4 DEF NoteIn
    <2>6. watched' # watched => "unwatched" \in races'
      BY <1>0, <2>2, <2>5 DEF UnregisterDeviceSelectionCallback
    <2>7. QED
      BY <1>1, <1>2, <1>5, <2>4, <2>5, <2>6 DEF UnregisterSets
  <1>6. QED
    BY <1>1, <1>2, <1>4, <1>5 DEF UnregisterSets

LEMMA EntrySteps ==
    ASSUME [Next]_vars
    PROVE  \/ UNCHANGED callbacks
           \/ \E th \in Threads : \/ RegisterDeviceSelectionCallback(th) \/ UnregisterDeviceSelectionCallback(th)
                                  \/ UnregisterErasesEntry(th)
           \/ HandlerForgetsNotifier \/ Restart
  <1>1. ASSUME NEW th \in Threads, CallSteps(th), ~RegisterDeviceSelectionCallback(th),
               ~UnregisterDeviceSelectionCallback(th), ~UnregisterErasesEntry(th)
        PROVE  UNCHANGED callbacks
    BY <1>1 DEF CallSteps, RegisterCounts, RegisterAppends, CheckToken, CheckEntry, Checks,
           UnregisterErasesToken, UpdateKeeps, UpdateSends, UsesNull, StartPosts,
           ConnectAbility, AmsConnectAbility, PanelCloses, PanelTells
  <1>2. CASE Handler /\ ~HandlerForgetsNotifier
    BY <1>2 DEF Handler, HandlerStarts, HandlerUpdates, HandlerTells, HandlerDisconnects,
              HandlerForgetsConnection, HandlerForgetsToken, UsesNull
  <1>3. CASE AmsConnectDone \/ AmsDisconnectDone \/ AppDies \/ ProcessNotifierDied
             \/ UNCHANGED vars \/ \E th \in Threads : Calls(th)
    BY <1>3 DEF AmsConnectDone, AmsDisconnectDone, AppDies, ProcessNotifierDied, Calls, Enters, vars, callbacks
  <1>4. QED
    BY <1>1, <1>2, <1>3 DEF Next

(* An application dies in one step, and the IPC takes note of what is watched. *)
LEMMA AliveSteps ==
    ASSUME [Next]_vars
    PROVE  \/ UNCHANGED <<alive, deaths>>
           \/ AppDies
           \/ UNCHANGED alive /\ (ProcessNotifierDied \/ Restart)
  <1>1. ASSUME NEW th \in Threads, CallSteps(th) PROVE UNCHANGED <<alive, deaths>>
    BY <1>1 DEF CallSteps, RegisterCounts, RegisterAppends, CheckToken, CheckEntry, Checks,
           UnregisterErasesEntry, UnregisterErasesToken, RegisterDeviceSelectionCallback,
           UnregisterDeviceSelectionCallback, UpdateKeeps, UpdateSends, UsesNull, StartPosts,
           ConnectAbility, AmsConnectAbility, PanelCloses, PanelTells, apps
  <1>2. CASE Handler \/ AmsConnectDone \/ AmsDisconnectDone \/ UNCHANGED vars \/ \E th \in Threads : Calls(th)
    BY <1>2 DEF Handler, HandlerStarts, HandlerUpdates, HandlerTells, HandlerDisconnects,
              HandlerForgetsConnection, HandlerForgetsNotifier, HandlerForgetsToken, UsesNull,
              AmsConnectDone, AmsDisconnectDone, Calls, Enters, vars, apps
  <1>3. CASE ProcessNotifierDied \/ Restart
    BY <1>3 DEF ProcessNotifierDied, Restart
  <1>4. QED
    BY <1>1, <1>2, <1>3 DEF Next

-----------------------------------------------------------------------------
(* A thread whose call takes no step keeps it; one that does goes on with it or is done. *)
SameCall(x) ==
    /\ pc'[x].op = pc[x].op /\ pc'[x].app = pc[x].app /\ pc'[x].tok = pc[x].tok
    /\ pc'[x].cb = pc[x].cb /\ pc'[x].at = pc[x].at

LEMMA OthersStay ==
    ASSUME TypeInv, [Next]_vars, ~Restart, NEW x \in Threads
    PROVE  SameCall(x) \/ CallSteps(x) \/ Calls(x)
  <1>1. \A y \in Threads : pc[y] \in CallSet
    BY DEF TypeInv, CallsType
  <1>2. CASE UNCHANGED pc
    BY <1>2 DEF SameCall
  <1>3. ASSUME NEW th, NEW n, NEW t, Cuts(th, n, t), x # th PROVE SameCall(x)
    <2>1. pc'[x] = Cut(pc[x], t)
      BY <1>3 DEF Cuts
    <2>2. QED
      BY <1>1, <2>1, CutCall DEF SameCall
  <1>4. ASSUME NEW th \in Threads, CallSteps(th), x # th PROVE SameCall(x)
    <2>1. \/ UNCHANGED pc
          \/ \E d : pc' = [pc EXCEPT ![th] = d]
          \/ \E n, t : Cuts(th, n, t)
      BY <1>4 DEF CallSteps, RegisterCounts, RegisterAppends, CheckToken, CheckEntry, Checks,
           UnregisterErasesEntry, UnregisterErasesToken, RegisterDeviceSelectionCallback,
           UnregisterDeviceSelectionCallback, UpdateKeeps, UpdateSends, UsesNull, StartPosts,
           ConnectAbility, AmsConnectAbility, PanelCloses, PanelTells, Moves, Returns
    <2>2. ASSUME NEW d, pc' = [pc EXCEPT ![th] = d] PROVE SameCall(x)
      <3>1. pc'[x] = pc[x]
        BY <1>4, <2>2 DEF TypeInv, CallsType
      <3>2. QED
        BY <3>1 DEF SameCall
    <2>3. CASE \E n, t : Cuts(th, n, t)
      <3>1. PICK n, t : Cuts(th, n, t)
        BY <2>3
      <3>2. QED
        BY <1>3, <1>4, <3>1
    <2>4. CASE \E d : pc' = [pc EXCEPT ![th] = d]
      BY <2>2, <2>4
    <2>5. CASE UNCHANGED pc
      BY <2>5 DEF SameCall
    <2>6. QED
      BY <2>1, <2>3, <2>4, <2>5
  <1>5. ASSUME NEW th \in Threads, Calls(th), x # th PROVE SameCall(x)
    <2>1. PICK d : pc' = [pc EXCEPT ![th] = d]
      BY <1>5 DEF Calls, Enters
    <2>2. QED
      BY <1>5, <2>1 DEF SameCall, TypeInv, CallsType
  <1>6. CASE Handler
    <2>1. UNCHANGED pc \/ \E n, t : Cuts(NoThread, n, t)
      BY <1>6 DEF Handler, HandlerStarts, HandlerUpdates, HandlerTells, HandlerDisconnects,
              HandlerForgetsConnection, HandlerForgetsNotifier, HandlerForgetsToken, UsesNull
    <2>2. ASSUME NEW t, NEW n, Cuts(NoThread, n, t) PROVE SameCall(x) \/ x = NoThread
      BY <1>3, <2>2
    <2>3. QED
      BY <1>2, <2>1, <2>2, ThreadsAssumption
  <1>7. CASE AmsConnectDone \/ AmsDisconnectDone \/ AppDies \/ ProcessNotifierDied \/ UNCHANGED vars
    BY <1>2, <1>7 DEF AmsConnectDone, AmsDisconnectDone, AppDies, ProcessNotifierDied, vars
  <1>8. QED
    BY <1>4, <1>5, <1>6, <1>7 DEF Next

LEMMA CallGoesOn ==
    ASSUME TypeInv, NEW x \in Threads, CallSteps(x)
    PROVE  /\ \/ pc'[x] = Idle
              \/ /\ pc'[x].op = pc[x].op /\ pc'[x].app = pc[x].app /\ pc'[x].tok = pc[x].tok
                 /\ pc'[x].cb = pc[x].cb
                 /\ pc[x].at = "token" /\ pc'[x].at # "token" => Holds(pc[x].app, pc[x].tok)
           /\ pc[x].at = "erase token" => UnregisterErasesToken(x)
           /\ UnregisterErasesEntry(x) => pc'[x].at = "erase token" /\ pc'[x].tok = pc[x].tok
  <1>1. pc[x] \in CallSet
    BY DEF TypeInv, CallsType
  <1>2. CASE UnregisterErasesEntry(x)
    <2>1. pc'[x] = [pc[x] EXCEPT !.at = "erase token"] /\ pc[x].at = "erase"
      BY <1>2 DEF UnregisterErasesEntry, Cuts
    <2>2. PICK at \in Places : at = "erase token"
      BY DEF Places
    <2>3. PICK d : d = [pc[x] EXCEPT !.at = at]
      OBVIOUS
    <2>4. /\ d.op = pc[x].op /\ d.app = pc[x].app /\ d.tok = pc[x].tok /\ d.cb = pc[x].cb
          /\ d.at = "erase token"
      BY <1>1, <2>2, <2>3, MovedCall
    <2>5. pc'[x] = d
      BY <2>1, <2>2, <2>3
    <2>6. QED
      BY <1>2, <2>1, <2>4, <2>5
  <1>3. CASE ~UnregisterErasesEntry(x)
    <2>1. \/ UNCHANGED pc
          \/ Returns(x)
          \/ \E t : Cuts(x, Idle, t)
          \/ pc[x].at # "token" /\ \E at \in Places : Moves(x, at)
          \/ Holds(pc[x].app, pc[x].tok) /\ \E at \in Places : Moves(x, at)
      BY <1>2, <1>3 DEF CallSteps, RegisterCounts, RegisterAppends, CheckToken, CheckEntry, Checks,
           UnregisterErasesToken, RegisterDeviceSelectionCallback,
           UnregisterDeviceSelectionCallback, UpdateKeeps, UpdateSends, UsesNull, StartPosts,
           ConnectAbility, AmsConnectAbility, PanelCloses, PanelTells, Places, Holds, IsTokenRegistered
    <2>2. ASSUME NEW at \in Places, Moves(x, at)
          PROVE  /\ pc'[x].op = pc[x].op /\ pc'[x].app = pc[x].app /\ pc'[x].tok = pc[x].tok
                 /\ pc'[x].cb = pc[x].cb
      <3>1. PICK d : d = [pc[x] EXCEPT !.at = at]
        OBVIOUS
      <3>2. d.op = pc[x].op /\ d.app = pc[x].app /\ d.tok = pc[x].tok /\ d.cb = pc[x].cb
        BY <1>1, <3>1, MovedCall
      <3>3. pc'[x] = d
        BY <2>2, <3>1, MovesTo DEF TypeInv
      <3>4. QED
        BY <3>2, <3>3
    <2>3. Returns(x) \/ (\E t : Cuts(x, Idle, t)) => pc'[x] = Idle
      BY DEF Returns, Cuts, TypeInv, CallsType
    <2>4. pc[x].at = "erase token" => UnregisterErasesToken(x)
      BY <1>3 DEF CallSteps, RegisterCounts, RegisterAppends, CheckToken, CheckEntry, Checks,
           RegisterDeviceSelectionCallback,
           UnregisterDeviceSelectionCallback, UpdateKeeps, UpdateSends, UsesNull, StartPosts,
           ConnectAbility, AmsConnectAbility, PanelCloses, PanelTells
    <2>5. QED
      BY <1>3, <2>1, <2>2, <2>3, <2>4
  <1>4. QED
    BY <1>2, <1>3

LEMMA CallBegins ==
    ASSUME TypeInv, NEW x \in Threads, Calls(x)
    PROVE  /\ pc[x] = Idle
           /\ pc'[x].tok = NoToken \/ pc'[x].at = "token" \/ pc'[x].app = NoApp
  <1>1. PICK op, a, t, cb, at : /\ Enters(x, op, a, t, cb, at)
                                /\ t = NoToken \/ at = "token" \/ a = NoApp
    BY DEF Calls
  <1>2. PICK c : c = [op |-> op, app |-> a, tok |-> t, cb |-> cb, at |-> at, cut |-> FALSE]
    OBVIOUS
  <1>3. pc[x] = Idle /\ pc'[x] = c
    BY <1>1, <1>2 DEF Enters, TypeInv, CallsType
  <1>4. QED
    BY <1>1, <1>2, <1>3

-----------------------------------------------------------------------------
(* The deaths that are queued, and what the steps of the queue leave of them. *)
IsDied(x, t, cb, a) == x.kind = "died" /\ x.tok = t /\ x.cb = cb /\ x.app = a
DiedIn(q, t, cb, a) == \E i \in 1 .. Len(q) : IsDied(q[i], t, cb, a)

LEMMA AppendDied ==
    ASSUME TypeInv, NEW x, queue' = Append(queue, x)
    PROVE  \A t, cb, a : DiedIn(queue', t, cb, a) <=> DiedIn(queue, t, cb, a) \/ IsDied(x, t, cb, a)
  <1>1. PICK n \in Nat : n = Len(queue) /\ queue \in [1 .. n -> TaskSet]
    BY LenProperties DEF TypeInv, TasksType
  <1>2. PICK S : S = TaskSet \union {x}
    OBVIOUS
  <1>3. queue \in [1 .. n -> S]
    BY <1>1, <1>2
  <1>4. queue \in Seq(S) /\ x \in S
    BY <1>2, <1>3
  <1>5. /\ Len(queue') = n + 1 /\ queue'[n + 1] = x
        /\ \A i \in 1 .. n : queue'[i] = queue[i]
    BY <1>1, <1>4, AppendProperties
  <1>6. /\ \A i \in 1 .. n : i \in 1 .. n + 1
        /\ n + 1 \in 1 .. n + 1
        /\ \A i \in 1 .. n + 1 : i \in 1 .. n \/ i = n + 1
    BY <1>1
  <1>7. QED
    BY <1>1, <1>5, <1>6 DEF DiedIn

LEMMA TailDied ==
    ASSUME TypeInv, queue # << >>, queue' = Tail(queue)
    PROVE  \A t, cb, a : /\ DiedIn(queue', t, cb, a) => DiedIn(queue, t, cb, a)
                         /\ DiedIn(queue, t, cb, a) => DiedIn(queue', t, cb, a) \/ IsDied(Head(queue), t, cb, a)
  <1>1. PICK n \in Nat : n = Len(queue)
    BY LenProperties DEF TypeInv, TasksType
  <1>2. /\ n > 0 /\ Len(queue') = n - 1 /\ Head(queue) = queue[1]
        /\ \A i \in 1 .. n - 1 : queue'[i] = queue[i + 1]
    BY <1>1, HeadTailProperties, EmptySeq DEF TypeInv, TasksType
  <1>3. /\ \A i \in 1 .. n : i = 1 \/ (i - 1 \in 1 .. n - 1 /\ (i - 1) + 1 = i)
        /\ \A i \in 1 .. n - 1 : i + 1 \in 1 .. n
    BY <1>2
  <1>4. ASSUME NEW t, NEW cb, NEW a, DiedIn(queue', t, cb, a) PROVE DiedIn(queue, t, cb, a)
    BY <1>1, <1>2, <1>3, <1>4 DEF DiedIn
  <1>5. ASSUME NEW t, NEW cb, NEW a, DiedIn(queue, t, cb, a), ~IsDied(Head(queue), t, cb, a)
        PROVE  DiedIn(queue', t, cb, a)
    <2>1. PICK i \in 1 .. n : IsDied(queue[i], t, cb, a)
      BY <1>1, <1>5 DEF DiedIn
    <2>2. i - 1 \in 1 .. n - 1 /\ (i - 1) + 1 = i
      BY <1>2, <1>3, <1>5, <2>1
    <2>3. queue'[i - 1] = queue[i]
      BY <1>2, <2>2
    <2>4. QED
      BY <1>2, <2>1, <2>2, <2>3 DEF DiedIn
  <1>6. QED
    BY <1>4, <1>5

LEMMA CutDied ==
    ASSUME TypeInv, queue' = CutAll(queue)
    PROVE  \A t, cb, a : DiedIn(queue', t, cb, a) <=> DiedIn(queue, t, cb, a)
  <1>1. PICK n \in Nat : n = Len(queue)
    BY LenProperties DEF TypeInv, TasksType
  <1>2. Len(queue') = n
    BY <1>1, CutQueue DEF TypeInv, TasksType
  <1>3. \A i \in 1 .. n : queue[i] \in TaskSet /\ queue'[i] = [queue[i] EXCEPT !.cut = TRUE]
    BY <1>1, LenProperties DEF CutAll, TypeInv, TasksType
  <1>4. \A i \in 1 .. n : /\ queue'[i].kind = queue[i].kind /\ queue'[i].tok = queue[i].tok
                          /\ queue'[i].cb = queue[i].cb /\ queue'[i].app = queue[i].app
    BY <1>3, CutTask
  <1>5. QED
    BY <1>1, <1>2, <1>4 DEF DiedIn, IsDied

(* The step that reports a death, by points. *)
LEMMA ReportsAt ==
    ASSUME TypeInv, ProcessNotifierDied
    PROVE  \E t \in Toks, cb \in CbTypes, a \in Apps :
              /\ <<t, cb, a>> \in deaths /\ deaths' = deaths \ {<<t, cb, a>>}
              /\ \/ /\ \A u, c, b : DiedIn(queue', u, c, b) <=>
                          DiedIn(queue, u, c, b) \/ (u = t /\ c = cb /\ b = a)
                    /\ noticed' = noticed \union {t}
                 \/ <<t, cb, a>> \notin watched /\ UNCHANGED <<queue, noticed>>
  <1>1. PICK n \in deaths :
           /\ deaths' = deaths \ {n}
           /\ \/ queue' = Append(queue, Task("died", n[1], n[2], n[3], FALSE)) /\ noticed' = noticed \union {n[1]}
              \/ n \notin watched /\ UNCHANGED <<queue, noticed>>
    BY DEF ProcessNotifierDied
  <1>2. PICK t \in Toks, cb \in CbTypes, a \in Apps : n = <<t, cb, a>>
    BY DEF TypeInv, AppsType, Notifiers
  <1>3. PICK x : x = Task("died", t, cb, a, FALSE)
    OBVIOUS
  <1>4. \A u, c, b : IsDied(x, u, c, b) <=> u = t /\ c = cb /\ b = a
    BY <1>3 DEF IsDied, Task
  <1>5. CASE queue' = Append(queue, Task("died", n[1], n[2], n[3], FALSE)) /\ noticed' = noticed \union {n[1]}
    <2>1. queue' = Append(queue, x)
      BY <1>2, <1>3, <1>5
    <2>2. \A u, c, b : DiedIn(queue', u, c, b) <=> DiedIn(queue, u, c, b) \/ (u = t /\ c = cb /\ b = a)
      BY <1>4, <2>1, AppendDied
    <2>3. QED
      BY <1>1, <1>2, <1>5, <2>2
  <1>6. CASE n \notin watched /\ UNCHANGED <<queue, noticed>>
    BY <1>1, <1>2, <1>6
  <1>7. QED
    BY <1>1, <1>5, <1>6

(* All other steps leave what is queued of deaths, but for the one that handles it. *)
LEMMA DiedSteps ==
    ASSUME TypeInv, [Next]_vars, ~ProcessNotifierDied, ~Restart
    PROVE  \A t, cb, a :
              /\ DiedIn(queue', t, cb, a) => DiedIn(queue, t, cb, a)
              /\ DiedIn(queue, t, cb, a) =>
                    DiedIn(queue', t, cb, a) \/ (HandlerForgetsNotifier /\ IsDied(Head(queue), t, cb, a))
  <1>1. CASE UNCHANGED queue
    BY <1>1
  <1>2. ASSUME NEW x, queue' = Append(queue, x), x.kind # "died"
        PROVE  \A t, cb, a : DiedIn(queue', t, cb, a) <=> DiedIn(queue, t, cb, a)
    BY <1>2, AppendDied DEF IsDied
  <1>3. ASSUME NEW th \in Threads, CallSteps(th)
        PROVE  \A t, cb, a : DiedIn(queue', t, cb, a) <=> DiedIn(queue, t, cb, a)
    <2>1. \/ UNCHANGED queue
          \/ \E kind \in {"start", "update", "disconnect"} : \E t : Post(kind, t)
          \/ \E t, cb, a, cut : queue' = Append(queue, Task("tell", t, cb, a, cut))
      BY <1>3 DEF CallSteps, RegisterCounts, RegisterAppends, CheckToken, CheckEntry, Checks,
           UnregisterErasesEntry, UnregisterErasesToken, RegisterDeviceSelectionCallback,
           UnregisterDeviceSelectionCallback, UpdateKeeps, UpdateSends, UsesNull, StartPosts,
           ConnectAbility, AmsConnectAbility, PanelCloses, PanelTells, tasks
    <2>2. ASSUME NEW kind \in {"start", "update", "disconnect"}, NEW t, Post(kind, t)
          PROVE  \A u, cb, a : DiedIn(queue', u, cb, a) <=> DiedIn(queue, u, cb, a)
      <3>1. PICK x : x = Task(kind, t, "none", NoApp, FALSE)
        OBVIOUS
      <3>2. queue' = Append(queue, x) /\ x.kind # "died"
        BY <2>2, <3>1 DEF Post, Task
      <3>3. QED
        BY <1>2, <3>2
    <2>3. ASSUME NEW t, NEW b, NEW c, NEW cut, queue' = Append(queue, Task("tell", t, b, c, cut))
          PROVE  \A u, cb, a : DiedIn(queue', u, cb, a) <=> DiedIn(queue, u, cb, a)
      <3>1. PICK x : x = Task("tell", t, b, c, cut)
        OBVIOUS
      <3>2. queue' = Append(queue, x) /\ x.kind # "died"
        BY <2>3, <3>1 DEF Task
      <3>3. QED
        BY <1>2, <3>2
    <2>4. UNCHANGED queue => \A t, cb, a : DiedIn(queue', t, cb, a) <=> DiedIn(queue, t, cb, a)
      OBVIOUS
    <2>5. QED
      BY <2>1, <2>2, <2>3, <2>4
  <1>4. ASSUME NEW kind \in {"start", "disconnect"}, NEW t, Post(kind, t)
        PROVE  \A u, cb, a : DiedIn(queue', u, cb, a) <=> DiedIn(queue, u, cb, a)
    <2>1. PICK x : x = Task(kind, t, "none", NoApp, FALSE)
      OBVIOUS
    <2>2. queue' = Append(queue, x) /\ x.kind # "died"
      BY <1>4, <2>1 DEF Post, Task
    <2>3. QED
      BY <1>2, <2>2
  <1>5. CASE AmsConnectDone
    <2>1. PICK t : Post("start", t)
      BY <1>5 DEF AmsConnectDone, Post
    <2>2. QED
      BY <1>4, <2>1
  <1>6. CASE AmsDisconnectDone
    BY <1>6, CutDied DEF AmsDisconnectDone, CutAll
  <1>7. CASE HandlerForgetsToken
    BY <1>4, <1>7 DEF HandlerForgetsToken
  <1>8. CASE Handler /\ ~HandlerForgetsToken
    <2>1. \/ UNCHANGED queue
          \/ /\ queue # << >> /\ queue' = Tail(queue)
             /\ HandlerForgetsNotifier \/ Head(queue).kind # "died"
      BY <1>8 DEF Handler, HandlerStarts, HandlerUpdates, HandlerTells, HandlerDisconnects,
              HandlerForgetsConnection, HandlerForgetsNotifier, UsesNull, Takes, tasks
    <2>2. QED
      BY <1>1, <2>1, TailDied DEF IsDied
  <1>9. CASE AppDies \/ UNCHANGED vars \/ \E th \in Threads : Calls(th)
    <2>1. UNCHANGED queue
      BY <1>9 DEF AppDies, Calls, Enters, vars, tasks
    <2>2. QED
      BY <1>1, <2>1
  <1>10. QED
    BY <1>3, <1>5, <1>6, <1>7, <1>8, <1>9 DEF Next

-----------------------------------------------------------------------------
(* No zero and no other type where a token, or the notifier that died, is kept. *)
KeptTokens ==
    /\ NoToken \notin DOMAIN callbackMap
    /\ \A n \in watched \union deaths : n[1] # NoToken
    /\ \A t, cb, a : DiedIn(queue, t, cb, a) => t \in Tokens /\ cb \in CbTypes /\ a \in Apps

LEMMA TokIs == \A t \in Toks : t # NoToken => t \in Tokens
  BY BoundsAssumption DEF Toks, Tokens, NoToken

LEMMA NextKeptTokens ==
    ASSUME TypeInv, GivesInv, KeptTokens, [Next]_vars
    PROVE  KeptTokens'
  <1>1. CASE Restart
    <2>1. callbackMap' = << >> /\ watched' = {} /\ deaths' = {} /\ queue' = << >>
      BY <1>1 DEF Restart
    <2>2. \A t, cb, a : ~DiedIn(queue', t, cb, a)
      BY <2>1, EmptySeq DEF DiedIn
    <2>3. QED
      BY <2>1, <2>2 DEF KeptTokens
  <1>2. CASE ~Restart
    <2>1. (NoToken \notin DOMAIN callbackMap') /\ \A n \in watched' : n[1] # NoToken
      <3>1. ASSUME NEW th \in Threads, RegisterDeviceSelectionCallback(th)
            PROVE  (NoToken \notin DOMAIN callbackMap') /\ \A n \in watched' : n[1] # NoToken
        <4>1. PICK t, b, a : t = pc[th].tok /\ b = pc[th].cb /\ a = pc[th].app
          OBVIOUS
        <4>2. /\ pc[th].op \in CbOps /\ DOMAIN callbackMap' = DOMAIN callbackMap \union {t}
              /\ \A n \in watched' : n \in watched \/ n = <<t, b, a>>
          <5>1. RegisterSets(th, t, b, a)
            BY <3>1, <4>1, RegistersAt
          <5>2. QED
            BY <5>1 DEF RegisterSets
        <4>3. t # NoToken
          BY <4>1, <4>2 DEF GivesInv, Gives
        <4>4. QED
          BY <4>2, <4>3 DEF KeptTokens
      <3>2. ASSUME NEW t, EraseEntry(t)
            PROVE  (NoToken \notin DOMAIN callbackMap') /\ \A n \in watched' : n[1] # NoToken
        BY <3>2, ErasesAt DEF KeptTokens
      <3>3. ASSUME NEW th \in Threads, UnregisterDeviceSelectionCallback(th)
            PROVE  (NoToken \notin DOMAIN callbackMap') /\ \A n \in watched' : n[1] # NoToken
        <4>1. PICK t, b, a : t = pc[th].tok /\ b = pc[th].cb /\ a = pc[th].app
          OBVIOUS
        <4>2. \/ UNCHANGED callbacks
              \/ EraseEntry(t)
              \/ DOMAIN callbackMap' = DOMAIN callbackMap /\ watched' \subseteq watched
          BY <3>3, <4>1, UnregistersAt DEF UnregisterSets
        <4>3. QED
          BY <3>2, <4>2 DEF KeptTokens, callbacks
      <3>4. ASSUME NEW th \in Threads, UnregisterErasesEntry(th)
            PROVE  (NoToken \notin DOMAIN callbackMap') /\ \A n \in watched' : n[1] # NoToken
        <4>1. PICK t : t = pc[th].tok
          OBVIOUS
        <4>2. EraseEntry(t)
          BY <3>4, <4>1 DEF UnregisterErasesEntry
        <4>3. QED
          BY <3>2, <4>2
      <3>5. CASE HandlerForgetsNotifier
        <4>1. PICK t : t = Head(queue).tok
          OBVIOUS
        <4>2. UNCHANGED callbacks \/ EraseEntry(t)
          BY <3>5, <4>1 DEF HandlerForgetsNotifier
        <4>3. QED
          BY <3>2, <4>2 DEF KeptTokens, callbacks
      <3>6. CASE UNCHANGED callbacks
        BY <3>6 DEF KeptTokens, callbacks
      <3>7. QED
        BY <1>2, <3>1, <3>3, <3>4, <3>5, <3>6, EntrySteps
    <2>2. \A n \in deaths' : n[1] # NoToken
      <3>1. deaths' \subseteq deaths \union watched
        BY <1>2, AliveSteps DEF AppDies, ProcessNotifierDied
      <3>2. QED
        BY <3>1 DEF KeptTokens
    <2>3. \A t, cb, a : DiedIn(queue', t, cb, a) => t \in Tokens /\ cb \in CbTypes /\ a \in Apps
      <3>1. CASE ProcessNotifierDied
        <4>1. PICK t \in Toks, cb \in CbTypes, a \in Apps :
                 /\ <<t, cb, a>> \in deaths
                 /\ \A u, c, b : DiedIn(queue', u, c, b) => DiedIn(queue, u, c, b) \/ (u = t /\ c = cb /\ b = a)
          BY <3>1, ReportsAt
        <4>2. t \in Tokens
          BY <4>1, TokIs DEF KeptTokens
        <4>3. QED
          BY <4>1, <4>2 DEF KeptTokens
      <3>2. CASE ~ProcessNotifierDied
        BY <1>2, <3>2, DiedSteps DEF KeptTokens
      <3>3. QED
        BY <3>1, <3>2
    <2>4. QED
      BY <2>1, <2>2, <2>3 DEF KeptTokens
  <1>3. QED
    BY <1>1, <1>2

-----------------------------------------------------------------------------
(* Who a token belongs to, and what holds of the notifiers that are watched and of those   *)
(* that died, while no token was given again in use and no application died in a call.        *)
Clean == races \intersect {"reissued", "died in call"} = {}
Reported(t, cb, a) == <<t, cb, a>> \in deaths \/ DiedIn(queue, t, cb, a)
Owns(t, a) ==
    \/ Holds(a, t)
    \/ \E cb \in CbTypes : NoteIn(callbackMap, t, cb) = a
    \/ \E th \in Threads : pc[th].tok = t /\ pc[th].app = a /\ pc[th].at # "token"
    \/ \E cb \in CbTypes : Reported(t, cb, a)
OneOwner == \A t \in Tokens : \A a, b \in Apps : Owns(t, a) /\ Owns(t, b) => a = b

WatchedThere == \A t, cb, a : <<t, cb, a>> \in watched => NoteIn(callbackMap, t, cb) = a
WatchedAlive == \A t, cb, a : <<t, cb, a>> \in watched => a \in alive \/ Reported(t, cb, a)
EntryWatched == "unwatched" \notin races => \A t \in DOMAIN callbackMap : \E n \in watched : n[1] = t

(* The token of one that died goes, or is about to. *)
Doomed(t) ==
    \/ \A a \in Apps : ~Holds(a, t)
    \/ running.kind = "died" /\ running.tok = t
    \/ \E th \in Threads : pc[th].at = "erase token" /\ pc[th].tok = t
DeadDoomed ==
    \A t, cb, a : Reported(t, cb, a) => a \notin alive /\ (NoteIn(callbackMap, t, cb) = a \/ Doomed(t))
NoticedDoomed == \A t \in noticed : Doomed(t) \/ \E cb, a : DiedIn(queue, t, cb, a)

DeadInv ==
    Clean => OneOwner /\ WatchedThere /\ WatchedAlive /\ EntryWatched /\ DeadDoomed /\ NoticedDoomed

LEMMA HoldsTokens == ASSUME MapType, NEW a \in Apps, NEW t, Holds(a, t) PROVE t \in Tokens
  <1>1. PICK s \in Seq(Tokens) : s = tokenMap[a]
    BY DEF MapType
  <1>2. \A i \in DOMAIN s : s[i] \in Tokens
    BY LenProperties
  <1>3. QED
    BY <1>1, <1>2 DEF Holds, ToSet

LEMMA OneHolds ==
    ASSUME MapType, OneOwner, NEW t
    PROVE  \A a, b \in Apps : Holds(a, t) /\ Holds(b, t) => a = b
  BY HoldsTokens DEF OneOwner, Owns

(* What a step may add to what an application owns is a new token of its list. *)
LEMMA HoldsBefore ==
    ASSUME TypeInv, MapType, OneOwner, [Next]_vars, ~Restart, NEW t, NEW a \in Apps, Holds(a, t)'
    PROVE  Holds(a, t) \/ \E th \in Threads : RegisterAppends(th) /\ t = NextToken /\ a = pc[th].app
  <1>1. CASE UNCHANGED tokenMap
    BY <1>1 DEF Holds
  <1>2. ASSUME NEW th \in Threads, RegisterAppends(th)
        PROVE  Holds(a, t) \/ (t = NextToken /\ a = pc[th].app)
    <2>1. ToSet(tokenMap'[a]) \subseteq ToSet(tokenMap[a]) \union (IF a = pc[th].app THEN {NextToken} ELSE {})
      BY <1>2, AppendsAt
    <2>2. QED
      BY <2>1 DEF Holds
  <1>3. ASSUME NEW u, EraseToken(u) PROVE Holds(a, t)
    BY <1>3, ErasesAll, OneHolds DEF Holds
  <1>4. ASSUME NEW th \in Threads, UnregisterErasesToken(th) PROVE Holds(a, t)
    <2>1. PICK u : u = pc[th].tok
      OBVIOUS
    <2>2. EraseToken(u)
      BY <1>4, <2>1 DEF UnregisterErasesToken
    <2>3. QED
      BY <1>3, <2>2
  <1>5. CASE HandlerForgetsToken
    <2>1. PICK u : u = running.tok
      OBVIOUS
    <2>2. EraseToken(u)
      BY <1>5, <2>1 DEF HandlerForgetsToken, EraseToken, Emptied, Without
    <2>3. QED
      BY <1>3, <2>2
  <1>6. QED
    BY <1>1, <1>2, <1>4, <1>5, MapSteps

LEMMA NoteBefore ==
    ASSUME TypeInv, [Next]_vars, ~Restart, NEW t, NEW cb \in CbTypes, NEW a \in Apps,
           NoteIn(callbackMap', t, cb) = a
    PROVE  \/ NoteIn(callbackMap, t, cb) = a
           \/ \E th \in Threads : /\ RegisterDeviceSelectionCallback(th) /\ pc[th].at = "use"
                                  /\ pc[th].tok = t /\ pc[th].cb = cb /\ pc[th].app = a
  <1>1. a # NoApp
    BY Zeros
  <1>2. CASE UNCHANGED callbacks
    BY <1>2 DEF callbacks
  <1>3. ASSUME NEW u, EraseEntry(u) PROVE NoteIn(callbackMap, t, cb) = a
    BY <1>1, <1>3, ErasesAt
  <1>4. ASSUME NEW th \in Threads, RegisterDeviceSelectionCallback(th)
        PROVE  \/ NoteIn(callbackMap, t, cb) = a
               \/ pc[th].at = "use" /\ pc[th].tok = t /\ pc[th].cb = cb /\ pc[th].app = a
    <2>1. PICK u, b, c : u = pc[th].tok /\ b = pc[th].cb /\ c = pc[th].app
      OBVIOUS
    <2>2. pc[th].at = "use" /\ NotesAt(u, b, c)
      BY <1>4, <2>1, RegistersAt DEF RegisterSets
    <2>3. QED
      BY <2>1, <2>2 DEF NotesAt
  <1>5. ASSUME NEW th \in Threads, UnregisterDeviceSelectionCallback(th)
        PROVE  NoteIn(callbackMap, t, cb) = a
    <2>1. PICK u, b, c : u = pc[th].tok /\ b = pc[th].cb /\ c = pc[th].app
      OBVIOUS
    <2>2. \/ UNCHANGED callbacks
          \/ EraseEntry(u)
          \/ NotesAt(u, b, NoApp)
      BY <1>5, <2>1, UnregistersAt DEF UnregisterSets
    <2>3. CASE NotesAt(u, b, NoApp)
      BY <1>1, <2>3 DEF NotesAt
    <2>4. CASE EraseEntry(u)
      BY <1>3, <2>4
    <2>5. CASE UNCHANGED callbacks
      BY <2>5 DEF callbacks
    <2>6. QED
      BY <2>2, <2>3, <2>4, <2>5
  <1>6. ASSUME NEW th \in Threads, UnregisterErasesEntry(th) PROVE NoteIn(callbackMap, t, cb) = a
    <2>1. PICK u : u = pc[th].tok
      OBVIOUS
    <2>2. EraseEntry(u)
      BY <1>6, <2>1 DEF UnregisterErasesEntry
    <2>3. QED
      BY <1>3, <2>2
  <1>7. CASE HandlerForgetsNotifier
    <2>1. PICK u : u = Head(queue).tok
      OBVIOUS
    <2>2. UNCHANGED callbacks \/ EraseEntry(u)
      BY <1>7, <2>1 DEF HandlerForgetsNotifier
    <2>3. QED
      BY <1>2, <1>3, <2>2
  <1>8. QED
    BY <1>2, <1>4, <1>5, <1>6, <1>7, EntrySteps

LEMMA ReportedBefore ==
    ASSUME TypeInv, [Next]_vars, ~Restart, NEW t, NEW cb, NEW a, Reported(t, cb, a)'
    PROVE  Reported(t, cb, a) \/ (AppDies /\ <<t, cb, a>> \in watched /\ a \notin alive')
  <1>1. DiedIn(queue', t, cb, a) => Reported(t, cb, a)
    <2>1. CASE ProcessNotifierDied
      BY <2>1, ReportsAt DEF Reported
    <2>2. CASE ~ProcessNotifierDied
      BY <2>2, DiedSteps DEF Reported
    <2>3. QED
      BY <2>1, <2>2
  <1>2. <<t, cb, a>> \in deaths' => Reported(t, cb, a) \/ (AppDies /\ <<t, cb, a>> \in watched /\ a \notin alive')
    <2>1. CASE AppDies
      <3>1. PICK b \in alive : alive' = alive \ {b} /\ deaths' = deaths \union {n \in watched : n[3] = b}
        BY <2>1 DEF AppDies
      <3>2. PICK n : n = <<t, cb, a>>
        OBVIOUS
      <3>3. n[3] = a
        BY <3>2
      <3>5. n \in deaths' => n \in deaths \/ (n \in watched /\ a \notin alive')
        BY <3>1, <3>3
      <3>4. QED
        BY <2>1, <3>2, <3>5 DEF Reported
    <2>2. CASE ProcessNotifierDied \/ UNCHANGED deaths
      BY <2>2 DEF ProcessNotifierDied, Reported
    <2>3. QED
      BY <2>1, <2>2, AliveSteps
  <1>3. QED
    BY <1>1, <1>2 DEF Reported

(* A thread that was not past the check of its token had the token then. *)
LEMMA ThreadBefore ==
    ASSUME TypeInv, [Next]_vars, ~Restart, NEW x \in Threads, NEW t \in Tokens, NEW a \in Apps,
           pc'[x].tok = t /\ pc'[x].app = a /\ pc'[x].at # "token"
    PROVE  Owns(t, a)
  <1>1. t # NoToken /\ a # NoApp
    BY Zeros DEF Tokens, NoToken
  <1>2. Idle.tok = NoToken
    BY DEF Idle
  <1>3. CASE SameCall(x)
    BY <1>3 DEF SameCall, Owns
  <1>4. CASE CallSteps(x)
    <2>1. \/ pc'[x] = Idle
          \/ /\ pc'[x].op = pc[x].op /\ pc'[x].app = pc[x].app /\ pc'[x].tok = pc[x].tok
             /\ pc[x].at = "token" /\ pc'[x].at # "token" => Holds(pc[x].app, pc[x].tok)
      BY <1>4, CallGoesOn
    <2>2. CASE pc[x].at = "token"
      <3>1. pc[x].app = a /\ pc[x].tok = t /\ Holds(pc[x].app, pc[x].tok)
        BY <1>1, <1>2, <2>1, <2>2
      <3>2. Holds(a, t)
        BY <3>1 DEF Holds
      <3>3. QED
        BY <3>2 DEF Owns
    <2>3. CASE pc[x].at # "token"
      BY <1>1, <1>2, <2>1, <2>3 DEF Owns
    <2>4. QED
      BY <2>2, <2>3
  <1>5. CASE Calls(x)
    BY <1>1, <1>5, CallBegins
  <1>6. QED
    BY <1>3, <1>4, <1>5, OthersStay

LEMMA OwnsBefore ==
    ASSUME TypeInv, MapType, OneOwner, WatchedThere, [Next]_vars, ~Restart,
           NEW t \in Tokens, NEW a \in Apps, Owns(t, a)'
    PROVE  \/ Owns(t, a)
           \/ \E th \in Threads : RegisterAppends(th) /\ t = NextToken /\ a = pc[th].app
  <1>1. CASE Holds(a, t)'
    BY <1>1, HoldsBefore DEF Owns
  <1>2. ASSUME NEW cb \in CbTypes, NoteIn(callbackMap', t, cb) = a PROVE Owns(t, a)
    <2>1. CASE NoteIn(callbackMap, t, cb) = a
      BY <2>1 DEF Owns
    <2>2. CASE \E th \in Threads : /\ RegisterDeviceSelectionCallback(th) /\ pc[th].at = "use"
                                   /\ pc[th].tok = t /\ pc[th].cb = cb /\ pc[th].app = a
      BY <2>2 DEF Owns
    <2>3. QED
      BY <1>2, <2>1, <2>2, NoteBefore
  <1>3. ASSUME NEW x \in Threads, pc'[x].tok = t /\ pc'[x].app = a /\ pc'[x].at # "token" PROVE Owns(t, a)
    BY <1>3, ThreadBefore
  <1>4. ASSUME NEW cb \in CbTypes, Reported(t, cb, a)' PROVE Owns(t, a)
    <2>1. Reported(t, cb, a) \/ <<t, cb, a>> \in watched
      BY <1>4, ReportedBefore
    <2>2. <<t, cb, a>> \in watched => NoteIn(callbackMap, t, cb) = a
      BY DEF WatchedThere
    <2>3. QED
      BY <2>1, <2>2 DEF Owns
  <1>5. QED
    BY <1>1, <1>2, <1>3, <1>4 DEF Owns

(* While none is given again in use, a token that is given is nobody's. *)
Fresh(t) ==
    /\ t \in Tokens /\ \A a \in Apps : ~Owns(t, a)
    /\ (t \notin DOMAIN callbackMap) /\ running.tok # t /\ noticed' = noticed \ {t}
    /\ \A x \in Threads : pc[x].tok # t
    /\ \A cb, a : ~Reported(t, cb, a)

LEMMA FreshToken ==
    ASSUME TypeInv, MapType, NEW th \in Threads, RegisterAppends(th), Clean'
    PROVE  \A t : t = NextToken => Fresh(t)
  <1>0. SUFFICES ASSUME NEW t, t = NextToken PROVE Fresh(t)
    OBVIOUS
  <1>1. t \in Tokens /\ noticed' = noticed \ {t} /\ ~InUse(t)
    BY <1>0, AppendsAt DEF Clean
  <1>2. /\ \A a \in Apps : ~Holds(a, t)
        /\ (t \notin DOMAIN callbackMap) /\ running.tok # t
        /\ \A x \in Threads : pc[x].tok # t
        /\ \A i \in DOMAIN queue : queue[i].tok # t
        /\ \A n \in deaths : n[1] # t
    BY <1>1 DEF InUse, Holds, HasEntry, IsTokenRegistered
  <1>3. \A cb, a : ~DiedIn(queue, t, cb, a)
    <2>1. DOMAIN queue = 1 .. Len(queue)
      BY LenProperties DEF TypeInv, TasksType
    <2>2. QED
      BY <1>2, <2>1 DEF DiedIn, IsDied
  <1>4. \A cb, a : ~Reported(t, cb, a)
    <2>1. \A cb, a : <<t, cb, a>> \notin deaths
      BY <1>2
    <2>2. QED
      BY <1>3, <2>1 DEF Reported
  <1>5. \A cb : NoteIn(callbackMap, t, cb) = NoApp
    BY <1>2 DEF NoteIn
  <1>6. \A a \in Apps : ~Owns(t, a)
    BY <1>2, <1>4, <1>5, Zeros DEF Owns
  <1>7. QED
    BY <1>1, <1>2, <1>4, <1>6 DEF Fresh

LEMMA NextOwner ==
    ASSUME TypeInv, MapType, OneOwner, WatchedThere, [Next]_vars, ~Restart, Clean'
    PROVE  OneOwner'
  <1>1. SUFFICES ASSUME NEW t \in Tokens, NEW a \in Apps, NEW b \in Apps, Owns(t, a)', Owns(t, b)'
                 PROVE  a = b
    BY DEF OneOwner
  <1>2. ASSUME NEW th \in Threads, RegisterAppends(th), t = NextToken PROVE a = b
    <2>1. ~Owns(t, a) /\ ~Owns(t, b)
      BY <1>1, <1>2, FreshToken DEF Fresh
    <2>2. Holds(a, t)' /\ Holds(b, t)'
      <3>1. ASSUME NEW c \in Apps, Owns(t, c)', ~Owns(t, c) PROVE Holds(c, t)'
        <4>1. UNCHANGED <<callbackMap, watched, deaths, queue>> /\ Returns(th)
          BY <1>2 DEF RegisterAppends, callbacks, tasks
        <4>2. \A cb \in CbTypes : NoteIn(callbackMap', t, cb) = c => NoteIn(callbackMap, t, cb) = c
          BY <4>1
        <4>3. \A cb \in CbTypes : Reported(t, cb, c)' => Reported(t, cb, c)
          BY <4>1 DEF Reported
        <4>4. \A x \in Threads : pc'[x].tok = t /\ pc'[x].app = c /\ pc'[x].at # "token" => Owns(t, c)
          BY ThreadBefore
        <4>5. QED
          BY <3>1, <4>2, <4>3, <4>4 DEF Owns
      <3>2. QED
        BY <1>1, <2>1, <3>1
    <2>3. ~Holds(a, t) /\ ~Holds(b, t)
      BY <2>1 DEF Owns
    <2>4. \A c \in Apps : ToSet(tokenMap'[c]) \subseteq ToSet(tokenMap[c]) \union (IF c = pc[th].app THEN {t} ELSE {})
      BY <1>2, AppendsAt
    <2>5. a = pc[th].app /\ b = pc[th].app
      BY <2>2, <2>3, <2>4 DEF Holds
    <2>6. QED
      BY <2>5
  <1>3. CASE Owns(t, a) /\ Owns(t, b)
    BY <1>3 DEF OneOwner
  <1>4. QED
    BY <1>1, <1>2, <1>3, OwnsBefore

(* A call that sets a notifier or takes one out owns its token. *)
LEMMA CallOwns ==
    ASSUME TypeInv, GivesInv, NEW th \in Threads, pc[th].at = "use", pc[th].op \in CbOps
    PROVE  pc[th].tok \in Tokens /\ \A t, a : t = pc[th].tok /\ a = pc[th].app => Owns(t, a)
  <1>1. pc[th].tok \in Toks /\ pc[th].tok # NoToken
    BY DEF GivesInv, Gives, TypeInv, CallsType, CallSet
  <1>2. QED
    BY <1>1, TokIs DEF Owns

LEMMA EntryOwns ==
    ASSUME TypeInv, KeptTokens
    PROVE  \A t, cb, a : <<t, cb, a>> \in watched \union deaths => t \in Tokens /\ cb \in CbTypes /\ a \in Apps
  <1>1. SUFFICES ASSUME NEW t, NEW cb, NEW a, <<t, cb, a>> \in watched \union deaths
                 PROVE  t \in Tokens /\ cb \in CbTypes /\ a \in Apps
    OBVIOUS
  <1>2. t \in Toks /\ cb \in CbTypes /\ a \in Apps
    BY <1>1 DEF TypeInv, AppsType, Notifiers
  <1>3. t # NoToken
    BY <1>1 DEF KeptTokens
  <1>4. QED
    BY <1>2, <1>3, TokIs

LEMMA NextWatchedThere ==
    ASSUME TypeInv, GivesInv, KeptTokens, OneOwner, WatchedThere, [Next]_vars, ~Restart
    PROVE  WatchedThere'
  <1>1. CASE UNCHANGED callbacks
    BY <1>1 DEF WatchedThere, callbacks
  <1>2. ASSUME NEW t, EraseEntry(t) PROVE WatchedThere'
    <2>1. SUFFICES ASSUME NEW u, NEW cb, NEW c, <<u, cb, c>> \in watched' PROVE NoteIn(callbackMap', u, cb) = c
      BY DEF WatchedThere
    <2>2. <<u, cb, c>> \in watched
      BY <1>2, <2>1, ErasesAt
    <2>3. NoteIn(callbackMap, u, cb) = c /\ u \in Tokens /\ cb \in CbTypes /\ c \in Apps
      BY <2>2, EntryOwns DEF WatchedThere
    <2>4. u # t
      BY <1>2, <2>1, <2>3, ErasesAt
    <2>5. NoteIn(callbackMap', u, cb) = NoteIn(callbackMap, u, cb)
      <3>1. \A v, d : v # t => NoteIn(callbackMap', v, d) = NoteIn(callbackMap, v, d)
        BY <1>2, ErasesAt
      <3>2. QED
        BY <2>4, <3>1
    <2>6. QED
      BY <2>3, <2>5
  <1>3. ASSUME NEW th \in Threads, RegisterDeviceSelectionCallback(th) PROVE WatchedThere'
    <2>1. PICK t, b, a : t = pc[th].tok /\ b = pc[th].cb /\ a = pc[th].app
      OBVIOUS
    <2>2. RegisterSets(th, t, b, a)
      BY <1>3, <2>1, RegistersAt
    <2>3. t \in Tokens /\ Owns(t, a) /\ a \in Apps
      BY <2>1, <2>2, CallOwns DEF RegisterSets
    <2>4. SUFFICES ASSUME NEW u, NEW cb, NEW c, <<u, cb, c>> \in watched' PROVE NoteIn(callbackMap', u, cb) = c
      BY DEF WatchedThere
    <2>5. CASE u = t /\ cb = b /\ c = a
      BY <2>2, <2>5 DEF RegisterSets, NotesAt
    <2>6. CASE <<u, cb, c>> \in watched
      <3>1. u \in Tokens /\ cb \in CbTypes /\ c \in Apps
        BY <2>6, EntryOwns
      <3>2. NoteIn(callbackMap, u, cb) = c
        BY <2>6 DEF WatchedThere
      <3>3. Owns(u, c)
        BY <3>1, <3>2 DEF Owns
      <3>4. CASE u = t /\ cb = b
        BY <2>2, <2>3, <3>1, <3>3, <3>4 DEF OneOwner, RegisterSets, NotesAt
      <3>5. CASE u # t \/ cb # b
        BY <2>2, <3>1, <3>2, <3>5 DEF RegisterSets, NotesAt
      <3>6. QED
        BY <3>4, <3>5
    <2>7. QED
      BY <2>2, <2>4, <2>5, <2>6 DEF RegisterSets
  <1>4. ASSUME NEW th \in Threads, UnregisterDeviceSelectionCallback(th) PROVE WatchedThere'
    <2>1. PICK t, b, a : t = pc[th].tok /\ b = pc[th].cb /\ a = pc[th].app
      OBVIOUS
    <2>2. UnregisterSets(th, t, b, a)
      BY <1>4, <2>1, UnregistersAt
    <2>3. CASE NotesAt(t, b, NoApp) /\ watched' = watched \ {<<t, b, NoteIn(callbackMap, t, b)>>}
      <3>1. SUFFICES ASSUME NEW u, NEW cb, NEW c, <<u, cb, c>> \in watched' PROVE NoteIn(callbackMap', u, cb) = c
        BY DEF WatchedThere
      <3>2. u \in Tokens /\ cb \in CbTypes /\ c \in Apps
        BY <2>3, <3>1, EntryOwns
      <3>3. NoteIn(callbackMap, u, cb) = c
        BY <2>3, <3>1 DEF WatchedThere
      <3>4. u # t \/ cb # b
        BY <2>3, <3>1, <3>2, <3>3
      <3>5. QED
        BY <2>3, <3>2, <3>3, <3>4 DEF NotesAt
    <2>4. CASE EraseEntry(t)
      BY <1>2, <2>4
    <2>5. CASE UNCHANGED callbacks
      BY <2>5 DEF WatchedThere, callbacks
    <2>6. QED
      BY <2>2, <2>3, <2>4, <2>5 DEF UnregisterSets
  <1>5. ASSUME NEW th \in Threads, UnregisterErasesEntry(th) PROVE WatchedThere'
    <2>1. PICK t : t = pc[th].tok
      OBVIOUS
    <2>2. EraseEntry(t)
      BY <1>5, <2>1 DEF UnregisterErasesEntry
    <2>3. QED
      BY <1>2, <2>2
  <1>6. CASE HandlerForgetsNotifier
    <2>1. PICK t : t = Head(queue).tok
      OBVIOUS
    <2>2. UNCHANGED callbacks \/ EraseEntry(t)
      BY <1>6, <2>1 DEF HandlerForgetsNotifier
    <2>3. CASE UNCHANGED callbacks
      BY <2>3 DEF WatchedThere, callbacks
    <2>4. QED
      BY <1>2, <2>2, <2>3
  <1>7. QED
    BY <1>1, <1>3, <1>4, <1>5, <1>6, EntrySteps

LEMMA NextEntryWatched ==
    ASSUME TypeInv, KeptTokens, EntryWatched, [Next]_vars, ~Restart, Clean'
    PROVE  EntryWatched'
  <1>1. SUFFICES ASSUME "unwatched" \notin races', NEW u \in DOMAIN callbackMap'
                 PROVE  \E n \in watched' : n[1] = u
    BY DEF EntryWatched
  <1>2. u \in DOMAIN callbackMap => \E n \in watched : n[1] = u
    BY <1>1, RacesStay DEF EntryWatched
  <1>3. CASE UNCHANGED callbacks
    BY <1>1, <1>2, <1>3 DEF callbacks
  <1>4. ASSUME NEW t, EraseEntry(t) PROVE \E n \in watched' : n[1] = u
    <2>1. DOMAIN callbackMap' = DOMAIN callbackMap \ {t} /\ \A n \in watched : n[1] # t => n \in watched'
      BY <1>4, ErasesAt
    <2>2. QED
      BY <1>1, <1>2, <2>1
  <1>5. ASSUME NEW th \in Threads, RegisterDeviceSelectionCallback(th) PROVE \E n \in watched' : n[1] = u
    <2>1. PICK t, b, a : t = pc[th].tok /\ b = pc[th].cb /\ a = pc[th].app
      OBVIOUS
    <2>2. RegisterSets(th, t, b, a)
      BY <1>5, <2>1, RegistersAt
    <2>3. CASE u \in DOMAIN callbackMap
      BY <1>2, <2>2, <2>3 DEF RegisterSets
    <2>4. CASE u \notin DOMAIN callbackMap
      <3>1. u = t
        BY <1>1, <2>2, <2>4 DEF RegisterSets
      <3>2. <<t, b, a>> \in watched'
        BY <2>2, <2>4, <3>1 DEF RegisterSets, Clean
      <3>3. QED
        BY <3>1, <3>2
    <2>5. QED
      BY <2>3, <2>4
  <1>6. ASSUME NEW th \in Threads, UnregisterDeviceSelectionCallback(th) PROVE \E n \in watched' : n[1] = u
    <2>1. PICK t, b, a : t = pc[th].tok /\ b = pc[th].cb /\ a = pc[th].app
      OBVIOUS
    <2>2. UnregisterSets(th, t, b, a)
      BY <1>6, <2>1, UnregistersAt
    <2>3. \/ UNCHANGED callbacks
          \/ EraseEntry(t)
          \/ DOMAIN callbackMap' = DOMAIN callbackMap /\ watched' = watched
      BY <1>1, <2>2 DEF UnregisterSets
    <2>4. CASE EraseEntry(t)
      BY <1>4, <2>4
    <2>5. CASE DOMAIN callbackMap' = DOMAIN callbackMap /\ watched' = watched
      BY <1>1, <1>2, <2>5
    <2>6. QED
      BY <2>3, <2>4, <2>5 DEF callbacks
  <1>7. ASSUME NEW th \in Threads, UnregisterErasesEntry(th) PROVE \E n \in watched' : n[1] = u
    <2>1. PICK t : t = pc[th].tok
      OBVIOUS
    <2>2. EraseEntry(t)
      BY <1>7, <2>1 DEF UnregisterErasesEntry
    <2>3. QED
      BY <1>4, <2>2
  <1>8. CASE HandlerForgetsNotifier
    <2>1. PICK t : t = Head(queue).tok
      OBVIOUS
    <2>2. UNCHANGED callbacks \/ EraseEntry(t)
      BY <1>8, <2>1 DEF HandlerForgetsNotifier
    <2>3. CASE EraseEntry(t)
      BY <1>4, <2>3
    <2>4. CASE UNCHANGED callbacks
      BY <1>1, <1>2, <2>4 DEF callbacks
    <2>5. QED
      BY <2>2, <2>3, <2>4
  <1>9. QED
    BY <1>3, <1>5, <1>6, <1>7, <1>8, EntrySteps

(* The handling of a death finds the notifier and takes the entry, or it is not there. *)
Forgets(t, cb, a) ==
    \/ /\ NoteIn(callbackMap, t, cb) = a /\ EraseEntry(t)
       /\ running'.kind = "died" /\ running'.tok = t
    \/ NoteIn(callbackMap, t, cb) # a /\ UNCHANGED callbacks

LEMMA ForgetsAt ==
    ASSUME TypeInv, KeptTokens, HandlerForgetsNotifier
    PROVE  \A t, cb, a : IsDied(Head(queue), t, cb, a) => DiedIn(queue, t, cb, a) /\ Forgets(t, cb, a)
  <1>1. PICK d : d = Head(queue)
    OBVIOUS
  <1>2. /\ d.kind = "died" /\ queue # << >>
        /\ \/ <<d.tok, d.cb, d.app>> \in NotifiersOf(d.tok) /\ EraseEntry(d.tok) /\ running' = d
           \/ <<d.tok, d.cb, d.app>> \notin NotifiersOf(d.tok) /\ UNCHANGED callbacks
    BY <1>1 DEF HandlerForgetsNotifier, Takes
  <1>3. SUFFICES ASSUME NEW t, NEW cb, NEW a, t = d.tok /\ cb = d.cb /\ a = d.app
                 PROVE  DiedIn(queue, t, cb, a) /\ Forgets(t, cb, a)
    BY <1>1 DEF IsDied
  <1>4. DiedIn(queue, t, cb, a)
    <2>1. PICK n \in Nat : n = Len(queue)
      BY LenProperties DEF TypeInv, TasksType
    <2>2. n > 0 /\ d = queue[1]
      BY <1>1, <1>2, <2>1, HeadTailProperties, EmptySeq DEF TypeInv, TasksType
    <2>3. 1 \in 1 .. n
      BY <2>2
    <2>4. QED
      BY <1>2, <1>3, <2>1, <2>2, <2>3 DEF DiedIn, IsDied
  <1>5. t \in Tokens /\ cb \in CbTypes /\ a \in Apps
    BY <1>4 DEF KeptTokens
  <1>6. <<t, cb, a>> \in NotifiersOf(t) <=> NoteIn(callbackMap, t, cb) = a
    <2>1. CASE HasEntry(t)
      <3>1. NotifiersOf(t) = {<<t, c, callbackMap[t][c]>> : c \in CbTypes}
        BY <2>1 DEF NotifiersOf
      <3>2. NoteIn(callbackMap, t, cb) = callbackMap[t][cb]
        BY <2>1 DEF HasEntry, NoteIn
      <3>3. QED
        BY <1>5, <3>1, <3>2
    <2>2. CASE ~HasEntry(t)
      BY <1>5, <2>2, Zeros DEF HasEntry, NoteIn, NotifiersOf
    <2>3. QED
      BY <2>1, <2>2
  <1>7. \/ <<t, cb, a>> \in NotifiersOf(t) /\ EraseEntry(t) /\ running' = d
        \/ <<t, cb, a>> \notin NotifiersOf(t) /\ UNCHANGED callbacks
    BY <1>2, <1>3
  <1>8. QED
    BY <1>2, <1>3, <1>4, <1>6, <1>7 DEF Forgets

LEMMA NextWatchedAlive ==
    ASSUME TypeInv, KeptTokens, WatchedThere, WatchedAlive, [Next]_vars, ~Restart
    PROVE  WatchedAlive'
  <1>1. SUFFICES ASSUME NEW t, NEW cb, NEW a, <<t, cb, a>> \in watched'
                 PROVE  a \in alive' \/ Reported(t, cb, a)'
    BY DEF WatchedAlive
  <1>2. CASE <<t, cb, a>> \notin watched
    <2>1. a \in alive
      <3>1. ASSUME NEW th \in Threads, RegisterDeviceSelectionCallback(th) PROVE a \in alive
        <4>1. PICK u, b, c : u = pc[th].tok /\ b = pc[th].cb /\ c = pc[th].app
          OBVIOUS
        <4>2. RegisterSets(th, u, b, c)
          BY <3>1, <4>1, RegistersAt
        <4>3. QED
          BY <1>1, <1>2, <4>2 DEF RegisterSets
      <3>2. ASSUME NEW th \in Threads, UnregisterDeviceSelectionCallback(th) PROVE FALSE
        <4>1. PICK u, b, c : u = pc[th].tok /\ b = pc[th].cb /\ c = pc[th].app
          OBVIOUS
        <4>2. UnregisterSets(th, u, b, c)
          BY <3>2, <4>1, UnregistersAt
        <4>3. watched' \subseteq watched
          BY <4>2 DEF UnregisterSets, EraseEntry, callbacks
        <4>4. QED
          BY <1>1, <1>2, <4>3
      <3>3. ~UNCHANGED callbacks
        BY <1>1, <1>2 DEF callbacks
      <3>4. ASSUME NEW th \in Threads, UnregisterErasesEntry(th) PROVE FALSE
        BY <1>1, <1>2, <3>4 DEF UnregisterErasesEntry, EraseEntry
      <3>5. ~HandlerForgetsNotifier
        BY <1>1, <1>2 DEF HandlerForgetsNotifier, EraseEntry, callbacks
      <3>6. QED
        BY <3>1, <3>2, <3>3, <3>4, <3>5, EntrySteps
    <2>2. UNCHANGED alive
      <3>1. ~AppDies
        BY <1>1, <1>2 DEF AppDies, callbacks
      <3>2. QED
        BY <3>1, AliveSteps
    <2>3. QED
      BY <2>1, <2>2
  <1>3. CASE <<t, cb, a>> \in watched
    <2>1. NoteIn(callbackMap, t, cb) = a /\ (a \in alive \/ Reported(t, cb, a))
      BY <1>3 DEF WatchedThere, WatchedAlive
    <2>2. t \in Tokens /\ cb \in CbTypes /\ a \in Apps
      BY <1>3, EntryOwns
    <2>3. CASE AppDies
      <3>1. PICK b \in alive : /\ alive' = alive \ {b} /\ UNCHANGED queue
                               /\ deaths' = deaths \union {n \in watched : n[3] = b}
        BY <2>3 DEF AppDies, tasks
      <3>2. PICK n : n = <<t, cb, a>>
        OBVIOUS
      <3>3. n[3] = a
        BY <3>2
      <3>4. a = b => <<t, cb, a>> \in deaths'
        BY <1>3, <3>1, <3>2, <3>3
      <3>5. QED
        BY <2>1, <3>1, <3>4 DEF Reported
    <2>4. CASE ProcessNotifierDied
      <3>1. UNCHANGED alive
        BY <2>4 DEF ProcessNotifierDied
      <3>2. PICK u \in Toks, c \in CbTypes, b \in Apps :
              /\ <<u, c, b>> \in deaths /\ deaths' = deaths \ {<<u, c, b>>}
              /\ \/ /\ \A v, x, y : DiedIn(queue', v, x, y) <=>
                          DiedIn(queue, v, x, y) \/ (v = u /\ x = c /\ y = b)
                    /\ noticed' = noticed \union {u}
                 \/ <<u, c, b>> \notin watched /\ UNCHANGED <<queue, noticed>>
        BY <2>4, ReportsAt
      <3>3. Reported(t, cb, a) => Reported(t, cb, a)'
        <4>1. CASE <<u, c, b>> \notin watched /\ UNCHANGED queue
          <5>1. <<t, cb, a>> # <<u, c, b>>
            BY <1>3, <4>1
          <5>2. QED
            BY <3>2, <4>1, <5>1 DEF Reported
        <4>2. CASE \A v, x, y : DiedIn(queue', v, x, y) <=>
                          DiedIn(queue, v, x, y) \/ (v = u /\ x = c /\ y = b)
          BY <3>2, <4>2 DEF Reported
        <4>3. QED
          BY <3>2, <4>1, <4>2
      <3>4. QED
        BY <2>1, <3>1, <3>3
    <2>5. CASE ~AppDies /\ ~ProcessNotifierDied
      <3>1. UNCHANGED <<alive, deaths>>
        BY <2>5, AliveSteps
      <3>2. CASE DiedIn(queue', t, cb, a) \/ ~DiedIn(queue, t, cb, a)
        BY <2>1, <3>1, <3>2 DEF Reported
      <3>3. CASE HandlerForgetsNotifier /\ IsDied(Head(queue), t, cb, a)
        <4>1. Forgets(t, cb, a)
          BY <3>3, ForgetsAt
        <4>2. EraseEntry(t)
          BY <2>1, <4>1 DEF Forgets
        <4>3. <<t, cb, a>> \notin watched'
          BY <2>1, <2>2, <4>2, ErasesAt
        <4>4. QED
          BY <1>1, <4>3
      <3>4. QED
        BY <2>5, <3>2, <3>3, DiedSteps
    <2>6. QED
      BY <2>3, <2>4, <2>5
  <1>4. QED
    BY <1>2, <1>3

LEMMA TokenGone ==
    ASSUME MapType, OneOwner, NEW t, EraseToken(t)
    PROVE  \A a \in Apps : ~Holds(a, t)'
  BY ErasesAll, OneHolds DEF Holds

(* The token of one that died stays so, unless it is given again. *)
LEMMA DoomedKept ==
    ASSUME TypeInv, MapType, OneOwner, [Next]_vars, ~Restart, NEW t, Doomed(t),
           \A th \in Threads : RegisterAppends(th) => t # NextToken
    PROVE  Doomed(t)'
  <1>1. CASE \A a \in Apps : ~Holds(a, t)
    BY <1>1, HoldsBefore DEF Doomed
  <1>2. CASE running.kind = "died" /\ running.tok = t
    <2>1. CASE HandlerForgetsToken
      <3>1. EraseToken(t)
        BY <1>2, <2>1 DEF HandlerForgetsToken, EraseToken, Emptied, Without
      <3>2. QED
        BY <3>1, TokenGone DEF Doomed
    <2>2. CASE Handler /\ ~HandlerForgetsToken
      <3>1. Nothing.kind = "none"
        BY DEF Nothing, Task
      <3>2. UNCHANGED running
        BY <1>2, <2>2, <3>1 DEF Handler, HandlerStarts, HandlerUpdates, HandlerTells, HandlerDisconnects,
              HandlerForgetsConnection, HandlerForgetsNotifier, UsesNull, Takes, tasks
      <3>3. QED
        BY <1>2, <3>2 DEF Doomed
    <2>3. ASSUME NEW th \in Threads, CallSteps(th) PROVE UNCHANGED running
      BY <2>3 DEF CallSteps, RegisterCounts, RegisterAppends, CheckToken, CheckEntry, Checks,
           UnregisterErasesEntry, UnregisterErasesToken, RegisterDeviceSelectionCallback,
           UnregisterDeviceSelectionCallback, UpdateKeeps, UpdateSends, UsesNull, StartPosts,
           ConnectAbility, AmsConnectAbility, PanelCloses, PanelTells, tasks
    <2>4. CASE AmsConnectDone \/ AmsDisconnectDone \/ AppDies \/ ProcessNotifierDied
               \/ UNCHANGED vars \/ \E th \in Threads : Calls(th)
      <3>1. UNCHANGED running
        BY <2>4 DEF AmsConnectDone, AmsDisconnectDone, AppDies, ProcessNotifierDied, Calls, Enters, vars, tasks
      <3>2. QED
        BY <1>2, <3>1 DEF Doomed
    <2>5. CASE \E th \in Threads : CallSteps(th)
      BY <1>2, <2>3, <2>5 DEF Doomed
    <2>6. QED
      BY <2>1, <2>2, <2>4, <2>5 DEF Next
  <1>3. ASSUME NEW x \in Threads, pc[x].at = "erase token", pc[x].tok = t PROVE Doomed(t)'
    <2>1. CASE SameCall(x)
      BY <1>3, <2>1 DEF SameCall, Doomed
    <2>2. CASE CallSteps(x)
      <3>1. UnregisterErasesToken(x)
        BY <1>3, <2>2, CallGoesOn
      <3>2. EraseToken(t)
        <4>1. PICK u : u = pc[x].tok
          OBVIOUS
        <4>2. EraseToken(u)
          BY <3>1, <4>1 DEF UnregisterErasesToken
        <4>3. QED
          BY <1>3, <4>1, <4>2
      <3>3. QED
        BY <3>2, TokenGone DEF Doomed
    <2>3. ~Calls(x)
      <3>1. Idle.at = "none"
        BY DEF Idle
      <3>2. QED
        BY <1>3, <3>1, CallBegins
    <2>4. QED
      BY <2>1, <2>2, <2>3, OthersStay
  <1>4. QED
    BY <1>1, <1>2, <1>3 DEF Doomed

(* The notifier of one that died stays in its entry until its token is doomed. *)
LEMMA DeadNote ==
    ASSUME TypeInv, GivesInv, KeptTokens, OneOwner, [Next]_vars, ~Restart, Clean',
           NEW t \in Tokens, NEW cb \in CbTypes, NEW a \in Apps, a \notin alive, NoteIn(callbackMap, t, cb) = a
    PROVE  NoteIn(callbackMap', t, cb) = a \/ Doomed(t)'
  <1>1. Owns(t, a)
    BY DEF Owns
  <1>2. CASE UNCHANGED callbacks
    BY <1>2 DEF callbacks
  <1>3. ASSUME NEW u, EraseEntry(u), u # t PROVE NoteIn(callbackMap', t, cb) = a
    <2>1. \A v, d : v # u => NoteIn(callbackMap', v, d) = NoteIn(callbackMap, v, d)
      BY <1>3, ErasesAt
    <2>2. QED
      BY <1>3, <2>1
  <1>4. ASSUME NEW th \in Threads, RegisterDeviceSelectionCallback(th)
        PROVE  NoteIn(callbackMap', t, cb) = a
    <2>1. PICK u, b, c : u = pc[th].tok /\ b = pc[th].cb /\ c = pc[th].app
      OBVIOUS
    <2>2. RegisterSets(th, u, b, c)
      BY <1>4, <2>1, RegistersAt
    <2>3. CASE u # t \/ b # cb
      BY <2>2, <2>3 DEF RegisterSets, NotesAt
    <2>4. CASE u = t /\ b = cb
      <3>1. c \in Apps /\ Owns(t, c)
        BY <2>1, <2>2, <2>4, CallOwns DEF RegisterSets
      <3>2. c = a
        BY <1>1, <3>1 DEF OneOwner
      <3>3. QED
        BY <2>2, <2>4, <3>2 DEF RegisterSets, NotesAt
    <2>5. QED
      BY <2>3, <2>4
  <1>5. ASSUME NEW th \in Threads, UnregisterDeviceSelectionCallback(th)
        PROVE  NoteIn(callbackMap', t, cb) = a
    <2>1. PICK u, b, c : u = pc[th].tok /\ b = pc[th].cb /\ c = pc[th].app
      OBVIOUS
    <2>2. UnregisterSets(th, u, b, c)
      BY <1>5, <2>1, UnregistersAt
    <2>3. u # t
      <3>1. SUFFICES ASSUME u = t PROVE FALSE
        OBVIOUS
      <3>2. c \in Apps /\ Owns(t, c)
        BY <2>1, <2>2, <3>1, CallOwns DEF UnregisterSets
      <3>3. c = a
        BY <1>1, <3>2 DEF OneOwner
      <3>4. QED
        BY <2>2, <3>3 DEF UnregisterSets, Clean
    <2>4. CASE NotesAt(u, b, NoApp)
      BY <2>3, <2>4 DEF NotesAt
    <2>5. CASE EraseEntry(u)
      BY <1>3, <2>3, <2>5
    <2>6. CASE UNCHANGED callbacks
      BY <2>6 DEF callbacks
    <2>7. QED
      BY <2>2, <2>4, <2>5, <2>6 DEF UnregisterSets
  <1>6. ASSUME NEW th \in Threads, UnregisterErasesEntry(th)
        PROVE  NoteIn(callbackMap', t, cb) = a \/ Doomed(t)'
    <2>1. PICK u : u = pc[th].tok
      OBVIOUS
    <2>2. EraseEntry(u)
      BY <1>6, <2>1 DEF UnregisterErasesEntry
    <2>3. pc'[th].at = "erase token" /\ pc'[th].tok = u
      BY <1>6, <2>1, CallGoesOn DEF CallSteps
    <2>4. CASE u = t
      BY <2>3, <2>4 DEF Doomed
    <2>5. QED
      BY <1>3, <2>2, <2>4
  <1>7. CASE HandlerForgetsNotifier
    <2>1. PICK u, d, c : u = Head(queue).tok /\ d = Head(queue).cb /\ c = Head(queue).app
      OBVIOUS
    <2>2. Forgets(u, d, c)
      <3>1. Head(queue).kind = "died"
        BY <1>7 DEF HandlerForgetsNotifier, Takes
      <3>2. IsDied(Head(queue), u, d, c)
        BY <2>1, <3>1 DEF IsDied
      <3>3. QED
        BY <1>7, <3>2, ForgetsAt
    <2>3. CASE UNCHANGED callbacks
      BY <2>3 DEF callbacks
    <2>4. CASE EraseEntry(u) /\ running'.kind = "died" /\ running'.tok = u
      <3>1. CASE u = t
        BY <2>4, <3>1 DEF Doomed
      <3>2. QED
        BY <1>3, <2>4, <3>1
    <2>5. QED
      BY <2>2, <2>3, <2>4 DEF Forgets
  <1>8. QED
    BY <1>2, <1>4, <1>5, <1>6, <1>7, EntrySteps

LEMMA ReportedOwns ==
    ASSUME TypeInv, KeptTokens, NEW t, NEW cb, NEW a, Reported(t, cb, a)
    PROVE  t \in Tokens /\ cb \in CbTypes /\ a \in Apps /\ Owns(t, a)
  <1>1. t \in Tokens /\ cb \in CbTypes /\ a \in Apps
    BY EntryOwns DEF Reported, KeptTokens
  <1>2. QED
    BY <1>1 DEF Owns

LEMMA AliveShrinks == ASSUME [Next]_vars PROVE alive' \subseteq alive
  BY AliveSteps DEF AppDies

LEMMA NextDeadDoomed ==
    ASSUME TypeInv, MapType, GivesInv, KeptTokens, OneOwner, WatchedThere, DeadDoomed,
           [Next]_vars, ~Restart, Clean'
    PROVE  DeadDoomed'
  <1>1. SUFFICES ASSUME NEW t, NEW cb, NEW a, Reported(t, cb, a)'
                 PROVE  (a \notin alive') /\ (NoteIn(callbackMap', t, cb) = a \/ Doomed(t)')
    BY DEF DeadDoomed
  <1>2. CASE Reported(t, cb, a)
    <2>1. a \notin alive /\ (NoteIn(callbackMap, t, cb) = a \/ Doomed(t))
      BY <1>2 DEF DeadDoomed
    <2>2. t \in Tokens /\ cb \in CbTypes /\ a \in Apps /\ Owns(t, a)
      BY <1>2, ReportedOwns
    <2>3. \A th \in Threads : RegisterAppends(th) => t # NextToken
      BY <2>2, FreshToken DEF Fresh
    <2>4. NoteIn(callbackMap, t, cb) = a => NoteIn(callbackMap', t, cb) = a \/ Doomed(t)'
      BY <2>1, <2>2, DeadNote
    <2>5. Doomed(t) => Doomed(t)'
      BY <2>3, DoomedKept
    <2>6. a \notin alive'
      BY <2>1, AliveShrinks
    <2>7. QED
      BY <2>1, <2>4, <2>5, <2>6
  <1>3. CASE AppDies /\ <<t, cb, a>> \in watched /\ a \notin alive'
    <2>1. UNCHANGED callbackMap
      BY <1>3 DEF AppDies, callbacks
    <2>2. NoteIn(callbackMap, t, cb) = a
      BY <1>3 DEF WatchedThere
    <2>3. QED
      BY <1>3, <2>1, <2>2
  <1>4. QED
    BY <1>1, <1>2, <1>3, ReportedBefore

LEMMA NoticedSteps ==
    ASSUME [Next]_vars, ~Restart, ~ProcessNotifierDied
    PROVE  UNCHANGED noticed \/ \E th \in Threads : RegisterAppends(th)
  <1>1. ASSUME NEW th \in Threads, CallSteps(th), ~RegisterAppends(th) PROVE UNCHANGED noticed
    BY <1>1 DEF CallSteps, RegisterCounts, CheckToken, CheckEntry, Checks,
           UnregisterErasesEntry, UnregisterErasesToken, RegisterDeviceSelectionCallback,
           UnregisterDeviceSelectionCallback, UpdateKeeps, UpdateSends, UsesNull, StartPosts,
           ConnectAbility, AmsConnectAbility, PanelCloses, PanelTells, apps
  <1>2. CASE Handler
    BY <1>2 DEF Handler, HandlerStarts, HandlerUpdates, HandlerTells, HandlerDisconnects,
              HandlerForgetsConnection, HandlerForgetsNotifier, HandlerForgetsToken, UsesNull, apps
  <1>3. CASE AmsConnectDone \/ AmsDisconnectDone \/ AppDies \/ UNCHANGED vars \/ \E th \in Threads : Calls(th)
    BY <1>3 DEF AmsConnectDone, AmsDisconnectDone, AppDies, Calls, Enters, vars, apps
  <1>4. QED
    BY <1>1, <1>2, <1>3 DEF Next

LEMMA NextNoticed ==
    ASSUME TypeInv, MapType, GivesInv, KeptTokens, OneOwner, DeadDoomed, NoticedDoomed,
           [Next]_vars, ~Restart, Clean'
    PROVE  NoticedDoomed'
  <1>1. SUFFICES ASSUME NEW t \in noticed' PROVE Doomed(t)' \/ \E cb, a : DiedIn(queue', t, cb, a)
    BY DEF NoticedDoomed
  <1>2. CASE ProcessNotifierDied
    <2>1. PICK u \in Toks, c \in CbTypes, b \in Apps :
            /\ <<u, c, b>> \in deaths /\ deaths' = deaths \ {<<u, c, b>>}
            /\ \/ /\ \A v, x, y : DiedIn(queue', v, x, y) <=>
                        DiedIn(queue, v, x, y) \/ (v = u /\ x = c /\ y = b)
                  /\ noticed' = noticed \union {u}
               \/ <<u, c, b>> \notin watched /\ UNCHANGED <<queue, noticed>>
      BY <1>2, ReportsAt
    <2>2. ~\E th \in Threads : RegisterAppends(th)
      <3>1. ASSUME NEW th \in Threads, RegisterAppends(th) PROVE FALSE
        <4>1. UNCHANGED deaths
          BY <3>1 DEF RegisterAppends
        <4>2. QED
          BY <2>1, <4>1
      <3>2. QED
        BY <3>1
    <2>3. CASE t \in noticed
      <3>1. Doomed(t) \/ \E cb, a : DiedIn(queue, t, cb, a)
        BY <2>3 DEF NoticedDoomed
      <3>2. Doomed(t) => Doomed(t)'
        BY <2>2, DoomedKept
      <3>3. ASSUME NEW cb, NEW a, DiedIn(queue, t, cb, a) PROVE DiedIn(queue', t, cb, a)
        BY <2>1, <3>3
      <3>4. QED
        BY <3>1, <3>2, <3>3
    <2>4. CASE t \notin noticed
      <3>1. t = u /\ DiedIn(queue', u, c, b)
        BY <1>1, <2>1, <2>4
      <3>2. QED
        BY <3>1
    <2>5. QED
      BY <2>3, <2>4
  <1>3. CASE ~ProcessNotifierDied
    <2>1. t \in noticed /\ \A th \in Threads : RegisterAppends(th) => t # NextToken
      <3>1. ASSUME NEW th \in Threads, RegisterAppends(th) PROVE t \in noticed /\ t # NextToken
        <4>1. PICK u : u = NextToken
          OBVIOUS
        <4>2. noticed' = noticed \ {u}
          BY <3>1, <4>1, FreshToken DEF Fresh
        <4>3. QED
          BY <1>1, <4>1, <4>2
      <3>2. CASE UNCHANGED noticed
        BY <1>1, <3>1, <3>2
      <3>3. QED
        BY <1>3, <3>1, <3>2, NoticedSteps
    <2>2. Doomed(t) => Doomed(t)'
      BY <2>1, DoomedKept
    <2>3. ASSUME NEW cb, NEW a, DiedIn(queue, t, cb, a) PROVE Doomed(t)' \/ DiedIn(queue', t, cb, a)
      <3>1. CASE DiedIn(queue', t, cb, a)
        BY <3>1
      <3>2. CASE HandlerForgetsNotifier /\ IsDied(Head(queue), t, cb, a)
        <4>1. Forgets(t, cb, a)
          BY <3>2, ForgetsAt
        <4>2. CASE running'.kind = "died" /\ running'.tok = t
          BY <4>2 DEF Doomed
        <4>3. CASE NoteIn(callbackMap, t, cb) # a
          <5>1. Reported(t, cb, a)
            BY <2>3 DEF Reported
          <5>2. Doomed(t)
            BY <4>3, <5>1 DEF DeadDoomed
          <5>3. QED
            BY <2>2, <5>2
        <4>4. QED
          BY <4>1, <4>2, <4>3 DEF Forgets
      <3>3. QED
        BY <1>3, <2>3, <3>1, <3>2, DiedSteps
    <2>4. QED
      BY <2>1, <2>2, <2>3 DEF NoticedDoomed
  <1>4. QED
    BY <1>2, <1>3

(* A process that started anew knows nothing. *)
LEMMA RestartDead == ASSUME Restart PROVE DeadInv'
  <1>1. /\ tokenMap' = [a \in Apps |-> << >>] /\ callbackMap' = << >> /\ watched' = {}
        /\ queue' = << >> /\ deaths' = {} /\ noticed' = {}
        /\ pc' = [th \in Threads |-> Idle]
    BY DEF Restart
  <1>2. \A t, cb, a : ~Reported(t, cb, a)'
    BY <1>1, EmptySeq DEF Reported, DiedIn
  <1>3. \A t : \A a \in Apps : ~Holds(a, t)'
    <2>1. PICK s : s = << >>
      OBVIOUS
    <2>2. DOMAIN s = {}
      BY <2>1
    <2>3. ToSet(s) = {}
      BY <2>2 DEF ToSet
    <2>4. QED
      BY <1>1, <2>1, <2>3 DEF Holds
  <1>4. \A t, cb : NoteIn(callbackMap', t, cb) = NoApp
    BY <1>1 DEF NoteIn
  <1>5. \A th \in Threads : pc'[th].app = NoApp
    BY <1>1 DEF Idle
  <1>6. \A t : \A a \in Apps : ~Owns(t, a)'
    BY <1>2, <1>3, <1>4, <1>5, Zeros DEF Owns
  <1>7. QED
    BY <1>1, <1>2, <1>6 DEF DeadInv, OneOwner, WatchedThere, WatchedAlive, EntryWatched, DeadDoomed, NoticedDoomed

LEMMA NextDead ==
    ASSUME TypeInv, MapType, GivesInv, KeptTokens, DeadInv, [Next]_vars
    PROVE  DeadInv'
  <1>1. CASE Restart
    BY <1>1, RestartDead
  <1>2. CASE ~Restart
    <2>1. SUFFICES ASSUME Clean'
                   PROVE  /\ OneOwner' /\ WatchedThere' /\ WatchedAlive' /\ EntryWatched'
                          /\ DeadDoomed' /\ NoticedDoomed'
      BY DEF DeadInv
    <2>2. Clean
      BY <1>2, <2>1, RacesStay DEF Clean
    <2>3. OneOwner /\ WatchedThere /\ WatchedAlive /\ EntryWatched /\ DeadDoomed /\ NoticedDoomed
      BY <2>2 DEF DeadInv
    <2>4. OneOwner' /\ WatchedThere' /\ WatchedAlive'
      BY <1>2, <2>1, <2>3, NextOwner, NextWatchedThere, NextWatchedAlive
    <2>5. EntryWatched' /\ DeadDoomed' /\ NoticedDoomed'
      BY <1>2, <2>1, <2>3, NextEntryWatched, NextDeadDoomed, NextNoticed
    <2>6. QED
      BY <2>4, <2>5
  <1>3. QED
    BY <1>1, <1>2

(* At first each application that is ready has its own token, and a notifier of it is watched. *)
LEMMA InitDead == Init => MapType /\ KeptTokens /\ DeadInv
  <1>1. SUFFICES ASSUME Init PROVE MapType /\ KeptTokens /\ DeadInv
    OBVIOUS
  <1> DEFINE n == Cardinality(Prepared)
             A(t) == CHOOSE b \in Prepared : Nth[b] = t
             First(a) == IF "connect" \in Ready[a] THEN "connect" ELSE "disconnect"
  <1>2. n \in Nat /\ n <= MAX_TOKEN_NUM /\ MAX_TOKEN_NUM \in Nat
    BY PreparedFinite, BoundsAssumption
  <1>3. 1 .. n \subseteq Tokens /\ NoToken \notin 1 .. n
    BY <1>2 DEF Tokens, NoToken
  <1>4. /\ tokenMap = [a \in Apps |-> IF a \in Prepared THEN <<Nth[a]>> ELSE << >>]
        /\ callbackMap = [t \in 1 .. n |-> [cb \in CbTypes |-> IF cb \in Ready[A(t)] THEN A(t) ELSE NoApp]]
        /\ watched = {<<Nth[a], First(a), a>> : a \in Prepared}
    BY <1>1 DEF Init, Prepared, Nth, Upto
  <1>5. /\ alive = Apps /\ deaths = {} /\ noticed = {} /\ queue = << >>
        /\ pc = [th \in Threads |-> Idle]
    BY <1>1 DEF Init
  <1>6. \A a \in Prepared : /\ a \in Apps /\ a # NoApp /\ Nth[a] \in 1 .. n /\ A(Nth[a]) = a
                            /\ First(a) \in Ready[a] /\ First(a) \in CbTypes
    <2>1. SUFFICES ASSUME NEW a \in Prepared
                   PROVE  /\ a \in Apps /\ a # NoApp /\ Nth[a] \in 1 .. n /\ A(Nth[a]) = a
                          /\ First(a) \in Ready[a] /\ First(a) \in CbTypes
      OBVIOUS
    <2>2. a \in Apps /\ a # NoApp /\ Nth[a] \in 1 .. n
      BY Zeros, NthType DEF Prepared
    <2>3. A(Nth[a]) = a
      BY NthApart
    <2>4. PICK R \in SUBSET CbTypes : R = Ready[a] /\ R # {}
      BY <2>2, ReadyAssumption DEF Prepared
    <2>5. First(a) \in R
      BY <2>4 DEF CbTypes
    <2>6. QED
      BY <2>2, <2>3, <2>4, <2>5
  <1>7. \A t \in 1 .. n : A(t) \in Prepared /\ Nth[A(t)] = t
    BY NthOnto
  <1>8. MapType
    <2>1. \A t \in Tokens : <<t>> \in Seq(Tokens)
      OBVIOUS
    <2>2. << >> \in Seq(Tokens)
      OBVIOUS
    <2>3. QED
      BY <1>3, <1>4, <1>6, <2>1, <2>2 DEF MapType
  <1> HIDE DEF A, First
  <1>9. \A t, cb, a : ~DiedIn(queue, t, cb, a)
    BY <1>5, EmptySeq DEF DiedIn
  <1>10. KeptTokens
    <2>1. \A x \in watched : x[1] # NoToken
      BY <1>3, <1>4, <1>6
    <2>2. QED
      BY <1>3, <1>4, <1>5, <1>9, <2>1 DEF KeptTokens
  <1>11. \A t, cb, a : ~Reported(t, cb, a)
    BY <1>5, <1>9 DEF Reported
  <1>12. ASSUME NEW t, NEW a \in Apps, Owns(t, a) PROVE a \in Prepared /\ Nth[a] = t
    <2>1. CASE Holds(a, t)
      <3>1. CASE a \in Prepared
        <4>1. tokenMap[a] = <<Nth[a]>>
          BY <1>4, <3>1
        <4>2. PICK x : x = Nth[a]
          OBVIOUS
        <4>3. t \in ToSet(<<x>>)
          BY <2>1, <4>1, <4>2 DEF Holds
        <4>4. DOMAIN <<x>> = {1} /\ <<x>>[1] = x
          OBVIOUS
        <4>5. t = x
          BY <4>3, <4>4 DEF ToSet
        <4>6. QED
          BY <3>1, <4>2, <4>5
      <3>2. CASE a \notin Prepared
        <4>1. PICK s : s = << >>
          OBVIOUS
        <4>2. DOMAIN s = {}
          BY <4>1
        <4>3. tokenMap[a] = s
          BY <1>4, <3>2, <4>1
        <4>4. QED
          BY <2>1, <4>2, <4>3 DEF Holds, ToSet
      <3>3. QED
        BY <3>1, <3>2
    <2>2. ASSUME NEW cb \in CbTypes, NoteIn(callbackMap, t, cb) = a PROVE a \in Prepared /\ Nth[a] = t
      <3>1. a # NoApp
        BY Zeros
      <3>2. t \in 1 .. n /\ callbackMap[t][cb] = a
        BY <1>4, <2>2, <3>1 DEF NoteIn
      <3>3. a = A(t)
        BY <1>4, <3>1, <3>2
      <3>4. QED
        BY <1>7, <3>2, <3>3
    <2>3. \A th \in Threads : pc[th].app # a
      BY <1>5, Zeros DEF Idle
    <2>4. QED
      BY <1>11, <1>12, <2>1, <2>2, <2>3 DEF Owns
  <1>13. OneOwner
    BY <1>12, NthApart DEF OneOwner
  <1>14. WatchedThere
    <2>1. SUFFICES ASSUME NEW t, NEW cb, NEW a, <<t, cb, a>> \in watched PROVE NoteIn(callbackMap, t, cb) = a
      BY DEF WatchedThere
    <2>2. a \in Prepared /\ t = Nth[a] /\ cb = First(a)
      BY <1>4, <2>1
    <2>3. t \in 1 .. n /\ A(t) = a /\ cb \in Ready[a] /\ cb \in CbTypes
      BY <1>6, <2>2
    <2>4. QED
      BY <1>4, <2>3 DEF NoteIn
  <1>15. WatchedAlive
    BY <1>1, <1>5, InitType, EntryOwns, <1>10 DEF WatchedAlive
  <1>16. EntryWatched
    <2>1. SUFFICES ASSUME NEW t \in DOMAIN callbackMap PROVE \E x \in watched : x[1] = t
      BY DEF EntryWatched
    <2>2. PICK a \in Prepared : Nth[a] = t
      BY <1>4, <2>1, NthOnto
    <2>3. <<t, First(a), a>> \in watched
      BY <1>4, <2>2
    <2>4. QED
      BY <2>3
  <1>17. QED
    BY <1>5, <1>8, <1>10, <1>11, <1>13, <1>14, <1>15, <1>16 DEF DeadInv, DeadDoomed, NoticedDoomed

(* The reason a process ended is one of three. *)
DownType == down \in {"no", "entry", "proxy", "notifier"}

LEMMA NextDownType == DownType /\ [Next]_vars => DownType'
  <1>1. ASSUME NEW th \in Threads, CallSteps(th)
        PROVE  UNCHANGED down \/ down' \in {"entry", "proxy", "notifier"}
    BY <1>1 DEF CallSteps, RegisterCounts, RegisterAppends, CheckToken, CheckEntry, Checks,
           UnregisterErasesEntry, UnregisterErasesToken, RegisterDeviceSelectionCallback,
           UnregisterDeviceSelectionCallback, UpdateKeeps, UpdateSends, UsesNull, StartPosts,
           ConnectAbility, AmsConnectAbility, PanelCloses, PanelTells
  <1>2. CASE Handler
    BY <1>2 DEF Handler, HandlerStarts, HandlerUpdates, HandlerTells, HandlerDisconnects,
              HandlerForgetsConnection, HandlerForgetsNotifier, HandlerForgetsToken, UsesNull, DownType
  <1>3. CASE AmsConnectDone \/ AmsDisconnectDone \/ AppDies \/ ProcessNotifierDied \/ Restart
             \/ UNCHANGED vars \/ \E th \in Threads : Calls(th)
    BY <1>3 DEF AmsConnectDone, AmsDisconnectDone, AppDies, ProcessNotifierDied, Restart, Calls, Enters, vars,
              DownType
  <1>4. CASE \E th \in Threads : CallSteps(th)
    BY <1>1, <1>4 DEF DownType
  <1>5. QED
    BY <1>2, <1>3, <1>4 DEF Next

LEMMA TypesOK ==
    ASSUME TypeInv, MapType, GivenInv, StubsInv, ProxyKnown, KeptTokens, DownType
    PROVE  TypeOK
  <1>1. token \in 0 .. MAX_TOKEN_NUM
    BY DEF TypeInv, TokensType, Toks
  <1>2. given \in [Apps -> SUBSET Tokens]
    <2>1. given \in [Apps -> SUBSET Toks] /\ \A a \in Apps : NoToken \notin given[a]
      BY DEF TypeInv, TokensType, GivenInv
    <2>2. \A a \in Apps : given[a] \in SUBSET Tokens
      BY <2>1, TokIs
    <2>3. QED
      BY <2>1, <2>2
  <1>3. DOMAIN callbackMap \subseteq Tokens
    BY TokIs DEF TypeInv, EntriesType, KeptTokens
  <1>4. \A t \in DOMAIN callbackMap : callbackMap[t] \in [CbTypes -> Apps \union {NoApp}]
    BY DEF TypeInv, EntriesType, Entries
  <1>5. watched \union deaths \subseteq Tokens \X CbTypes \X Apps
    <2>1. SUFFICES ASSUME NEW x \in watched \union deaths PROVE x \in Tokens \X CbTypes \X Apps
      OBVIOUS
    <2>2. PICK t \in Toks, cb \in CbTypes, a \in Apps : x = <<t, cb, a>>
      BY <2>1 DEF TypeInv, AppsType, Notifiers
    <2>3. t \in Tokens
      BY <2>1, <2>2, EntryOwns
    <2>4. QED
      BY <2>2, <2>3
  <1>6. alive \subseteq Apps
    BY DEF TypeInv, AppsType
  <1>7. QED
    BY <1>1, <1>2, <1>3, <1>4, <1>5, <1>6 DEF TypeOK, MapType, StubsInv, ProxyKnown, DownType

LEMMA DeadInvForgotten ==
    ASSUME TypeInv, KeptTokens, DeadInv, AtRest, Clean
    PROVE  /\ \A n \in watched : n[3] \in alive
           /\ \A t \in noticed : \A a \in Apps \ alive : t \notin ToSet(tokenMap[a])
           /\ "unwatched" \notin races => \A t \in DOMAIN callbackMap : NotifiersOf(t) \intersect watched # {}
  <1>1. WatchedThere /\ WatchedAlive /\ EntryWatched /\ NoticedDoomed
    BY DEF DeadInv
  <1>2. queue = << >> /\ deaths = {} /\ running = Nothing /\ \A th \in Threads : pc[th] = Idle
    BY DEF AtRest
  <1>3. \A t, cb, a : ~DiedIn(queue, t, cb, a)
    <2>1. Len(queue) = 0
      BY <1>2
    <2>2. QED
      BY <2>1 DEF DiedIn
  <1>4. \A t, cb, a : ~Reported(t, cb, a)
    BY <1>2, <1>3 DEF Reported
  <1>5. \A n \in watched : n[3] \in alive
    <2>1. SUFFICES ASSUME NEW n \in watched PROVE n[3] \in alive
      OBVIOUS
    <2>2. PICK t \in Toks, cb \in CbTypes, a \in Apps : n = <<t, cb, a>>
      BY <2>1 DEF TypeInv, AppsType, Notifiers
    <2>3. a \in alive
      BY <1>1, <1>4, <2>2 DEF WatchedAlive
    <2>4. QED
      BY <2>2, <2>3
  <1>6. \A t \in noticed : \A a \in Apps : ~Holds(a, t)
    <2>1. Nothing.kind = "none" /\ Idle.at = "none"
      BY DEF Nothing, Task, Idle
    <2>2. running.kind # "died" /\ \A th \in Threads : pc[th].at # "erase token"
      BY <1>2, <2>1
    <2>3. QED
      BY <1>1, <1>3, <2>2 DEF NoticedDoomed, Doomed
  <1>7. ASSUME "unwatched" \notin races, NEW u \in DOMAIN callbackMap
        PROVE  NotifiersOf(u) \intersect watched # {}
    <2>1. PICK n \in watched : n[1] = u
      BY <1>1, <1>7 DEF EntryWatched
    <2>2. PICK t \in Toks, cb \in CbTypes, a \in Apps : n = <<t, cb, a>>
      BY <2>1 DEF TypeInv, AppsType, Notifiers
    <2>3. t = u
      BY <2>1, <2>2
    <2>4. NoteIn(callbackMap, u, cb) = a
      BY <1>1, <2>1, <2>2, <2>3 DEF WatchedThere
    <2>5. callbackMap[u][cb] = a
      BY <1>7, <2>4 DEF NoteIn
    <2>6. n \in NotifiersOf(u)
      BY <1>7, <2>2, <2>3, <2>5 DEF NotifiersOf, HasEntry
    <2>7. QED
      BY <2>1, <2>6
  <1>8. \A t \in noticed : \A a \in Apps \ alive : t \notin ToSet(tokenMap[a])
    BY <1>6 DEF Holds
  <1>9. QED
    BY <1>5, <1>7, <1>8

(* An application that died is forgotten: once all is done neither a notifier of it that was *)
(* watched nor its token is left, and every entry has a notifier that is watched; but for       *)
(* the three races DeadAppForgotten names.                                                        *)
THEOREM DeadForgottenCorrect == Spec => []DeadAppForgotten
  <1> DEFINE Inv == /\ TypeInv /\ PanelInv /\ MapType /\ KeptTokens /\ DeadInv /\ DownType
  <1>1. Init => Inv
    <2>1. Init => DownType
      BY DEF Init, DownType
    <2>2. QED
      BY <2>1, InitType, InitPanel, InitDead
  <1>2. Inv /\ [Next]_vars => Inv'
    <2>1. TypeInv /\ PanelInv /\ [Next]_vars => TypeInv' /\ PanelInv'
      BY NextType, NextGives, NextGiven, NextStubs, NextOneBound, NextProxy, NextAskedDue DEF PanelInv
    <2>2. QED
      BY <2>1, NextMap, NextKeptTokens, NextDead, NextDownType DEF PanelInv
  <1>3. Inv => DeadAppForgotten
    BY TypesOK, DeadInvForgotten DEF PanelInv, DeadAppForgotten, Clean
  <1> HIDE DEF Inv
  <1>4. QED
    BY <1>1, <1>2, <1>3, PTL DEF Spec
=============================================================================
