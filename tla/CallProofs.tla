----------------------------- MODULE CallProofs -----------------------------
(***************************************************************************)
(* The component calls its forwarder only as Forwarder assumes, for any    *)
(* nodes and any number of goroutines that call hooks.                     *)
(***************************************************************************)
EXTENDS ComponentProofs

\* What Forwarder sees of the callers, inside a cluster and outside one.
HookViews == [h \in Hooks |-> CallerView(call[h])]
MainViews == [h \in {Main} |-> MainView]

View(pc, cfg) == [pc |-> pc, cfg |-> cfg, todo |-> {}]

LEMMA Views ==
  ASSUME NEW c
  PROVE  /\ c.pc \in {"idle", "set", "leave"} => CallerView(c) = View("idle", None)
         /\ c.pc = "getconfig" => CallerView(c) = View("getconfig", None)
         /\ c.pc = "config" => CallerView(c) = View("config", c.addr)
         /\ c.pc = "run" => CallerView(c) = View("mark", None)
BY DEF CallerView, View

Locals(pc, a) == [pc |-> pc, addr |-> a]

LEMMA NextViews ==
  ASSUME NEW a
  PROVE  /\ CallerView(Locals("getconfig", None)) = View("getconfig", None)
         /\ CallerView(Locals("config", a)) = View("config", a)
         /\ CallerView(Locals("run", None)) = View("mark", None)
         /\ CallerView(Idle) = View("idle", None)
BY DEF CallerView, View, Idle, Locals

\* A step of one goroutine changes its view only.
LEMMA OneView ==
  ASSUME TypeOK, NEW g \in Hooks, NEW l, call' = [call EXCEPT ![g] = l]
  PROVE  HookViews' = [HookViews EXCEPT ![g] = CallerView(l)] /\ HookViews[g] = CallerView(call[g])
BY DEF TypeOK, HookViews, CallerView

-----------------------------------------------------------------------------
\* New creates it as Forwarder's Init says, about to be connected by Start or
\* by a hook.
LEMMA Created ==
  ASSUME CInv, InitComponent, grpc'
  PROVE  IF gossip' THEN Clustered!Init' ELSE Standalone!Init'
<1>1. /\ config' = setting /\ setting' = setting /\ setting \in Servers /\ ~running /\ ~running'
      /\ phase' \in {"ready", "failed"}
      /\ \A g \in Goroutines : call'[g] = Idle
      /\ ClusteredLoop' = "exited" /\ StandaloneLoop' = "idle"
      /\ StopView' = [pc |-> "idle", key |-> None, conn |-> None, todo |-> {}, inflight |-> {}]
  BY DEF CInv, TypeOK, Lifecycle, InitComponent, StopView, Goroutines, ClusteredLoop, StandaloneLoop
<1>2. running' = FALSE BY <1>1 DEF CInv, TypeOK, InitComponent
<1>3. HookViews' = [h \in Hooks |-> View("idle", None)]
  BY <1>1, Views DEF HookViews, Idle, Goroutines
<1>4. MainViews' = [h \in {Main} |-> View("getconfig", None)]
  BY <1>1, Views DEF MainViews, MainView
<1>5. CASE gossip'
  <2>1. Clustered!Init'
    BY <1>1, <1>2, <1>3 DEF Clustered!Init, Clustered!CallerIdle, Clustered!LoopIdle,
       Clustered!StopIdle, LoopView, HookViews, View
  <2> QED BY <1>5, <2>1
<1>6. CASE ~gossip'
  <2>1. Standalone!Init'
    BY <1>1, <1>2, <1>4 DEF Standalone!Init, Standalone!CallerIdle, Standalone!LoopIdle,
       Standalone!StopIdle, LoopView, MainViews, View
  <2> QED BY <1>6, <2>1
<1> QED BY <1>5, <1>6

-----------------------------------------------------------------------------
(* Inside a cluster.                                                       *)

LEMMA SetBegins ==
  ASSUME CInv, NEW g \in Hooks, HookSet(g)
  PROVE  Clustered!ReConnectBegin(g)
<1>1. call[g].pc = "set" /\ setting' = call[g].addr /\ setting' \in Servers
  BY DEF CInv, TypeOK, CallLocals, HookSet
<1>2. HookViews[g] = View("idle", None) BY <1>1, OneView, Views DEF CInv, HookSet
<1>3. HookViews' = [HookViews EXCEPT ![g] = View("getconfig", None)]
  <2>1. call' = [call EXCEPT ![g] = Locals("getconfig", None)] BY DEF HookSet, Locals
  <2>2. CallerView(Locals("getconfig", None)) = View("getconfig", None) BY NextViews
  <2> QED BY <2>1, <2>2, OneView DEF CInv
<1>4. [HookViews[g] EXCEPT !.pc = "getconfig"] = View("getconfig", None) BY <1>2 DEF View
<1>5. HookViews' = [HookViews EXCEPT ![g].pc = "getconfig"] BY <1>3, <1>4
<1>6. HookViews[g].pc = "idle" BY <1>2 DEF View
<1> QED BY <1>1, <1>5, <1>6 DEF Clustered!ReConnectBegin, HookSet, HookViews

LEMMA LeaveDisconnects ==
  ASSUME CInv, NEW g \in Hooks, HookDisconnect(g)
  PROVE  Clustered!Disconnect(g)
<1>1. call[g].pc = "leave" /\ call' = [call EXCEPT ![g] = Idle] BY DEF HookDisconnect
<1>2. HookViews[g] = View("idle", None) BY <1>1, OneView, Views DEF CInv
<1>3. CallerView(Idle) = View("idle", None) BY NextViews
<1>4. HookViews' = [HookViews EXCEPT ![g] = View("idle", None)] BY <1>1, <1>3, OneView DEF CInv
<1>5. HookViews' = HookViews BY <1>2, <1>4 DEF HookViews
<1>6. HookViews[g].pc = "idle" BY <1>2 DEF View
<1> QED BY <1>5, <1>6 DEF Clustered!Disconnect, HookDisconnect, HookViews

LEMMA HookReConnects ==
  ASSUME CInv, NEW g \in Hooks, ReConnectGetConfig(g) \/ ReConnectConfig(g) \/ ReConnectRun(g)
  PROVE  \/ Clustered!ReConnectGetConfig(g) \/ Clustered!ReConnectConfig(g)
         \/ Clustered!ReConnectRun(g)
<1>1. CASE ReConnectGetConfig(g)
  <2>1. HookViews[g] = View("getconfig", None)
    BY <1>1, OneView, Views DEF CInv, ReConnectGetConfig
  <2>2. HookViews' = [HookViews EXCEPT ![g] = View("config", setting)]
    <3>1. call' = [call EXCEPT ![g] = Locals("config", setting)]
      BY <1>1 DEF ReConnectGetConfig, Locals
    <3>2. CallerView(Locals("config", setting)) = View("config", setting) BY NextViews
    <3> QED BY <3>1, <3>2, OneView DEF CInv
  <2>3. [[HookViews[g] EXCEPT !.cfg = setting] EXCEPT !.pc = "config"] = View("config", setting)
    <3>1. HookViews[g] = [pc |-> "getconfig", cfg |-> None, todo |-> {}] BY <2>1 DEF View
    <3>2. [HookViews[g] EXCEPT !.cfg = setting] = View("getconfig", setting) BY <3>1 DEF View
    <3>3. [View("getconfig", setting) EXCEPT !.pc = "config"] = View("config", setting) BY DEF View
    <3> QED BY <3>2, <3>3
  <2>4. HookViews' = [HookViews EXCEPT ![g].cfg = setting, ![g].pc = "config"]
    BY <2>2, <2>3 DEF HookViews
  <2>5. HookViews[g].pc = "getconfig" BY <2>1 DEF View
  <2> QED BY <1>1, <2>4, <2>5 DEF Clustered!ReConnectGetConfig, ReConnectGetConfig, HookViews
<1>2. CASE ReConnectConfig(g)
  <2>1. HookViews[g] = View("config", call[g].addr)
    BY <1>2, OneView, Views DEF CInv, ReConnectConfig
  <2>2. HookViews' = [HookViews EXCEPT ![g] = View("mark", None)]
    <3>1. call' = [call EXCEPT ![g] = Locals("run", None)] BY <1>2 DEF ReConnectConfig, Locals
    <3>2. CallerView(Locals("run", None)) = View("mark", None) BY NextViews
    <3> QED BY <3>1, <3>2, OneView DEF CInv
  <2>3. HookViews[g].pc = "config" /\ HookViews[g].cfg = call[g].addr BY <2>1 DEF View
  <2>4. {} \in Clustered!Ranges BY DEF Clustered!Ranges
  <2> QED BY <1>2, <2>2, <2>3, <2>4
          DEF Clustered!ReConnectConfig, ReConnectConfig, HookViews, View
<1>3. CASE ReConnectRun(g)
  <2>1. HookViews[g] = View("mark", None)
    BY <1>3, OneView, Views DEF CInv, ReConnectRun
  <2>2. HookViews' = [HookViews EXCEPT ![g] = View("idle", None)]
    <3>1. call' = [call EXCEPT ![g] = Idle] BY <1>3 DEF ReConnectRun
    <3>2. CallerView(Idle) = View("idle", None) BY NextViews
    <3> QED BY <3>1, <3>2, OneView DEF CInv
  <2>3. HookViews[g].pc = "mark" /\ HookViews[g].todo = {} BY <2>1 DEF View
  <2> QED BY <1>3, <2>2, <2>3
          DEF Clustered!ReConnectRun, Clustered!CallerIdle, ReConnectRun, HookViews, View
<1> QED BY <1>1, <1>2, <1>3

\* The rest of Forwarder is not touched by calls.
LEMMA ClusteredCall ==
  ASSUME CInv, grpc, gossip, NEW g \in Goroutines, Proceed(g)
  PROVE  Clustered!Next
<1>1. g \in Hooks /\ phase # "starting" BY NilAssumption DEF CInv, Lifecycle, Goroutines, Proceed,
   HookSet, HookDisconnect, ReConnectGetConfig, ReConnectConfig, ReConnectRun, Idle
<1>2. phase' = phase BY <1>1 DEF Proceed, HookSet, HookDisconnect, ReConnectGetConfig,
   ReConnectConfig, ReConnectRun
<1>3. StopView' = StopView /\ ClusteredLoop' = ClusteredLoop
  BY <1>2 DEF StopView, ClusteredLoop, Proceed
<1>4. Clustered!ReConnect(g) \/ Clustered!Hook(g)
  BY <1>1, <1>3, SetBegins, LeaveDisconnects, HookReConnects
     DEF Proceed, Clustered!ReConnect, Clustered!Hook, LoopView
<1> QED BY <1>1, <1>4 DEF Clustered!Next

LEMMA ClusteredStop ==
  ASSUME CInv, grpc, gossip, Stop
  PROVE  Clustered!Next
<1> DEFINE At(pc) == [pc |-> pc, key |-> None, conn |-> None, todo |-> {}, inflight |-> {}]
<1>1. /\ UNCHANGED <<config, setting, call>> /\ HookViews' = HookViews
      /\ running \in BOOLEAN /\ ClusteredLoop' = ClusteredLoop
  BY DEF Stop, StopBegin, StopDecides, StopEnds, StopFrame, HookViews, CInv, TypeOK, ClusteredLoop
<1>2. CASE StopBegin
  <2>1. StopView = At("idle") /\ StopView' = At("requested") /\ running' = running
    BY <1>2 DEF StopBegin, StopView
  <2>2. [StopView EXCEPT !.pc = "requested"] = At("requested") BY <2>1
  <2>3. Clustered!StopRequest BY <2>1, <2>2 DEF Clustered!StopRequest
  <2> QED BY <1>1, <2>3 DEF Clustered!Next, Clustered!Stop, HookViews, LoopView
<1>3. CASE StopDecides
  <2>1. StopView = At("requested") /\ running' = FALSE
        /\ StopView' = IF running THEN At("range") ELSE At("refused")
    BY <1>3 DEF StopDecides, StopView
  <2>2. CASE running
    <3>1. {} \in Clustered!Ranges BY DEF Clustered!Ranges
    <3>2. [StopView EXCEPT !.pc = "range", !.todo = {}, !.inflight = {}] = At("range")
      <4>1. [StopView EXCEPT !.pc = "range"] = At("range") BY <2>1
      <4>2. [At("range") EXCEPT !.todo = {}] = At("range") OBVIOUS
      <4>3. [At("range") EXCEPT !.inflight = {}] = At("range") OBVIOUS
      <4> QED BY <4>1, <4>2, <4>3
    <3>3. {k \in {} : <<>>[k].pc # "idle"} = {} OBVIOUS
    <3>4. Clustered!StopBegin BY <2>1, <2>2, <3>1, <3>2, <3>3 DEF Clustered!StopBegin
    <3> QED BY <1>1, <3>4 DEF Clustered!Next, Clustered!Stop, HookViews, LoopView
  <2>3. CASE ~running
    <3>0. running' = running BY <1>1, <2>1, <2>3
    <3>1. [StopView EXCEPT !.pc = "refused"] = At("refused") BY <2>1
    <3>2. Clustered!StopRefused BY <2>1, <2>3, <3>0, <3>1 DEF Clustered!StopRefused
    <3> QED BY <1>1, <3>2 DEF Clustered!Next, Clustered!Stop, HookViews, LoopView
  <2> QED BY <2>2, <2>3
<1>4. CASE StopEnds
  <2>1. StopView = At("range") /\ StopView' = At("drained") /\ running' = running
    BY <1>4 DEF StopEnds, StopView
  <2>2. [StopView EXCEPT !.pc = "drained"] = At("drained") BY <2>1
  <2>3. Clustered!StopEnds BY <2>1, <2>2 DEF Clustered!StopEnds
  <2> QED BY <1>1, <2>3 DEF Clustered!Next, Clustered!Stop, HookViews, LoopView
<1> QED BY <1>2, <1>3, <1>4 DEF Stop

\* The steps before a call, and of nodes nobody connects to, leave the forwarder
\* alone.
LEMMA ClusteredStutter ==
  ASSUME CInv, grpc, gossip,
         \/ PreInit \/ SetDynamicConfig \/ InitComponent \/ Start
         \/ \E g \in Hooks : \/ OnJoinCluster(g)
                             \/ \E n \in Nodes : OnNodeJoin(g, n) \/ OnNodeLeave(g, n)
         \/ \E n \in Nodes : Unnoticed(n)
  PROVE  UNCHANGED Clustered!vars
<1>1. SUFFICES UNCHANGED <<running, config, setting>> /\ HookViews' = HookViews /\ StopView' = StopView /\ loop' = loop
  BY DEF Clustered!vars, HookViews, LoopView, ClusteredLoop
<1>2. CASE PreInit \/ SetDynamicConfig \/ InitComponent \/ Start
  BY <1>2 DEF CInv, Lifecycle, PreInit, SetDynamicConfig, InitComponent, Start, HookViews, StopView
<1>3. ASSUME NEW g \in Hooks, NEW pc \in {"set", "leave"}, NEW a, Calls(g, pc, a), HookFrame
      PROVE  UNCHANGED <<running, config, setting>> /\ HookViews' = HookViews /\ StopView' = StopView /\ loop' = loop
  <2>1. call[g] = Idle /\ call' = [call EXCEPT ![g] = [pc |-> pc, addr |-> a]] BY <1>3 DEF Calls
  <2>2. CallerView([pc |-> pc, addr |-> a]) = View("idle", None) BY <1>3 DEF CallerView, View
  <2>3. HookViews' = [HookViews EXCEPT ![g] = View("idle", None)] BY <2>1, <2>2, OneView DEF CInv
  <2>4. HookViews[g] = View("idle", None) BY <2>1, OneView, NextViews DEF CInv
  <2>5. HookViews' = HookViews BY <2>3, <2>4 DEF HookViews
  <2> QED BY <1>3, <2>5 DEF HookFrame, StopView
<1>4. CASE \E g \in Hooks : \/ OnJoinCluster(g)
                           \/ \E n \in Nodes : OnNodeJoin(g, n) \/ OnNodeLeave(g, n)
  BY <1>3, <1>4 DEF OnJoinCluster, OnNodeJoin, OnNodeLeave
<1>5. CASE \E n \in Nodes : Unnoticed(n)
  BY <1>5 DEF Unnoticed, HookFrame, HookViews, StopView
<1> QED BY <1>2, <1>4, <1>5

-----------------------------------------------------------------------------
(* Outside a cluster: the only caller is Start.                            *)

LEMMA MainStep ==
  ASSUME TypeOK, NEW l, call' = [call EXCEPT ![Main] = l],
         phase \notin {"ready", "failed"}, phase' \notin {"ready", "failed"}
  PROVE  MainViews' = [MainViews EXCEPT ![Main] = CallerView(l)] /\ MainViews[Main] = CallerView(call[Main])
<1>1. MainView = CallerView(call[Main]) BY DEF MainView
<1>2. MainView' = CallerView(call'[Main]) BY DEF MainView
<1>3. call'[Main] = l BY DEF TypeOK
<1>4. MainView' = CallerView(l) BY <1>2, <1>3
<1> QED BY <1>1, <1>4 DEF MainViews

LEMMA StandaloneCall ==
  ASSUME CInv, grpc, ~gossip, NEW g \in Goroutines, Proceed(g)
  PROVE  Standalone!Next
<1>1. /\ g = Main /\ phase = "starting" /\ phase' \in {"starting", "started"}
      /\ call[g].pc \in {"getconfig", "config", "run"}
  BY NilAssumption DEF CInv, Lifecycle, HooksSet, Goroutines, Proceed, HookSet, HookDisconnect,
     ReConnectGetConfig, ReConnectConfig, ReConnectRun, Idle
<1>2. StopView' = StopView /\ StandaloneLoop' = StandaloneLoop
  BY <1>1 DEF StopView, StandaloneLoop, Proceed
<1>3. CASE ReConnectGetConfig(g)
  <2>1. call' = [call EXCEPT ![Main] = Locals("config", setting)] /\ call[Main].pc = "getconfig"
    BY <1>1, <1>3 DEF ReConnectGetConfig, Locals
  <2>2. CallerView(Locals("config", setting)) = View("config", setting) BY NextViews
  <2>3. MainViews' = [MainViews EXCEPT ![Main] = View("config", setting)]
    BY <1>1, <2>1, <2>2, MainStep DEF CInv
  <2>4. MainViews[Main] = View("getconfig", None) BY <1>1, <2>1, MainStep, Views DEF CInv
  <2>5. [[MainViews[Main] EXCEPT !.cfg = setting] EXCEPT !.pc = "config"] = View("config", setting)
    <3>1. MainViews[Main] = [pc |-> "getconfig", cfg |-> None, todo |-> {}] BY <2>4 DEF View
    <3>2. [MainViews[Main] EXCEPT !.cfg = setting] = View("getconfig", setting) BY <3>1 DEF View
    <3>3. [View("getconfig", setting) EXCEPT !.pc = "config"] = View("config", setting) BY DEF View
    <3> QED BY <3>2, <3>3
  <2>6. MainViews' = [MainViews EXCEPT ![Main].cfg = setting, ![Main].pc = "config"]
    BY <2>3, <2>5 DEF MainViews
  <2>7. MainViews[Main].pc = "getconfig" BY <2>4 DEF View
  <2>8. Standalone!ReConnectGetConfig(Main)
    BY <1>3, <2>6, <2>7 DEF Standalone!ReConnectGetConfig, ReConnectGetConfig, MainViews
  <2> QED BY <1>2, <1>3, <2>8 DEF Standalone!Next, Standalone!ReConnect, LoopView
<1>4. CASE ReConnectConfig(g)
  <2>1. call' = [call EXCEPT ![Main] = Locals("run", None)] /\ call[Main].pc = "config"
    BY <1>1, <1>4 DEF ReConnectConfig, Locals
  <2>2. CallerView(Locals("run", None)) = View("mark", None) BY NextViews
  <2>3. MainViews' = [MainViews EXCEPT ![Main] = View("mark", None)]
    BY <1>1, <2>1, <2>2, MainStep DEF CInv
  <2>4. MainViews[Main] = View("config", call[Main].addr) BY <1>1, <2>1, MainStep, Views DEF CInv
  <2>5. MainViews[Main].pc = "config" /\ MainViews[Main].cfg = call[Main].addr BY <2>4 DEF View
  <2>6. {} \in Standalone!Ranges BY DEF Standalone!Ranges
  <2>7. Standalone!ReConnectConfig(Main)
    BY <1>1, <1>4, <2>3, <2>5, <2>6
       DEF Standalone!ReConnectConfig, ReConnectConfig, MainViews, View
  <2> QED BY <1>2, <1>4, <2>7 DEF Standalone!Next, Standalone!ReConnect, LoopView
<1>5. CASE ReConnectRun(g)
  <2>1. call' = [call EXCEPT ![Main] = Idle] /\ call[Main].pc = "run" BY <1>1, <1>5 DEF ReConnectRun
  <2>2. CallerView(Idle) = View("idle", None) BY NextViews
  <2>3. MainViews' = [MainViews EXCEPT ![Main] = View("idle", None)]
    BY <1>1, <2>1, <2>2, MainStep DEF CInv
  <2>4. MainViews[Main] = View("mark", None) BY <1>1, <2>1, MainStep, Views DEF CInv
  <2>5. MainViews[Main].pc = "mark" /\ MainViews[Main].todo = {} BY <2>4 DEF View
  <2>6. Standalone!ReConnectRun(Main)
    BY <1>1, <1>5, <2>3, <2>5
       DEF Standalone!ReConnectRun, Standalone!CallerIdle, ReConnectRun, MainViews, View
  <2> QED BY <1>2, <1>5, <2>6 DEF Standalone!Next, Standalone!ReConnect, LoopView
<1> QED BY <1>1, <1>3, <1>4, <1>5 DEF Proceed, HookSet, HookDisconnect

LEMMA StandaloneStop ==
  ASSUME CInv, grpc, ~gossip, Stop
  PROVE  Standalone!Next
<1> DEFINE At(pc) == [pc |-> pc, key |-> None, conn |-> None, todo |-> {}, inflight |-> {}]
<1>1. /\ UNCHANGED <<config, setting, call>> /\ MainViews' = MainViews
      /\ running \in BOOLEAN /\ StandaloneLoop' = StandaloneLoop
  BY DEF Stop, StopBegin, StopDecides, StopEnds, StopFrame, MainViews, MainView, CInv, TypeOK,
     StandaloneLoop
<1>2. CASE StopBegin
  <2>1. StopView = At("idle") /\ StopView' = At("requested") /\ running' = running
    BY <1>2 DEF StopBegin, StopView
  <2>2. [StopView EXCEPT !.pc = "requested"] = At("requested") BY <2>1
  <2>3. MainViews[Main].pc = "idle"
    <3>1. phase = "started" /\ call[Main] = Idle BY <1>2 DEF StopBegin, CInv, Lifecycle
    <3>2. MainView = CallerView(Idle) BY <3>1 DEF MainView
    <3> QED BY <3>2, NextViews DEF MainViews, View
  <2>4. Standalone!StopRequest BY <2>1, <2>2, <2>3 DEF Standalone!StopRequest, MainViews
  <2> QED BY <1>1, <2>4 DEF Standalone!Next, Standalone!Stop, MainViews, LoopView
<1>3. CASE StopDecides
  <2>1. StopView = At("requested") /\ running' = FALSE
        /\ StopView' = IF running THEN At("range") ELSE At("refused")
    BY <1>3 DEF StopDecides, StopView
  <2>2. CASE running
    <3>1. {} \in Standalone!Ranges BY DEF Standalone!Ranges
    <3>2. [StopView EXCEPT !.pc = "range", !.todo = {}, !.inflight = {}] = At("range")
      <4>1. [StopView EXCEPT !.pc = "range"] = At("range") BY <2>1
      <4>2. [At("range") EXCEPT !.todo = {}] = At("range") OBVIOUS
      <4>3. [At("range") EXCEPT !.inflight = {}] = At("range") OBVIOUS
      <4> QED BY <4>1, <4>2, <4>3
    <3>3. {k \in {} : <<>>[k].pc # "idle"} = {} OBVIOUS
    <3>4. Standalone!StopBegin BY <2>1, <2>2, <3>1, <3>2, <3>3 DEF Standalone!StopBegin
    <3> QED BY <1>1, <3>4 DEF Standalone!Next, Standalone!Stop, MainViews, LoopView
  <2>3. CASE ~running
    <3>0. running' = running BY <1>1, <2>1, <2>3
    <3>1. [StopView EXCEPT !.pc = "refused"] = At("refused") BY <2>1
    <3>2. Standalone!StopRefused BY <2>1, <2>3, <3>0, <3>1 DEF Standalone!StopRefused
    <3> QED BY <1>1, <3>2 DEF Standalone!Next, Standalone!Stop, MainViews, LoopView
  <2> QED BY <2>2, <2>3
<1>4. CASE StopEnds
  <2>1. StopView = At("range") /\ StopView' = At("drained") /\ running' = running
    BY <1>4 DEF StopEnds, StopView
  <2>2. [StopView EXCEPT !.pc = "drained"] = At("drained") BY <2>1
  <2>3. Standalone!StopEnds BY <2>1, <2>2 DEF Standalone!StopEnds
  <2> QED BY <1>1, <2>3 DEF Standalone!Next, Standalone!Stop, MainViews, LoopView
<1> QED BY <1>2, <1>3, <1>4 DEF Stop

\* Start begins the call that Forwarder has expected since Init; no hook is set.
LEMMA StandaloneStutter ==
  ASSUME CInv, grpc, ~gossip,
         \/ PreInit \/ SetDynamicConfig \/ InitComponent \/ Start
         \/ \E g \in Hooks : \/ OnJoinCluster(g)
                             \/ \E n \in Nodes : OnNodeJoin(g, n) \/ OnNodeLeave(g, n)
         \/ \E n \in Nodes : Unnoticed(n)
  PROVE  UNCHANGED Standalone!vars
<1>1. SUFFICES UNCHANGED <<running, config, setting>> /\ MainViews' = MainViews /\ StopView' = StopView
               /\ StandaloneLoop' = StandaloneLoop
  BY DEF Standalone!vars, MainViews, LoopView
<1>2. CASE Start
  <2>1. /\ UNCHANGED <<running, config, setting>> /\ phase = "ready" /\ phase' = "starting"
        /\ loop' = "runs"
        /\ call' = [call EXCEPT ![Main].pc = "getconfig"]
    BY <1>2 DEF Start
  <2>2. call'[Main].pc = "getconfig" BY <2>1 DEF CInv, TypeOK, CallLocals
  <2>3. MainView = View("getconfig", None) BY <2>1, Views DEF MainView
  <2>4. MainView' = View("getconfig", None)
    <3>1. MainView' = CallerView(call'[Main]) BY <2>1 DEF MainView
    <3> QED BY <2>2, <3>1, Views
  <2> QED BY <2>1, <2>3, <2>4 DEF MainViews, StopView, StandaloneLoop
<1>3. CASE \E n \in Nodes : Unnoticed(n)
  BY <1>3 DEF Unnoticed, HookFrame, MainViews, MainView, StopView, StandaloneLoop
<1> QED BY <1>2, <1>3 DEF CInv, Lifecycle, PreInit, SetDynamicConfig, InitComponent,
        OnJoinCluster, OnNodeJoin, OnNodeLeave, Calls, HooksSet

\* The loop runs and ends only where Forwarder has one, after shutdown was requested.
LEMMA LoopExitsAfterRequest ==
  ASSUME CInv, LoopExits
  PROVE  grpc /\ ~gossip /\ Standalone!Next
<1>1. grpc /\ ~gossip BY DEF CInv, Lifecycle, LoopExits
<1>2. /\ StandaloneLoop = "idle" /\ StandaloneLoop' = "exited"
      /\ StopView.pc # "idle" /\ StopView' = StopView /\ MainViews' = MainViews
      /\ UNCHANGED <<running, config, setting>>
  BY DEF LoopExits, StandaloneLoop, StopView, MainViews, MainView
<1>3. [LoopView("idle") EXCEPT !.pc = "exited"] = LoopView("exited") BY DEF LoopView
<1>4. LoopView("idle").pc = "idle" BY DEF LoopView
<1>5. Standalone!StartExits BY <1>2, <1>3, <1>4 DEF Standalone!StartExits
<1>6. Standalone!Start BY <1>2, <1>5 DEF Standalone!Start, Standalone!StartFrame, MainViews
<1> QED BY <1>1, <1>6 DEF Standalone!Next

-----------------------------------------------------------------------------
\* Every step of the component is one of Forwarder or a stutter, and what New
\* builds is a state Forwarder starts from.  In particular the loop runs from
\* Start to shutdown outside a cluster and never in one
\* (cluster.go:27-74, component.go:54-182).
THEOREM ForwarderCalled == Spec => CallsForwarder
<1>1. ASSUME CInv, [Next]_vars PROVE [CallsForwarderStep]_vars
  <2>1. CASE UNCHANGED vars BY <2>1
  <2>2. CASE Next
    <3>1. ASSUME ~grpc, grpc' PROVE InitComponent
      BY <2>2, <3>1 DEF Next, PreInit, SetDynamicConfig, Start, OnJoinCluster, OnNodeJoin,
         OnNodeLeave, Unnoticed, HookFrame, Proceed, Stop, StopBegin, StopDecides, StopEnds, StopFrame,
         LoopExits
    <3>2. grpc /\ gossip => [Clustered!Next]_(Clustered!vars)
      BY <1>1, <2>2, ClusteredCall, ClusteredStop, ClusteredStutter,
         LoopExitsAfterRequest DEF Next, Goroutines
    <3>3. grpc /\ ~gossip => [Standalone!Next]_(Standalone!vars)
      BY <1>1, <2>2, StandaloneCall, StandaloneStop, StandaloneStutter,
         LoopExitsAfterRequest DEF Next, Goroutines
    <3> QED BY <1>1, <3>1, <3>2, <3>3, Created DEF CallsForwarderStep
  <2> QED BY <1>1, <2>1, <2>2
<1> QED BY <1>1, Inductive, PTL DEF Spec, CallsForwarder
=============================================================================
