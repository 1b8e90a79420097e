-------------------------- MODULE ComponentProofs --------------------------
(***************************************************************************)
(* The invariants of Component for any nodes and any number of goroutines  *)
(* that call hooks.                                                        *)
(***************************************************************************)
EXTENDS Component, TLAPS

Goroutines == Hooks \cup {Main}

\* What each phase says of the parts, and who may be inside a call.
Lifecycle ==
    /\ phase \in {"new", "configured", "dynamic"} => ~gossip /\ ~grpc
    /\ phase = "ready" => grpc = enable
    /\ phase = "starting" => ~gossip /\ grpc
    /\ IF HooksSet THEN hookEnable = grpc ELSE \A h \in Hooks : call[h] = Idle
    /\ \A g \in Goroutines : call[g] # Idle => grpc
    /\ call[Main] # Idle => phase = "starting" /\ call[Main].pc \in {"getconfig", "config", "run"}
    /\ running => grpc
    /\ gossip /\ running => HooksSet
    /\ ~gossip /\ running => phase \in {"started", "stopping"}
    /\ loop = "none" <=> gossip \/ ~grpc \/ phase \in {"new", "configured", "dynamic", "ready", "failed"}

\* An address the hooks may have connected to, that is still right.
LiveConsumer(n) == n \in members /\ IsArcConsumer(n)

\* At most one call is under way, and only it separates the forwarder's address
\* from the setting, or either from a live node.
Alone ==
    /\ \A g, h \in Goroutines : call[g] # Idle /\ call[h] # Idle => g = h
    /\ Quiet => config = setting /\ (gossip /\ running => LiveConsumer(config))
    /\ \A g \in Goroutines :
          /\ call[g].pc = "set" => LiveConsumer(call[g].addr)
          /\ call[g].pc = "getconfig" /\ gossip => LiveConsumer(setting)
          /\ call[g].pc = "config" => call[g].addr = setting /\ (gossip => LiveConsumer(setting))
          /\ call[g].pc = "run" => config = setting /\ (gossip => LiveConsumer(config))
          /\ call[g].pc = "leave" => config = setting

\* The inductive invariant.
CInv == TypeOK /\ Lifecycle /\ (grpc /\ ~overlap => Alone)

-----------------------------------------------------------------------------
LEMMA InitCInv == Init => CInv
<1> USE NilAssumption DEF Init, CInv, Goroutines, Idle
<1>1. ASSUME Init PROVE TypeOK
  <2>1. Idle \in CallLocals BY DEF CallLocals
  <2>2. call \in [Hooks \cup {Main} -> CallLocals] BY <1>1, <2>1
  <2> QED BY <1>1, <2>2 DEF TypeOK, Servers
<1>2. Init => Lifecycle BY DEF Lifecycle, HooksSet
<1> QED BY <1>1, <1>2

\* The lifecycle up to Start: nothing runs yet.
LEMMA BeginKeeps ==
  ASSUME CInv, PreInit \/ SetDynamicConfig \/ InitComponent \/ Start
  PROVE  CInv'
<1> USE NilAssumption DEF CInv, TypeOK, Lifecycle, Goroutines, HooksSet, Idle, Quiet
<1>1. CASE PreInit BY <1>1 DEF PreInit
<1>2. CASE SetDynamicConfig BY <1>2 DEF SetDynamicConfig
<1>3. CASE InitComponent
  <2>1. TypeOK' BY <1>3 DEF InitComponent
  <2>2. Lifecycle' BY <1>3 DEF InitComponent
  <2>3. \A g \in Goroutines : call[g] = Idle BY <1>3 DEF InitComponent
  <2> QED BY <1>3, <2>1, <2>2, <2>3 DEF InitComponent, Alone
<1>4. CASE Start
  <2>1. TypeOK'
    <3>1. hookEnable' \in BOOLEAN BY <1>4 DEF Start
    <3>2. [pc |-> "getconfig", addr |-> None] \in CallLocals BY DEF CallLocals
    <3>3. call' = call \/ call' = [call EXCEPT ![Main] = [pc |-> "getconfig", addr |-> None]]
      <4>1. call[Main] = [pc |-> "idle", addr |-> None] BY <1>4 DEF Start
      <4>2. [call[Main] EXCEPT !.pc = "getconfig"] = [pc |-> "getconfig", addr |-> None] BY <4>1
      <4> QED BY <1>4, <4>2 DEF Start
    <3>4. call' \in [Hooks \cup {Main} -> CallLocals] BY <3>2, <3>3
    <3> QED BY <1>4, <3>1, <3>4 DEF Start
  <2>2. Lifecycle' BY <1>4 DEF Start
  <2>3. \A g \in Goroutines : call[g] = Idle BY <1>4 DEF Start
  <2>4. grpc /\ ~overlap => Alone' BY <1>4, <2>3 DEF Start, Alone, LiveConsumer
  <2> QED BY <1>4, <2>1, <2>2, <2>4 DEF Start
<1> QED BY <1>1, <1>2, <1>3, <1>4

\* A hook begins: if no other is under way it is the only call, otherwise the
\* calls overlap.
LEMMA CallsKeeps ==
  ASSUME CInv, NEW g \in Hooks, NEW pc \in {"set", "leave"}, NEW addr \in Servers \cup {None},
         Calls(g, pc, addr), HookFrame, grpc, members' \subseteq Nodes,
         IF pc = "set" THEN addr \in members' /\ IsArcConsumer(addr) ELSE addr = None
  PROVE  CInv'
<1> USE NilAssumption DEF CInv, Goroutines, Idle
<1>1. TypeOK'
  <2>1. [pc |-> pc, addr |-> addr] \in CallLocals
    <3>1. pc = "set" => addr \in Servers BY DEF Servers
    <3> QED BY <3>1 DEF CallLocals
  <2>2. call' \in [Hooks \cup {Main} -> CallLocals] BY <2>1 DEF Calls, TypeOK
  <2>3. overlap' \in BOOLEAN BY DEF Calls, TypeOK
  <2> QED BY <2>2, <2>3 DEF TypeOK, HookFrame
<1>2. Lifecycle' BY DEF TypeOK, Lifecycle, Calls, HookFrame, HooksSet
<1>3. ASSUME ~overlap' PROVE Alone'
  <2>1. \A h \in Goroutines : call[h] = Idle
    BY <1>3 DEF Calls, Lifecycle, HooksSet, TypeOK
  <2>2. pc = "leave" => config = setting BY <1>3, <2>1 DEF Calls, Alone, Quiet, TypeOK
  <2>3. /\ call' = [call EXCEPT ![g] = [pc |-> pc, addr |-> addr]]
        /\ call'[g].pc = pc /\ call'[g].addr = addr /\ call'[g] # Idle
        /\ \A h \in Goroutines : h # g => call'[h] = Idle
        /\ UNCHANGED <<config, setting, gossip, running>>
    BY <2>1 DEF Calls, HookFrame, TypeOK
  <2> QED BY <2>2, <2>3 DEF Alone, Quiet, LiveConsumer, IsArcConsumer
<1> QED BY <1>1, <1>2, <1>3

LEMMA HookKeeps ==
  ASSUME CInv, NEW g \in Hooks,
         OnJoinCluster(g) \/ \E n \in Nodes : OnNodeJoin(g, n) \/ OnNodeLeave(g, n)
  PROVE  CInv'
<1>1. CASE OnJoinCluster(g)
  <2>1. PICK n \in members : IsArcConsumer(n) /\ Calls(g, "set", n) BY <1>1 DEF OnJoinCluster
  <2>2. n \in Servers /\ members' \subseteq Nodes BY <1>1 DEF CInv, TypeOK, Servers, OnJoinCluster
  <2> QED BY <1>1, <2>1, <2>2, CallsKeeps DEF OnJoinCluster
<1>2. ASSUME NEW n \in Nodes, OnNodeJoin(g, n) PROVE CInv'
  <2>1. grpc BY <1>2 DEF OnNodeJoin, Calls, CInv, Lifecycle
  <2>2. n \in Servers /\ members' \subseteq Nodes /\ n \in members'
    BY <1>2 DEF CInv, TypeOK, Servers, OnNodeJoin
  <2> QED BY <1>2, <2>1, <2>2, CallsKeeps DEF OnNodeJoin
<1>3. ASSUME NEW n \in Nodes, OnNodeLeave(g, n) PROVE CInv'
  <2>1. grpc BY <1>3 DEF OnNodeLeave, Calls, CInv, Lifecycle
  <2>2. members' \subseteq Nodes BY <1>3 DEF CInv, TypeOK, OnNodeLeave
  <2> QED BY <1>3, <2>1, <2>2, CallsKeeps DEF OnNodeLeave
<1> QED BY <1>1, <1>2, <1>3

\* A node no hook hears of is none the forwarder could be connected to, or it
\* is not connected yet.
LEMMA UnnoticedKeeps ==
  ASSUME CInv, NEW n \in Nodes, Unnoticed(n)
  PROVE  CInv'
<1> USE NilAssumption DEF CInv, Goroutines, Idle, Unnoticed, HookFrame
<1>1. TypeOK' BY DEF TypeOK
<1>2. Lifecycle' BY DEF TypeOK, Lifecycle, HooksSet
<1>3. ASSUME grpc, ~overlap PROVE Alone'
  <2>1. CASE gossip /\ HooksSet
    <3>1. \A m : LiveConsumer(m) => LiveConsumer(m)'
      BY <1>3, <2>1 DEF LiveConsumer, Lifecycle, IsArcConsumer
    <3> QED BY <1>3, <3>1 DEF Alone, Quiet
  <2>2. CASE gossip /\ ~HooksSet
    <3>1. ~running /\ \A g \in Goroutines : call[g] = Idle BY <2>2 DEF Lifecycle
    <3> QED BY <1>3, <3>1 DEF Alone, Quiet
  <2>3. CASE ~gossip
    <3>1. \A g \in Goroutines : call[g].pc # "set" BY <2>3 DEF Lifecycle, HooksSet
    <3> QED BY <1>3, <2>3, <3>1 DEF Alone, Quiet
  <2> QED BY <2>1, <2>2, <2>3
<1> QED BY <1>1, <1>2, <1>3

\* The steps of a call.
LEMMA ProceedKeeps ==
  ASSUME CInv, NEW g \in Goroutines, Proceed(g)
  PROVE  CInv'
<1> USE NilAssumption DEF CInv, Goroutines, Idle
<1>0. /\ TypeOK /\ Lifecycle /\ call[g] # Idle /\ grpc
      /\ \A h \in Goroutines : h # g => call'[h] = call[h]
      /\ UNCHANGED <<enable, gossip, grpc, hookEnable, members, loop, overlap>>
  BY DEF Proceed, HookSet, HookDisconnect, ReConnectGetConfig, ReConnectConfig, ReConnectRun,
         TypeOK, Lifecycle
<1>1. TypeOK'
  <2>1. call[g] \in CallLocals /\ setting \in Servers BY <1>0 DEF TypeOK
  <2>2. setting' \in Servers /\ config' \in Servers /\ running' \in BOOLEAN
        /\ phase' \in {phase, "started"}
    BY <1>0, <2>1 DEF Proceed, HookSet, HookDisconnect, ReConnectGetConfig, ReConnectConfig,
                     ReConnectRun, TypeOK, CallLocals
  <2>3. call' \in [Hooks \cup {Main} -> CallLocals]
    <3>1. PICK l \in CallLocals : call' = [call EXCEPT ![g] = l]
      BY <1>0, <2>1 DEF Proceed, HookSet, HookDisconnect, ReConnectGetConfig, ReConnectConfig,
                     ReConnectRun, CallLocals
    <3> QED BY <1>0, <3>1 DEF TypeOK
  <2> QED BY <1>0, <2>2, <2>3 DEF TypeOK
<1>2. Lifecycle'
  <2>1. /\ call'[g] = Idle \/ call'[g].pc \in {"getconfig", "config", "run"}
        /\ running' => running \/ ReConnectRun(g)
        /\ phase' = phase \/ (phase = "starting" /\ phase' = "started" /\ call'[g] = Idle)
        /\ phase = "starting" /\ phase' = "starting" => ~ReConnectRun(g)
    BY <1>0 DEF Proceed, HookSet, HookDisconnect, ReConnectGetConfig, ReConnectConfig,
                ReConnectRun, TypeOK
  <2>2. CASE g \in Hooks
    <3>1. HooksSet /\ HooksSet' /\ phase' = phase /\ g # Main /\ gossip
      BY <1>0, <2>1, <2>2 DEF Lifecycle, HooksSet
    <3> QED BY <1>0, <2>1, <2>2, <3>1 DEF Lifecycle
  <2>3. CASE g = Main
    <3>1. phase = "starting" /\ ~gossip /\ ~running BY <1>0, <2>3 DEF Lifecycle
    <3>2. ~HooksSet /\ ~HooksSet' BY <1>0, <3>1 DEF HooksSet
    <3> QED BY <1>0, <2>1, <2>3, <3>1, <3>2 DEF Lifecycle
  <2> QED BY <2>2, <2>3
<1>3. ASSUME ~overlap PROVE Alone'
  <2>1. /\ Alone
        /\ \A h \in Goroutines : h # g => call[h] = Idle /\ call'[h] = Idle
        /\ \A n : LiveConsumer(n)' <=> LiveConsumer(n)
    BY <1>0, <1>3 DEF Alone, LiveConsumer
  <2>2. CASE HookSet(g) BY <1>0, <2>1, <2>2 DEF HookSet, Alone, Quiet, TypeOK
  <2>3. CASE HookDisconnect(g) BY <1>0, <2>1, <2>3 DEF HookDisconnect, Alone, Quiet, TypeOK
  <2>4. CASE ReConnectGetConfig(g) BY <1>0, <2>1, <2>4 DEF ReConnectGetConfig, Alone, Quiet, TypeOK
  <2>5. CASE ReConnectConfig(g) BY <1>0, <2>1, <2>5 DEF ReConnectConfig, Alone, Quiet, TypeOK
  <2>6. CASE ReConnectRun(g) BY <1>0, <2>1, <2>6 DEF ReConnectRun, Alone, Quiet, TypeOK
  <2> QED BY <2>2, <2>3, <2>4, <2>5, <2>6 DEF Proceed
<1> QED BY <1>0, <1>1, <1>2, <1>3

\* Stop clears running and leaves addresses alone.
LEMMA StopKeeps == ASSUME CInv, Stop PROVE CInv'
<1>0. /\ UNCHANGED <<enable, setting, gossip, grpc, hookEnable, members, config, loop, call, overlap>>
      /\ phase' \in {"stopping", "draining", "stopped", "refused"}
      /\ phase \in {"started", "stopping", "draining"}
      /\ running' \in BOOLEAN /\ (running' => running)
      /\ (running' => phase' = "stopping" \/ gossip)
      /\ (gossip => HooksSet /\ HooksSet')
  <2> USE DEF CInv, TypeOK, Lifecycle, HooksSet, StopFrame
  <2>1. CASE StopBegin BY <2>1 DEF StopBegin
  <2>2. CASE StopDecides BY <2>2 DEF StopDecides
  <2>3. CASE StopEnds BY <2>3 DEF StopEnds
  <2> QED BY <2>1, <2>2, <2>3 DEF Stop
<1>1. TypeOK' BY <1>0 DEF CInv, TypeOK
<1>2. Lifecycle' BY <1>0 DEF CInv, TypeOK, Lifecycle, HooksSet
<1>3. ASSUME grpc, ~overlap PROVE Alone'
  BY <1>0, <1>3 DEF CInv, Alone, Quiet, LiveConsumer
<1> QED BY <1>0, <1>1, <1>2, <1>3 DEF CInv

\* The loop ends without a trace but its own.
LEMMA LoopKeeps == ASSUME CInv, LoopExits PROVE CInv'
BY DEF LoopExits, CInv, TypeOK, Lifecycle, Alone, Quiet, HooksSet, LiveConsumer, Goroutines

\* The invariant behind the properties below, for any number of hooks.
THEOREM Inductive == Spec => []CInv
<1>1. ASSUME CInv, [Next]_vars PROVE CInv'
  <2>1. CASE UNCHANGED vars
    BY <1>1, <2>1 DEF vars, CInv, TypeOK, Lifecycle, Alone, Quiet, HooksSet, LiveConsumer
  <2> QED BY <1>1, <2>1, BeginKeeps, HookKeeps, UnnoticedKeeps, ProceedKeeps, StopKeeps, LoopKeeps
          DEF Next, Goroutines
<1> QED BY <1>1, InitCInv, PTL DEF Spec

\* TypeOK: there is a configuration exactly if there is a forwarder.
THEOREM TypeCorrect == Spec => []TypeOK
<1>1. CInv => TypeOK BY DEF CInv
<1> QED BY <1>1, Inductive, PTL

\* No hook and no Start calls a forwarder that New did not create
\* (cluster.go:24, 53, 67).
THEOREM HooksFindForwarder == Spec => []NoNilForwarder
<1>1. CInv => NoNilForwarder BY DEF CInv, Lifecycle, NoNilForwarder, Goroutines, Idle
<1> QED BY <1>1, Inductive, PTL

\* Calls that do not overlap leave the forwarder at the address of the setting
\* (cluster.go:35-39, 68-71).
THEOREM SettingInForce == Spec => []AddressInForce
<1>1. CInv => AddressInForce BY DEF CInv, Alone, AddressInForce
<1> QED BY <1>1, Inductive, PTL

\* In a cluster a running forwarder is connected to a live node of the filter's
\* service, unless hooks overlapped (cluster.go:46-74).
THEOREM MemberInForce == Spec => []ConnectedToMember
<1>1. ASSUME CInv PROVE ConnectedToMember
  <2>1. SUFFICES ASSUME gossip, running, Quiet, ~overlap
                 PROVE  config \in members /\ IsArcConsumer(config)
    BY DEF ConnectedToMember
  <2>2. grpc BY <1>1, <2>1 DEF CInv, Lifecycle
  <2> QED BY <1>1, <2>1, <2>2 DEF CInv, Alone, LiveConsumer
<1> QED BY <1>1, Inductive, PTL

\* Outside a cluster nothing sets running again after Stop cleared it
\* (component.go:156-182).
THEOREM StopStays == Spec => []StopIsFinal
<1>1. CInv => StopIsFinal BY DEF CInv, Lifecycle, StopIsFinal
<1> QED BY <1>1, Inductive, PTL
=============================================================================
