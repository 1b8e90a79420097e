----------------------------- MODULE Component -----------------------------
(***************************************************************************)
(* The component (pkg/component): its lifecycle, which decides what parts  *)
(* there are, and the gossip hooks, which tell the forwarder where to      *)
(* connect.  Of the forwarder it has what these calls change, the address  *)
(* in force, the running flag and the goroutine of its loop; Forwarder has *)
(* the rest, and Component is shown to use it only as Forwarder assumes    *)
(* (CallsForwarder).                                                       *)
(* A hook call is several steps, so that calls of different goroutines     *)
(* interleave: gossip is external and the hooks have no lock.  Definitions *)
(* marked "Bug" are wrong variants of the one that follows them; no        *)
(* specification uses them.                                                *)
(***************************************************************************)
CONSTANTS
    Consumers,  \* nodes of this cluster whose service is arc-consumer
    Storages,   \* nodes of this cluster whose service is arc-storage
    Foreign,    \* nodes of other clusters
    Hooks,      \* goroutines of gossip that call hooks
    Main,       \* the goroutine that calls Init, Start and Stop
    Local,      \* the address in the configuration file
    None

Nodes == Consumers \cup Storages \cup Foreign

\* A node has one address, written like the node: PrivateIP with port 8080.
Servers == Nodes \cup {Local}

ASSUME NilAssumption == None \notin Servers /\ Local \notin Nodes /\ Main \notin Hooks

VARIABLES
    phase,      \* the last lifecycle call that began or ended
    enable,     \* viper's grpc.enable
    setting,    \* viper's grpc.server
    gossip,     \* c.gossipKVCache is not nil
    grpc,       \* c.grpc is not nil
    hookEnable, \* grpcConfig.Enable, read when the hooks are set
    members,    \* external: the nodes alive
    config,     \* the forwarder's config.Server
    running,    \* the forwarder's running
    loop,       \* the goroutine that runs the forwarder's Start
    call,       \* locals of a hook or of ReConnect, per goroutine
    overlap     \* auxiliary: a hook began during another, and none alone since

vars == <<phase, enable, setting, gossip, grpc, hookEnable, members, config,
          running, loop, call, overlap>>

CallLocals == [pc : {"idle", "getconfig", "run", "leave"}, addr : {None}]
                  \cup [pc : {"set", "config"}, addr : Servers]
Idle == [pc |-> "idle", addr |-> None]

\* The type invariant.
TypeOK ==
    /\ phase \in {"new", "configured", "dynamic", "ready", "starting", "started",
                  "stopping", "draining", "stopped", "refused", "failed"}
    /\ enable \in BOOLEAN /\ gossip \in BOOLEAN /\ grpc \in BOOLEAN
    /\ hookEnable \in BOOLEAN /\ running \in BOOLEAN /\ overlap \in BOOLEAN
    /\ loop \in {"none", "runs", "exited"}
    /\ setting \in Servers /\ members \subseteq Nodes
    /\ config \in IF grpc THEN Servers ELSE {None}
    /\ call \in [Hooks \cup {Main} -> CallLocals]

Init ==
    /\ phase = "new"
    /\ enable = FALSE /\ setting = Local
    /\ gossip = FALSE /\ grpc = FALSE /\ hookEnable = FALSE
    /\ members = {}
    /\ config = None /\ running = FALSE /\ loop = "none"
    /\ call = [g \in Hooks \cup {Main} |-> Idle]
    /\ overlap = FALSE

-----------------------------------------------------------------------------
(* The lifecycle, up to Start.                                             *)

\* PreInit sets defaults, then the framework reads the configuration file.
PreInit ==
    /\ phase = "new"
    /\ phase' = "configured"
    /\ enable' \in BOOLEAN
    /\ UNCHANGED <<setting, gossip, grpc, hookEnable, members, config, running, loop, call, overlap>>

\* Bug: the dynamic configuration is applied at any time before Start.
SetDynamicConfigLate ==
    /\ phase \in {"configured", "ready"}
    /\ enable' \in BOOLEAN
    /\ UNCHANGED <<phase, setting, gossip, grpc, hookEnable, members, config, running, loop, call, overlap>>

\* With a dynamic configuration, its EnableReadWrite becomes grpc.enable; the
\* framework applies it before it calls Init, later changes restart the process.
SetDynamicConfig ==
    /\ phase = "configured"
    /\ phase' = "dynamic"
    /\ enable' \in BOOLEAN
    /\ UNCHANGED <<setting, gossip, grpc, hookEnable, members, config, running, loop, call, overlap>>

\* Bug: New leaves the configuration to the first ReConnect.
InitNoConfig ==
    /\ phase \in {"configured", "dynamic"}
    /\ gossip' \in BOOLEAN
    /\ grpc' = enable
    /\ phase' \in {"ready", "failed"}
    /\ UNCHANGED <<enable, setting, hookEnable, members, config, running, loop, call, overlap>>

\* There is a forwarder if grpc.enable is set.  simulate.New may refuse the
\* goroutine count, which ends the process.
InitComponent ==
    /\ phase \in {"configured", "dynamic"}
    /\ gossip' \in BOOLEAN
    /\ grpc' = enable
    /\ config' = IF enable THEN setting ELSE None
    /\ phase' \in {"ready", "failed"}
    /\ UNCHANGED <<enable, setting, hookEnable, members, running, loop, call, overlap>>

\* Bug: outside a cluster Start does not wait for ReConnect.
StartInBackground ==
    /\ phase = "ready"
    /\ phase' = "started"
    /\ IF ~gossip /\ grpc
       THEN loop' = "runs" /\ call' = [call EXCEPT ![Main].pc = "getconfig"]
       ELSE UNCHANGED <<loop, call>>
    /\ hookEnable' = (gossip /\ enable)
    /\ UNCHANGED <<enable, setting, gossip, grpc, members, config, running, overlap>>

\* Bug: the loop is started wherever there is a forwarder, also in a cluster.
StartLoopAlways ==
    /\ phase = "ready"
    /\ loop' = IF grpc THEN "runs" ELSE loop
    /\ IF ~gossip /\ grpc
       THEN phase' = "starting" /\ call' = [call EXCEPT ![Main].pc = "getconfig"]
       ELSE phase' = "started" /\ UNCHANGED call
    /\ hookEnable' = (gossip /\ enable)
    /\ UNCHANGED <<enable, setting, gossip, grpc, members, config, running, overlap>>

\* Outside a cluster Start starts the forwarder's loop and calls ReConnect, inside
\* one it sets the hooks.  The other goroutines it starts are those of KeyCache
\* and Dispatcher.
Start ==
    /\ phase = "ready"
    /\ IF ~gossip /\ grpc
       THEN /\ phase' = "starting"
            /\ loop' = "runs"
            /\ call' = [call EXCEPT ![Main].pc = "getconfig"]
       ELSE phase' = "started" /\ UNCHANGED <<loop, call>>
    /\ hookEnable' = (gossip /\ enable)
    /\ UNCHANGED <<enable, setting, gossip, grpc, members, config, running, overlap>>

-----------------------------------------------------------------------------
(* The hooks, called by goroutine g.                                       *)

HooksSet == gossip /\ phase \in {"started", "stopping", "draining", "stopped", "refused"}

\* External: a hook is called only where one is set; overlap records whether
\* another is under way, and a call that connects alone starts afresh.
Calls(g, pc, addr) ==
    /\ HooksSet /\ call[g] = Idle
    /\ call' = [call EXCEPT ![g] = [pc |-> pc, addr |-> addr]]
    /\ overlap' = IF \E h \in Hooks : call[h] # Idle THEN TRUE
                  ELSE IF pc = "set" THEN FALSE ELSE overlap

HookFrame == UNCHANGED <<phase, enable, setting, gossip, grpc, hookEnable, config, running,
                         loop>>

\* The filter of both node hooks.
IsArcConsumer(n) == n \in Consumers

\* OnJoinCluster connects to some member FindMemberIPs finds.
OnJoinCluster(g) ==
    /\ grpc
    /\ \E n \in members : IsArcConsumer(n) /\ Calls(g, "set", n)
    /\ UNCHANGED members /\ HookFrame

\* A node joins, and OnNodeJoin connects to it.
OnNodeJoin(g, n) ==
    /\ n \notin members /\ members' = members \cup {n}
    /\ IsArcConsumer(n) /\ hookEnable
    /\ Calls(g, "set", n)
    /\ HookFrame

\* Bug: the leave hook is corrected to arc-storage, the join hook is not.
OnNodeLeaveStorage(g, n) ==
    /\ n \in members /\ members' = members \ {n}
    /\ hookEnable
    /\ IF n \in Storages THEN Calls(g, "leave", None) ELSE UNCHANGED <<call, overlap>>
    /\ HookFrame

\* A node leaves, and OnNodeLeave disconnects.
OnNodeLeave(g, n) ==
    /\ n \in members /\ members' = members \ {n}
    /\ IsArcConsumer(n) /\ hookEnable
    /\ Calls(g, "leave", None)
    /\ HookFrame

\* A node joins or leaves and no hook is set, or the hook ignores it.
Unnoticed(n) ==
    /\ ~(HooksSet /\ IsArcConsumer(n) /\ hookEnable)
    /\ members' = IF n \in members THEN members \ {n} ELSE members \cup {n}
    /\ UNCHANGED <<call, overlap>> /\ HookFrame

\* viper.Set.
HookSet(g) ==
    /\ call[g].pc = "set"
    /\ setting' = call[g].addr
    /\ call' = [call EXCEPT ![g] = [pc |-> "getconfig", addr |-> None]]
    /\ UNCHANGED <<phase, members, config, running, overlap>>

HookDisconnect(g) ==
    /\ call[g].pc = "leave"
    /\ running' = FALSE
    /\ call' = [call EXCEPT ![g] = Idle]
    /\ UNCHANGED <<phase, members, config, setting, overlap>>

-----------------------------------------------------------------------------
(* ReConnect, of a hook or of Start.                                       *)

ReConnectGetConfig(g) ==
    /\ call[g].pc = "getconfig"
    /\ call' = [call EXCEPT ![g] = [pc |-> "config", addr |-> setting]]
    /\ UNCHANGED <<phase, members, config, setting, running, overlap>>

\* Bug: the configuration read by New is kept.
ReConnectKeepsConfig(g) ==
    /\ call[g].pc = "config"
    /\ call' = [call EXCEPT ![g] = [pc |-> "run", addr |-> None]]
    /\ UNCHANGED <<phase, members, config, setting, running, overlap>>

ReConnectConfig(g) ==
    /\ call[g].pc = "config"
    /\ config' = call[g].addr
    /\ call' = [call EXCEPT ![g] = [pc |-> "run", addr |-> None]]
    /\ UNCHANGED <<phase, members, setting, running, overlap>>

\* It returns, and so does Start if it was the caller.
ReConnectRun(g) ==
    /\ call[g].pc = "run"
    /\ running' = TRUE
    /\ call' = [call EXCEPT ![g] = Idle]
    /\ phase' = IF phase = "starting" THEN "started" ELSE phase
    /\ UNCHANGED <<members, config, setting, overlap>>

\* The steps of a call under way.
Proceed(g) ==
    /\ \/ HookSet(g) \/ HookDisconnect(g) \/ ReConnectGetConfig(g)
       \/ ReConnectConfig(g) \/ ReConnectRun(g)
    /\ UNCHANGED <<enable, gossip, grpc, hookEnable, loop>>

-----------------------------------------------------------------------------
(* Stop: simulate.Stop does nothing, the forwarder's drains if it runs.    *)

StopFrame == UNCHANGED <<enable, setting, gossip, grpc, hookEnable, members, config, loop,
                         call, overlap>>

StopBegin ==
    /\ phase = "started"
    /\ phase' = IF grpc THEN "stopping" ELSE "stopped"
    /\ UNCHANGED running /\ StopFrame

StopDecides ==
    /\ phase = "stopping"
    /\ phase' = IF running THEN "draining" ELSE "refused"
    /\ running' = FALSE
    /\ StopFrame

StopEnds ==
    /\ phase = "draining"
    /\ phase' = "stopped"
    /\ UNCHANGED running /\ StopFrame

Stop == StopBegin \/ StopDecides \/ StopEnds

\* The context the loop was started with is cancelled once shutdown was requested.
LoopExits ==
    /\ loop = "runs" /\ phase \in {"stopping", "draining", "stopped", "refused"}
    /\ loop' = "exited"
    /\ UNCHANGED <<phase, running>>
    /\ UNCHANGED <<enable, setting, gossip, grpc, hookEnable, members, config, call, overlap>>

-----------------------------------------------------------------------------
Next ==
    \/ PreInit \/ SetDynamicConfig \/ InitComponent \/ Start
    \/ \E g \in Hooks : \/ OnJoinCluster(g)
                        \/ \E n \in Nodes : OnNodeJoin(g, n) \/ OnNodeLeave(g, n)
    \/ \E n \in Nodes : Unnoticed(n)
    \/ \E g \in Hooks \cup {Main} : Proceed(g)
    \/ Stop \/ LoopExits

Spec == Init /\ [][Next]_vars

-----------------------------------------------------------------------------
(* Properties.                                                             *)

\* No hook calls a forwarder that was not created, although grpc.enable is read
\* by New and again when the hooks are set (cluster.go:24, 53, 67,
\* component.go:85).
NoNilForwarder ==
    \A g \in Hooks \cup {Main} : call[g].pc \in {"getconfig", "leave"} => grpc

Quiet == \A g \in Hooks \cup {Main} : call[g] = Idle

\* Between calls that did not overlap, the forwarder uses the address of the
\* setting, whatever events the hooks took or ignored (cluster.go:35-39, 68-71).
AddressInForce == grpc /\ Quiet /\ ~overlap => config = setting

\* In a cluster, between calls that did not overlap, packages are only sent to
\* a node that is alive and was offered to the hooks: every departure of such
\* a node, before or after another joined, stops them (cluster.go:46-74).
ConnectedToMember ==
    gossip /\ running /\ Quiet /\ ~overlap =>
        \E n \in members : IsArcConsumer(n) /\ config = n

\* Outside a cluster a Stop that has cleared running is final: no ReConnect is
\* left behind that would set it again (component.go:156-162, 171-182).
StopIsFinal == ~gossip /\ phase \in {"draining", "stopped", "refused"} => ~running

\* The forwarder is connected to arc-storage: what the comments of the hooks say
\* they look for (cluster.go:14, 29, 47, 60).
ConnectedToStorage == gossip /\ running => config \in Storages

-----------------------------------------------------------------------------
(* Forwarder's view of the component: an empty pool, its callers and Stop. *)

CallerView(c) ==
    [pc |-> CASE c.pc \in {"idle", "set", "leave"} -> "idle"
              [] c.pc = "run" -> "mark"
              [] OTHER -> c.pc,
     cfg |-> IF c.pc = "config" THEN c.addr ELSE None,
     todo |-> {}]

StopView ==
    [pc |-> CASE phase = "stopping" -> "requested"
              [] phase = "draining" -> "range"
              [] phase = "stopped" -> "drained"
              [] phase = "refused" -> "refused"
              [] OTHER -> "idle",
     key |-> None, conn |-> None, todo |-> {}, inflight |-> {}]

LoopView(pc) == [pc |-> pc, conn |-> None, todo |-> {}]

\* A loop that runs is between two ticks.  In a cluster Forwarder has none; outside
\* one it has one from the beginning, so there must be one when Start has begun.
ClusteredLoop == IF loop = "runs" THEN "idle" ELSE "exited"
StandaloneLoop == IF loop = "runs" \/ phase \in {"ready", "failed"} THEN "idle" ELSE "exited"

\* Until Start calls it, Main is about to call ReConnect.
MainView == IF phase \in {"ready", "failed"}
            THEN CallerView([pc |-> "getconfig", addr |-> None])
            ELSE CallerView(call[Main])

Clustered == INSTANCE Forwarder
    WITH Keys <- {}, Conns <- {}, Streams <- {}, Callers <- Hooks,
         InCluster <- TRUE, DialErrors <- FALSE,
         pools <- <<>>, conn <- <<>>, stream <- <<>>, writer <- <<>>,
         caller <- [h \in Hooks |-> CallerView(call[h])],
         loop <- LoopView(ClusteredLoop), stop <- StopView, panic <- "none"

Standalone == INSTANCE Forwarder
    WITH Keys <- {}, Conns <- {}, Streams <- {}, Callers <- {Main},
         InCluster <- FALSE, DialErrors <- FALSE,
         pools <- <<>>, conn <- <<>>, stream <- <<>>, writer <- <<>>,
         caller <- [h \in {Main} |-> MainView],
         loop <- LoopView(StandaloneLoop), stop <- StopView, panic <- "none"

\* The component creates the forwarder in a state Forwarder starts from, and uses
\* it only in ways Forwarder has steps for: in a cluster from the hooks, each of
\* which sets the address and then reads it, and with no loop, which would race
\* with the retiring of Conns; outside one from Start, which returns before Stop
\* is called, and with a loop that runs from then until shutdown is requested
\* (cluster.go:27-74, component.go:54-182).
CallsForwarderStep ==
    /\ ~grpc /\ grpc' => IF gossip' THEN Clustered!Init' ELSE Standalone!Init'
    /\ grpc /\ gossip => [Clustered!Next]_(Clustered!vars)
    /\ grpc /\ ~gossip => [Standalone!Next]_(Standalone!vars)

CallsForwarder == [][CallsForwarderStep]_vars
=============================================================================
