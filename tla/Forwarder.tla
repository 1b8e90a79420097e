----------------------------- MODULE Forwarder -----------------------------
(***************************************************************************)
(* The gRPC forwarder (pkg/grpc/server.go): a pool of connections, one per *)
(* masked sensor id, used without a lock by                                *)
(*   - the package workers, in Write.  handle.go gives all ids with one    *)
(*     masked value to one worker, so each key has a single writer;        *)
(*   - the callers of ReConnect and Disconnect: the component's Start      *)
(*     outside a cluster, the gossip hooks inside one;                     *)
(*   - the Start loop, which the component runs only outside a cluster;    *)
(*   - Stop, called once on shutdown.                                      *)
(* A step is one access to state that another goroutine can change at that *)
(* point, with the accesses before it that nobody can tell apart from it   *)
(* (README.md, "Grain of the steps").  Definitions marked "Bug" are wrong  *)
(* variants of the one that follows them; no specification uses them.      *)
(***************************************************************************)
CONSTANTS
    Keys,        \* pool keys, the values of id & mask
    Conns,       \* identities of Conn objects (memory the runtime may reuse)
    Streams,     \* identities of client streams
    Servers,     \* addresses the grpc.server setting may hold
    Callers,     \* goroutines that call ReConnect or Disconnect
    None,        \* Go's nil
    InCluster,   \* the component found a gossip cluster
    DialErrors   \* grpc.DialContext may refuse the configured address

ASSUME ModeAssumption == InCluster \in BOOLEAN /\ DialErrors \in BOOLEAN
ASSUME NilAssumption ==
    None \notin Keys /\ None \notin Conns /\ None \notin Streams /\ None \notin Servers

VARIABLES
    pools,    \* Server.pools: the Conn stored under each key
    conn,     \* the fields of every Conn
    running,  \* Server.running
    config,   \* Server.config.Server
    setting,  \* viper's grpc.server, which GetConfig reads
    stream,   \* state of every client stream
    writer,   \* locals of Write, per key
    caller,   \* locals of ReConnect, per caller
    loop,     \* locals of the Start loop
    stop,     \* locals of Stop
    panic     \* the function whose nil dereference ended the process

vars == <<pools, conn, running, config, setting, stream,
          writer, caller, loop, stop, panic>>

\* A Conn.  addr: what conn.conn was dialled to, None while conn.conn and
\* conn.grpcclient are nil.  closed: conn.conn.Close() was called.
Conn == [addr : Servers \cup {None}, closed : BOOLEAN,
         grpcstream : Streams \cup {None}, valid : BOOLEAN, reconn : BOOLEAN]

EmptyConn == [addr |-> None, closed |-> FALSE, grpcstream |-> None,
              valid |-> FALSE, reconn |-> FALSE]

\* "open": Send succeeds.  "dead": the transport or the server ended it, its
\* goroutine waits for a receive.  "done": received to its end.
StreamState == {"open", "dead", "done"}

\* The locals of a goroutine: where it is and what it holds.
WriterLocals == [pc : {"idle", "load", "dial", "open", "send", "recv",
                       "reopen", "resend", "retire", "delete"},
                 p : Conns \cup {None}]
CallerLocals == [pc : {"idle", "getconfig", "mark"}, cfg : {None}, todo : SUBSET Keys]
                    \cup [pc : {"config"}, cfg : Servers, todo : SUBSET Keys]
LoopLocals == [pc : {"idle", "range", "open", "validate", "exited"},
               conn : Conns \cup {None}, todo : SUBSET Keys]
StopLocals == [pc : {"idle", "requested", "range", "call", "delete", "refused", "drained"},
               key : Keys \cup {None}, conn : Conns \cup {None},
               todo : SUBSET Keys, inflight : SUBSET Keys]

WriterIdle == [pc |-> "idle", p |-> None]
CallerIdle == [pc |-> "idle", cfg |-> None, todo |-> {}]
LoopIdle == [pc |-> "idle", conn |-> None, todo |-> {}]
StopIdle == [pc |-> "idle", key |-> None, conn |-> None, todo |-> {}, inflight |-> {}]

\* The type invariant.
TypeOK ==
    /\ pools \in [Keys -> Conns \cup {None}]
    /\ conn \in [Conns -> Conn]
    /\ running \in BOOLEAN
    /\ config \in Servers
    /\ setting \in Servers
    /\ stream \in [Streams -> StreamState]
    /\ writer \in [Keys -> WriterLocals]
    /\ caller \in [Callers -> CallerLocals]
    /\ loop \in LoopLocals
    /\ stop \in StopLocals
    /\ panic \in {"none", "Start", "Write", "Stop"}

\* New; outside a cluster the component's Start is about to call ReConnect,
\* inside one it starts no loop and leaves ReConnect to the hooks.
Init ==
    /\ pools = [k \in Keys |-> None]
    /\ conn = [c \in Conns |-> EmptyConn]
    /\ running = FALSE
    /\ config \in Servers
    /\ setting = config
    /\ stream = [s \in Streams |-> "done"]
    /\ writer = [k \in Keys |-> WriterIdle]
    /\ caller = [h \in Callers |->
                    [CallerIdle EXCEPT !.pc = IF InCluster THEN "idle" ELSE "getconfig"]]
    /\ loop = [LoopIdle EXCEPT !.pc = IF InCluster THEN "exited" ELSE "idle"]
    /\ stop = StopIdle
    /\ panic = "none"

\* The keys a sync.Map Range may visit: every key present when it starts, and
\* possibly keys stored while it runs.
Ranges == {ks \in SUBSET Keys : {k \in Keys : pools[k] # None} \subseteq ks}

\* The pool or a goroutine still refers to Conn c.
Reachable(c) ==
    \/ \E k \in Keys : pools[k] = c \/ writer[k].p = c
    \/ loop.conn = c
    \/ stop.conn = c

Held(s) == \E c \in Conns : Reachable(c) /\ conn[c].grpcstream = s

\* FrameDataCallback on Conn c returns s, a stream nobody holds yet, which is
\* assigned to c.grpcstream.
Opens(c, s) ==
    /\ ~Held(s)
    /\ stream' = [stream EXCEPT ![s] = "open"]
    /\ conn' = [conn EXCEPT ![c].grpcstream = s]

\* c leaves the pool: unless one of users refers to it, its memory is free.
Freed(c, users) ==
    conn' = IF c \in users THEN conn ELSE [conn EXCEPT ![c] = EmptyConn]

-----------------------------------------------------------------------------
(* Write, run by the writer of key k for each package of k.  A Write that  *)
(* finds the service not running or its Conn not usable drops the package. *)

P(k) == writer[k].p
Goto(k, pc) == writer' = [writer EXCEPT ![k].pc = pc]
Return(k) == writer' = [writer EXCEPT ![k] = WriterIdle]

Usable(c) == conn[c].valid /\ conn[c].grpcstream # None

\* The running check; while it is FALSE, Write returns at once (a stutter).
WriteBegin(k) ==
    /\ writer[k].pc = "idle" /\ running
    /\ Goto(k, "load")
    /\ UNCHANGED <<pools, conn, stream, panic>>

\* Bug: a Conn that is not usable is given up before reconn is looked at.
WriteLoadUsableFirst(k) ==
    /\ writer[k].pc = "load" /\ pools[k] # None
    /\ writer' = [writer EXCEPT ![k] =
                    IF ~Usable(pools[k]) THEN WriterIdle
                    ELSE [pc |-> IF conn[pools[k]].reconn THEN "retire" ELSE "send",
                          p |-> pools[k]]]
    /\ UNCHANGED <<pools, conn, stream, panic>>

\* Bug: a Conn without a usable stream is retired like one marked reconn.
WriteLoadRetiresUnusable(k) ==
    /\ writer[k].pc = "load" /\ pools[k] # None
    /\ writer' = [writer EXCEPT ![k] =
                    [pc |-> IF conn[pools[k]].reconn \/ ~Usable(pools[k])
                            THEN "retire" ELSE "send",
                     p |-> pools[k]]]
    /\ UNCHANGED <<pools, conn, stream, panic>>

\* pools.Load finds a Conn, whose reconn, valid and grpcstream are read.
WriteLoad(k) ==
    /\ writer[k].pc = "load" /\ pools[k] # None
    /\ writer' = [writer EXCEPT ![k] =
                    CASE conn[pools[k]].reconn -> [pc |-> "retire", p |-> pools[k]]
                      [] ~conn[pools[k]].reconn /\ Usable(pools[k]) ->
                            [pc |-> "send", p |-> pools[k]]
                      [] OTHER -> WriterIdle]
    /\ UNCHANGED <<pools, conn, stream, panic>>

\* pools.Load finds nothing: an empty Conn is stored before it is dialled.
WriteStore(k) ==
    /\ writer[k].pc = "load" /\ pools[k] = None
    /\ \E c \in Conns :
          /\ ~Reachable(c)
          /\ conn' = [conn EXCEPT ![c] = EmptyConn]
          /\ pools' = [pools EXCEPT ![k] = c]
          /\ writer' = [writer EXCEPT ![k] = [pc |-> "dial", p |-> c]]
    /\ UNCHANGED <<stream, panic>>

\* factory() dials config.Server.
WriteDial(k) ==
    /\ writer[k].pc = "dial"
    /\ conn' = [conn EXCEPT ![P(k)].addr = config]
    /\ Goto(k, "open")
    /\ UNCHANGED <<pools, stream, panic>>

\* Bug: a dial that blocks until DialTimeout fails whatever the address.
WriteFailsOnTimeout(k) ==
    /\ writer[k].pc \in {"dial", "open"}
    /\ Return(k)
    /\ UNCHANGED <<pools, conn, stream, panic>>

\* factory() or the first FrameDataCallback fails: Write returns and leaves
\* the Conn in the pool as it is.
WriteFails(k) ==
    /\ \/ writer[k].pc = "dial" /\ DialErrors
       \/ writer[k].pc = "open"
    /\ Return(k)
    /\ UNCHANGED <<pools, conn, stream, panic>>

\* The first stream of a new Conn, then the reconn check.
WriteOpen(k) ==
    /\ writer[k].pc = "open"
    /\ \E s \in Streams :
          /\ ~Held(s)
          /\ stream' = [stream EXCEPT ![s] = "open"]
          /\ conn' = [conn EXCEPT ![P(k)].grpcstream = s, ![P(k)].valid = TRUE]
    /\ Goto(k, IF conn[P(k)].reconn THEN "retire" ELSE "send")
    /\ UNCHANGED <<pools, panic>>

\* The first and the second Send; p.grpcstream is read again for each.
SendAccepted(k) == stream[conn[P(k)].grpcstream] = "open"

WriteSend(k) ==
    /\ writer[k].pc \in {"send", "resend"} /\ SendAccepted(k)
    /\ Return(k)
    /\ UNCHANGED <<pools, conn, stream, panic>>

\* Bug: the refused stream is replaced without CloseAndRecv.
WriteSendFailsNoRecv(k) ==
    /\ writer[k].pc = "send" /\ ~SendAccepted(k)
    /\ Goto(k, "reopen")
    /\ UNCHANGED <<pools, conn, stream, panic>>

WriteSendFails(k) ==
    /\ writer[k].pc = "send" /\ ~SendAccepted(k)
    /\ Goto(k, "recv")
    /\ UNCHANGED <<pools, conn, stream, panic>>

\* CloseAndRecv of the stream that refused the package.
WriteRecv(k) ==
    /\ writer[k].pc = "recv"
    /\ stream' = [stream EXCEPT ![conn[P(k)].grpcstream] = "done"]
    /\ Goto(k, "reopen")
    /\ UNCHANGED <<pools, conn, panic>>

WriteReopen(k) ==
    /\ writer[k].pc = "reopen"
    /\ \E s \in Streams : Opens(P(k), s)
    /\ Goto(k, "resend")
    /\ UNCHANGED <<pools, panic>>

\* Bug: the error of the second FrameDataCallback does not end Write.
WriteReopenIgnoresError(k) ==
    /\ writer[k].pc = "reopen"
    /\ conn' = [conn EXCEPT ![P(k)].grpcstream = None, ![P(k)].valid = FALSE]
    /\ Goto(k, "resend")
    /\ UNCHANGED <<pools, stream, panic>>

\* The failed FrameDataCallback leaves nil in p.grpcstream, valid is cleared.
WriteReopenFails(k) ==
    /\ writer[k].pc = "reopen"
    /\ conn' = [conn EXCEPT ![P(k)].grpcstream = None, ![P(k)].valid = FALSE]
    /\ Return(k)
    /\ UNCHANGED <<pools, stream, panic>>

WriteResendFails(k) ==
    /\ writer[k].pc = "resend" /\ ~SendAccepted(k)
    /\ conn' = [conn EXCEPT ![P(k)].valid = FALSE]
    /\ Return(k)
    /\ UNCHANGED <<pools, stream, panic>>

\* The reconn branch: CloseAndRecv if there is a stream, then p.conn.Close().
WriteRetire(k) ==
    /\ writer[k].pc = "retire" /\ conn[P(k)].addr # None
    /\ stream' = [s \in Streams |-> IF s = conn[P(k)].grpcstream THEN "done" ELSE stream[s]]
    /\ conn' = [conn EXCEPT ![P(k)].closed = TRUE]
    /\ Goto(k, "delete")
    /\ UNCHANGED <<pools, panic>>

\* Close of the nil ClientConn of a Conn whose dial failed.
WriteRetireNil(k) ==
    /\ writer[k].pc = "retire" /\ conn[P(k)].addr = None
    /\ panic' = "Write"
    /\ UNCHANGED <<pools, conn, stream, writer>>

\* Bug: the closed Conn is left in the pool.
WriteDeleteForgotten(k) ==
    /\ writer[k].pc = "delete"
    /\ Return(k)
    /\ UNCHANGED <<pools, conn, stream, panic>>

WriteDelete(k) ==
    /\ writer[k].pc = "delete"
    /\ pools' = [pools EXCEPT ![k] = None]
    /\ Freed(P(k), {loop.conn, stop.conn})
    /\ Return(k)
    /\ UNCHANGED <<stream, panic>>

WriteFrame == UNCHANGED <<running, config, setting, caller, loop, stop>>

Write(k) ==
    /\ \/ WriteBegin(k) \/ WriteLoad(k) \/ WriteStore(k) \/ WriteDial(k)
       \/ WriteFails(k) \/ WriteOpen(k) \/ WriteSend(k) \/ WriteSendFails(k)
       \/ WriteRecv(k) \/ WriteReopen(k) \/ WriteReopenFails(k)
       \/ WriteResendFails(k) \/ WriteRetire(k) \/ WriteRetireNil(k) \/ WriteDelete(k)
    /\ WriteFrame

-----------------------------------------------------------------------------
(* ReConnect and Disconnect, called by h.                                  *)

\* A gossip hook sets grpc.server and calls ReConnect.
ReConnectBegin(h) ==
    /\ caller[h].pc = "idle" /\ InCluster
    /\ setting' \in Servers
    /\ caller' = [caller EXCEPT ![h].pc = "getconfig"]
    /\ UNCHANGED <<conn, running, config>>

\* Bug: the configuration that was read is not kept.
ReConnectNoConfig(h) ==
    /\ caller[h].pc = "getconfig"
    /\ caller' = [caller EXCEPT ![h].pc = "config"]
    /\ UNCHANGED <<conn, running, config, setting>>

ReConnectGetConfig(h) ==
    /\ caller[h].pc = "getconfig"
    /\ caller' = [caller EXCEPT ![h].cfg = setting, ![h].pc = "config"]
    /\ UNCHANGED <<conn, running, config, setting>>

\* s.config takes the new configuration, then pools.Range begins.
ReConnectConfig(h) ==
    /\ caller[h].pc = "config"
    /\ config' = caller[h].cfg
    /\ \E ks \in Ranges :
          caller' = [caller EXCEPT ![h] = [pc |-> "mark", cfg |-> None, todo |-> ks]]
    /\ UNCHANGED <<conn, running, setting>>

\* Bug: a Conn that is not valid yet is thought not to need a new connection.
ReConnectMarkValid(h, k) ==
    /\ caller[h].pc = "mark" /\ k \in caller[h].todo
    /\ conn' = [c \in Conns |-> IF c = pools[k] /\ conn[c].valid
                                THEN [conn[c] EXCEPT !.reconn = TRUE] ELSE conn[c]]
    /\ caller' = [caller EXCEPT ![h].todo = @ \ {k}]
    /\ UNCHANGED <<running, config, setting>>

ReConnectMark(h, k) ==
    /\ caller[h].pc = "mark" /\ k \in caller[h].todo
    /\ conn' = [c \in Conns |-> IF c = pools[k] THEN [conn[c] EXCEPT !.reconn = TRUE]
                                                ELSE conn[c]]
    /\ caller' = [caller EXCEPT ![h].todo = @ \ {k}]
    /\ UNCHANGED <<running, config, setting>>

ReConnectRun(h) ==
    /\ caller[h].pc = "mark" /\ caller[h].todo = {}
    /\ running' = TRUE
    /\ caller' = [caller EXCEPT ![h] = CallerIdle]
    /\ UNCHANGED <<conn, config, setting>>

Disconnect(h) ==
    /\ caller[h].pc = "idle" /\ InCluster
    /\ running' = FALSE
    /\ UNCHANGED <<conn, config, setting, caller>>

\* The steps of a call under way.
ReConnect(h) ==
    /\ \/ ReConnectGetConfig(h) \/ ReConnectConfig(h)
       \/ \E k \in Keys : ReConnectMark(h, k)
       \/ ReConnectRun(h)
    /\ UNCHANGED <<pools, stream, writer, loop, stop, panic>>

Hook(h) ==
    /\ ReConnectBegin(h) \/ Disconnect(h)
    /\ UNCHANGED <<pools, stream, writer, loop, stop, panic>>

-----------------------------------------------------------------------------
(* Start: on a tick, while running, Range over the pool and open a stream  *)
(* on every Conn that is neither valid nor marked reconn.                  *)

StartTick ==
    /\ loop.pc = "idle" /\ running
    /\ \E ks \in Ranges : loop' = [loop EXCEPT !.pc = "range", !.todo = ks]
    /\ UNCHANGED <<conn, stream, panic>>

\* Bug: a Conn left without a stream by a failed reopen is passed over.
ReplayableWithStream(c) ==
    c # None /\ ~conn[c].valid /\ ~conn[c].reconn /\ conn[c].grpcstream # None

Replayable(c) == c # None /\ ~conn[c].valid /\ ~conn[c].reconn

StartVisit(k) ==
    /\ loop.pc = "range" /\ k \in loop.todo
    /\ loop' = IF Replayable(pools[k])
               THEN [pc |-> "open", conn |-> pools[k], todo |-> loop.todo \ {k}]
               ELSE [loop EXCEPT !.todo = @ \ {k}]
    /\ UNCHANGED <<conn, stream, panic>>

StartOpen ==
    /\ loop.pc = "open" /\ conn[loop.conn].addr # None /\ ~conn[loop.conn].closed
    /\ \E s \in Streams : Opens(loop.conn, s)
    /\ loop' = [loop EXCEPT !.pc = "validate"]
    /\ UNCHANGED panic

\* Bug: the nil that comes with an error is assigned to grpcstream.
StartOpenFailsNil ==
    /\ loop.pc = "open" /\ conn[loop.conn].addr # None
    /\ conn' = [conn EXCEPT ![loop.conn].grpcstream = None]
    /\ loop' = LoopIdle
    /\ UNCHANGED <<stream, panic>>

\* On an error the function returns false, which ends the Range.
StartOpenFails ==
    /\ loop.pc = "open" /\ conn[loop.conn].addr # None
    /\ loop' = LoopIdle
    /\ UNCHANGED <<conn, stream, panic>>

\* grpcclient is nil: the Conn is not dialled yet, or its dial failed.
StartOpenNil ==
    /\ loop.pc = "open" /\ conn[loop.conn].addr = None
    /\ panic' = "Start"
    /\ UNCHANGED <<conn, stream, loop>>

StartValidate ==
    /\ loop.pc = "validate"
    /\ conn' = [conn EXCEPT ![loop.conn].valid = TRUE]
    /\ loop' = [loop EXCEPT !.pc = "range", !.conn = None]
    /\ UNCHANGED <<stream, panic>>

StartRangeEnds ==
    /\ loop.pc = "range" /\ loop.todo = {}
    /\ loop' = LoopIdle
    /\ UNCHANGED <<conn, stream, panic>>

\* The context is cancelled after shutdown was requested.
StartExits ==
    /\ loop.pc = "idle" /\ stop.pc # "idle"
    /\ loop' = [loop EXCEPT !.pc = "exited"]
    /\ UNCHANGED <<conn, stream, panic>>

StartFrame == UNCHANGED <<pools, running, config, setting, writer, caller, stop>>

Start ==
    /\ \/ StartTick \/ (\E k \in Keys : StartVisit(k))
       \/ StartOpen \/ StartOpenFails \/ StartOpenNil
       \/ StartValidate \/ StartRangeEnds \/ StartExits
    /\ StartFrame

-----------------------------------------------------------------------------
(* Stop.                                                                   *)

\* Shutdown is requested after the component's Start returned, which outside
\* a cluster has called ReConnect to its end.
StopRequest ==
    /\ stop.pc = "idle"
    /\ InCluster \/ \A h \in Callers : caller[h].pc = "idle"
    /\ stop' = [stop EXCEPT !.pc = "requested"]
    /\ UNCHANGED <<pools, conn, running, stream, panic>>

StopRefused ==
    /\ stop.pc = "requested" /\ ~running
    /\ stop' = [stop EXCEPT !.pc = "refused"]
    /\ UNCHANGED <<pools, conn, running, stream, panic>>

\* inflight is auxiliary: the keys inside Write when running is cleared.
StopBegin ==
    /\ stop.pc = "requested" /\ running
    /\ running' = FALSE
    /\ \E ks \in Ranges :
          stop' = [stop EXCEPT !.pc = "range", !.todo = ks,
                               !.inflight = {k \in Keys : writer[k].pc # "idle"}]
    /\ UNCHANGED <<pools, conn, stream, panic>>

\* Bug: the Range goes on at a Conn without a stream, which stays in the pool.
StopVisitSkips(k) ==
    /\ stop.pc = "range" /\ k \in stop.todo
    /\ stop' = IF pools[k] = None \/ conn[pools[k]].grpcstream = None
               THEN [stop EXCEPT !.todo = @ \ {k}]
               ELSE [stop EXCEPT !.pc = "call", !.key = k, !.conn = pools[k],
                                 !.todo = @ \ {k}]
    /\ UNCHANGED <<pools, conn, running, stream, panic>>

\* Load the Conn of k and test its grpcstream for nil.
StopVisit(k) ==
    /\ stop.pc = "range" /\ k \in stop.todo
    /\ stop' = IF pools[k] = None
               THEN [stop EXCEPT !.todo = @ \ {k}]
               ELSE [stop EXCEPT !.pc = IF conn[pools[k]].grpcstream = None
                                        THEN "delete" ELSE "call",
                                 !.key = k, !.conn = pools[k], !.todo = @ \ {k}]
    /\ UNCHANGED <<pools, conn, running, stream, panic>>

\* p.grpcstream is read again and CloseAndRecv returns the server's response.
StopRecv ==
    /\ stop.pc = "call"
    /\ \E s \in Streams :
          /\ s = conn[stop.conn].grpcstream /\ stream[s] = "open"
          /\ stream' = [stream EXCEPT ![s] = "done"]
    /\ stop' = [stop EXCEPT !.pc = "delete"]
    /\ UNCHANGED <<pools, conn, running, panic>>

\* The second read finds nil, or CloseAndRecv returns an error with a nil
\* resp, whose Successed field is then read.
StopRecvNil ==
    /\ stop.pc = "call"
    /\ \A s \in Streams : s = conn[stop.conn].grpcstream => stream[s] # "open"
    /\ panic' = "Stop"
    /\ UNCHANGED <<pools, conn, running, stream, stop>>

StopDelete ==
    /\ stop.pc = "delete"
    /\ pools' = [pools EXCEPT ![stop.key] = None]
    /\ stop' = [stop EXCEPT !.pc = "range", !.key = None, !.conn = None]
    /\ Freed(stop.conn, {loop.conn} \cup {writer[k].p : k \in Keys} \cup
                        {pools[k] : k \in Keys \ {stop.key}})
    /\ UNCHANGED <<running, stream, panic>>

StopEnds ==
    /\ stop.pc = "range" /\ stop.todo = {}
    /\ stop' = [stop EXCEPT !.pc = "drained"]
    /\ UNCHANGED <<pools, conn, running, stream, panic>>

Stop ==
    /\ \/ StopRequest \/ StopRefused \/ StopBegin \/ (\E k \in Keys : StopVisit(k))
       \/ StopRecv \/ StopRecvNil \/ StopDelete \/ StopEnds
    /\ UNCHANGED <<config, setting, writer, caller, loop>>

-----------------------------------------------------------------------------
\* External: the server or the transport ends a stream.
Break(s) ==
    /\ stream[s] = "open" /\ Held(s)
    /\ stream' = [stream EXCEPT ![s] = "dead"]
    /\ UNCHANGED <<pools, conn, running, config, setting, writer, caller, loop, stop, panic>>

\* A panic in any goroutine ends the process.
Next ==
    /\ panic = "none"
    /\ \/ \E k \in Keys : Write(k)
       \/ \E h \in Callers : ReConnect(h) \/ Hook(h)
       \/ Start
       \/ Stop
       \/ \E s \in Streams : Break(s)

Spec == Init /\ [][Next]_vars

\* Goroutines that can run do run, packages keep coming and the ticker keeps
\* ticking (every step of Write, ReConnect and Start under WF); a stream that
\* is opened again and again is opened at last (SF).  Hooks, shutdown and
\* broken streams are never forced.
Fairness ==
    /\ \A k \in Keys :
          /\ WF_vars(panic = "none" /\ Write(k))
          /\ SF_vars(panic = "none" /\ WriteOpen(k) /\ WriteFrame)
          /\ SF_vars(panic = "none" /\ WriteReopen(k) /\ WriteFrame)
    /\ \A h \in Callers : WF_vars(panic = "none" /\ ReConnect(h))
    /\ WF_vars(panic = "none" /\ Start)
    /\ SF_vars(panic = "none" /\ StartOpen /\ StartFrame)

FairSpec == Spec /\ Fairness

-----------------------------------------------------------------------------
(* Properties.                                                             *)

\* Caller h has replaced s.config and has yet to visit key k.
WillVisit(h, k) == caller[h].pc = "mark" /\ k \in caller[h].todo

\* A Conn in the pool that was dialled to an address other than the current
\* one is marked reconn, or a ReConnect under way will still mark it.  It is
\* what makes an unlocked ReConnect effective: it holds because ReConnect sets
\* the configuration before it ranges over the pool and Write stores a Conn
\* before it dials (server.go:101-105, 194-196).
NoStaleConn ==
    \A k \in Keys : \A c \in Conns :
        /\ pools[k] = c
        /\ conn[c].addr \notin {None, config}
        /\ ~conn[c].reconn
        => \E h \in Callers : WillVisit(h, k)

\* Whenever Write is about to use p.grpcstream, the field is not nil, although
\* it was tested earlier and is read again without a lock, and the Start loop
\* assigns it too (server.go:229-259).
SendHasStream ==
    \A k \in Keys : writer[k].pc \in {"send", "recv", "resend"} =>
        conn[writer[k].p].grpcstream # None

\* A step by which the Write of key k, or Stop at key k, takes up Conn c.
WriteTakes(k, c) == writer[k].p # c /\ writer'[k].p = c
StopTakes(k, c) == stop.conn # c /\ stop'.conn = c /\ stop'.key = k

\* A Conn whose ClientConn was closed is not used again: no Write ever takes it
\* up.  Stop may, in one window only: its Range meets the Conn after the Write
\* that retires it has closed it and before that Write has deleted it
\* (server.go:222-223, 274); a stream it finds there fails like a broken one.
\* The loop runs only where no Conn is marked, so none is closed.
ClosedNotTaken ==
    [][\A k \in Keys : \A c \in Conns : conn'[c].closed =>
          /\ ~WriteTakes(k, c)
          /\ StopTakes(k, c) => writer[k] = [pc |-> "delete", p |-> c]]_vars

\* Every stream that was not received to its end, and so keeps a goroutine
\* alive, is the grpcstream of a Conn that is still in use (the rule of the
\* comment at server.go:248).  Stated up to the moment shutdown is requested.
NoOrphanStream ==
    stop.pc = "idle" => \A s \in Streams : stream[s] # "done" => Held(s)

\* Write never dereferences nil: a Conn whose reconn branch runs was dialled
\* (server.go:215-222).
WriteNeverPanics == panic # "Write"

\* Likewise for the Start loop (server.go:146) and for Stop (server.go:277-281).
StartNeverPanics == panic # "Start"
StopNeverPanics == panic # "Stop"

\* A Stop that ran to its end leaves a Conn in the pool only for a key whose
\* Write was past its running check when Stop cleared running: no Write that
\* starts later can add or keep one (server.go:187, 273-286).  Outside a
\* cluster, where nothing sets running again.
StopDrains ==
    stop.pc = "drained" => \A k \in Keys : pools[k] # None => k \in stop.inflight

\* Once marked, a Conn leaves the pool, as long as packages arrive for its key
\* and the service is not stopped or disconnected (server.go:215-226).
MarkedIsRetired ==
    \A k \in Keys : \A c \in Conns :
        pools[k] = c /\ conn[c].reconn
            ~> pools[k] # c \/ ~running \/ panic # "none"

\* Outside a cluster a Conn that lost its stream becomes valid again, unless
\* shutdown is requested or the process goes down (server.go:136-156).
InvalidIsReplayed ==
    \A k \in Keys : \A c \in Conns :
        pools[k] = c /\ ~conn[c].valid
            ~> pools[k] # c \/ conn[c].valid \/ stop.pc # "idle" \/ panic # "none"

-----------------------------------------------------------------------------
(* Link, implemented.                                                      *)

\* The keys with a Conn; where it was dialled to; those whose Conn is marked, or
\* will be by a ReConnect under way.
Open == {k \in Keys : pools[k] # None}
To == [k \in Keys |-> IF k \in Open THEN conn[pools[k]].addr ELSE None]
Old == {k \in Open : conn[pools[k]].reconn \/ \E h \in Callers : WillVisit(h, k)}
Closing == stop.pc \notin {"idle", "requested", "refused"}

L == INSTANCE Link WITH address <- config, open <- Open, to <- To, old <- Old,
                        closing <- Closing

\* The forwarder implements Link: the marks that ReConnect sets one by one take
\* effect as if all at the assignment of s.config, a Conn that is in order is
\* never dropped or redialled, and a replacement is dialled to the address in
\* force, whatever hooks, packages and Stop do meanwhile (server.go:100-107,
\* 186-226, 274-287).
ImplementsLink == L!Spec

-----------------------------------------------------------------------------
(* The inductive invariant: the safety properties above that hold in every *)
(* configuration, and what they rest on.                                   *)

\* No two keys share a Conn, whether it is in the pool or in use by Write.
OneKeyPerConn ==
    \A k1, k2 \in Keys : \A c \in Conns :
        /\ pools[k1] = c \/ writer[k1].p = c
        /\ pools[k2] = c \/ writer[k2].p = c
        => k1 = k2

WriterHasConn ==
    \A k \in Keys : writer[k].pc \notin {"idle", "load"} => writer[k].p \in Conns

\* A closed Conn is in the pool only while the writer that closed it has yet to
\* delete it.
ClosedIsRetiring ==
    \A k \in Keys : \A c \in Conns :
        pools[k] = c /\ conn[c].closed => writer[k] = [pc |-> "delete", p |-> c]

\* A Conn without a ClientConn is being dialled at this moment.
UndialledIsDialling ==
    \A k \in Keys : \A c \in Conns :
        conn[c].addr = None =>
            /\ pools[k] = c => writer[k] = [pc |-> "dial", p |-> c]
            /\ writer[k].p = c => writer[k].pc = "dial"

\* All of it, in one formula that a step from any state that satisfies it keeps.
IInv ==
    /\ TypeOK
    /\ OneKeyPerConn
    /\ WriterHasConn
    /\ NoStaleConn
    /\ SendHasStream
    /\ ClosedIsRetiring
    /\ DialErrors \/ (UndialledIsDialling /\ WriteNeverPanics)

=============================================================================
