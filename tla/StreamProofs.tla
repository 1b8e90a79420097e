---------------------------- MODULE StreamProofs ----------------------------
(***************************************************************************)
(* Two more invariants of Forwarder, each of one of its two deployments,   *)
(* for every number of keys, Conns, streams, addresses and callers.  Both  *)
(* fail in the other deployment: fwd_v_orphan shows a lost stream outside a *)
(* cluster, and inside one a hook may set running again while Stop drains. *)
(***************************************************************************)
EXTENDS LinkProofs

-----------------------------------------------------------------------------
(* Inside a cluster no stream is lost before shutdown.                     *)

\* No Start loop, and until shutdown nobody takes a Conn from a writer.
OwnWriter ==
    /\ loop.conn = None /\ stop.conn = None
    /\ \A k \in Keys : writer[k].p # None => pools[k] = writer[k].p

\* A writer assigns to grpcstream only when it holds no stream, or one that
\* CloseAndRecv received to its end.
ReplacesDone ==
    \A k \in Keys :
        /\ writer[k].pc \in {"dial", "open"} => conn[writer[k].p].grpcstream = None
        /\ writer[k].pc \in {"reopen", "delete"} =>
              \A s \in Streams : conn[writer[k].p].grpcstream = s => stream[s] = "done"

StreamInv ==
    /\ loop.pc = "exited" /\ loop.conn = None
    /\ stop.pc = "idle" => OwnWriter /\ ReplacesDone /\ NoOrphanStream

\* So a stream is held exactly if a Conn in the pool holds it.
LEMMA HeldInPool ==
  ASSUME TypeOK, OwnWriter, NEW s \in Streams
  PROVE  Held(s) <=> \E k \in Keys : pools[k] # None /\ conn[pools[k]].grpcstream = s
<1>1. pools \in [Keys -> Conns \cup {None}] BY DEF TypeOK
<1> QED BY <1>1, NilAssumption DEF Held, Reachable, OwnWriter

\* Write keeps it: every assignment to grpcstream replaces nil or a stream that
\* is done, and a Conn leaves the pool after its stream (server.go:201-259).
LEMMA WriteStreamInv ==
  ASSUME IInv, StreamInv, stop.pc = "idle", NEW k \in Keys, Write(k)
  PROVE  OwnWriter' /\ ReplacesDone' /\ NoOrphanStream'
<1> USE NilAssumption DEF P
<1>0. /\ TypeOK /\ pools \in [Keys -> Conns \cup {None}] /\ conn \in [Conns -> Conn]
      /\ stream \in [Streams -> StreamState]
      /\ writer \in [Keys -> WriterLocals] /\ WriterHasConn /\ SendHasStream
      /\ UNCHANGED <<loop, stop>> /\ OwnWriter /\ ReplacesDone
      /\ \A k2 \in Keys : k2 # k =>
            /\ writer[k].p # None => writer[k2].p # writer[k].p /\ pools[k2] # writer[k].p
            /\ pools[k] # None => writer[k2].p # pools[k] /\ pools[k2] # pools[k]
  BY Apart DEF IInv, TypeOK, StreamInv, Write, WriteFrame
<1>1. \A s \in Streams : stream[s] # "done" =>
          \E j \in Keys : pools[j] # None /\ conn[pools[j]].grpcstream = s
  BY <1>0, HeldInPool DEF StreamInv, NoOrphanStream
<1>2. TypeOK' BY <1>0, WriteType
<1>3. SUFFICES /\ OwnWriter' /\ ReplacesDone'
               /\ \A s \in Streams : stream'[s] # "done" =>
                     \E j \in Keys : pools'[j] # None /\ conn'[pools'[j]].grpcstream = s
  <2>1. ASSUME OwnWriter', NEW s \in Streams
        PROVE  Held(s)' <=> \E j \in Keys : pools'[j] # None /\ conn'[pools'[j]].grpcstream = s
    <3>1. pools' \in [Keys -> Conns \cup {None}] BY <1>2 DEF TypeOK
    <3> QED BY <2>1, <3>1 DEF Held, Reachable, OwnWriter
  <2> QED BY <2>1 DEF NoOrphanStream
<1>4. CASE UNCHANGED <<pools, conn, stream>> /\ (Return(k) \/ WriteLoad(k) \/ WriteBegin(k) \/ WriteSendFails(k) \/ UNCHANGED writer)
  <2>1. OwnWriter'
    BY <1>0, <1>4 DEF OwnWriter, Return, WriteLoad, WriteBegin, WriteSendFails, Goto, WriterIdle, WriterLocals
  <2>2. ReplacesDone'
    BY <1>0, <1>4 DEF ReplacesDone, Return, WriteLoad, WriteBegin, WriteSendFails, Goto, WriterIdle, WriterLocals
  <2> QED BY <1>1, <1>4, <2>1, <2>2
<1>5. CASE WriteStore(k)
  <2>1. PICK c \in Conns : /\ ~Reachable(c) /\ conn' = [conn EXCEPT ![c] = EmptyConn]
                           /\ pools' = [pools EXCEPT ![k] = c]
                           /\ writer' = [writer EXCEPT ![k] = [pc |-> "dial", p |-> c]]
    BY <1>5 DEF WriteStore
  <2>2. /\ pools[k] = None /\ UNCHANGED stream
        /\ \A j \in Keys \ {k} : /\ pools'[j] = pools[j] /\ pools[j] # c /\ writer'[j] = writer[j]
                                 /\ writer[j].p # c
    BY <1>0, <1>5, <2>1 DEF WriteStore, Reachable
  <2>3. OwnWriter' BY <1>0, <2>1, <2>2 DEF OwnWriter
  <2>4. ReplacesDone' BY <1>0, <2>1, <2>2 DEF ReplacesDone, EmptyConn, WriterHasConn
  <2> QED BY <1>0, <1>1, <2>1, <2>2, <2>3, <2>4
<1>6. CASE WriteDial(k)
  <2>1. /\ UNCHANGED <<pools, stream>> /\ \A c \in Conns : conn'[c].grpcstream = conn[c].grpcstream
    BY <1>0, <1>6 DEF WriteDial, Conn
  <2>2. OwnWriter' BY <1>0, <1>6, <2>1 DEF WriteDial, OwnWriter, Goto
  <2>3. ReplacesDone'
    BY <1>0, <1>6, <2>1 DEF WriteDial, ReplacesDone, WriterHasConn, Goto, WriterLocals
  <2> QED BY <1>0, <1>1, <2>1, <2>2, <2>3
<1>7. ASSUME NEW s \in Streams, writer[k].pc \in {"open", "reopen"}, ~Held(s),
             UNCHANGED pools, stream' = [stream EXCEPT ![s] = "open"],
             \A c \in Conns : conn'[c].grpcstream = IF c = P(k) THEN s ELSE conn[c].grpcstream,
             Goto(k, "retire") \/ Goto(k, "send") \/ Goto(k, "resend")
      PROVE  OwnWriter' /\ ReplacesDone'
             /\ \A t \in Streams : stream'[t] # "done" =>
                     \E j \in Keys : pools'[j] # None /\ conn'[pools'[j]].grpcstream = t
  <2>0. \A j \in Keys : writer'[j].p = writer[j].p BY <1>0, <1>7 DEF Goto, WriterLocals
  <2>1. OwnWriter' BY <1>0, <1>7, <2>0 DEF OwnWriter
  <2>2. ReplacesDone'
    <3> SUFFICES ASSUME NEW j \in Keys
                 PROVE  /\ writer'[j].pc \in {"dial", "open"} => conn'[writer'[j].p].grpcstream = None
                        /\ writer'[j].pc \in {"reopen", "delete"} =>
                              \A t \in Streams : conn'[writer'[j].p].grpcstream = t => stream'[t] = "done"
      BY DEF ReplacesDone
    <3>1. CASE j = k BY <1>0, <1>7, <3>1 DEF Goto, WriterLocals
    <3>2. CASE j # k
      <4>1. writer'[j] = writer[j] BY <1>0, <1>7, <3>2 DEF Goto
      <4>2. writer[j].pc \in {"dial", "open", "reopen", "delete"} =>
                writer[j].p \in Conns /\ conn[writer[j].p].grpcstream # s
                /\ conn'[writer[j].p].grpcstream = conn[writer[j].p].grpcstream
        BY <1>0, <1>7, <3>2 DEF WriterHasConn, Held, Reachable
      <4> QED BY <1>0, <1>7, <4>1, <4>2 DEF ReplacesDone
    <3> QED BY <3>1, <3>2
  <2>3. ASSUME NEW t \in Streams, stream'[t] # "done"
        PROVE  \E j \in Keys : pools'[j] # None /\ conn'[pools'[j]].grpcstream = t
    <3>1. pools[k] = P(k) /\ P(k) \in Conns BY <1>0, <1>7 DEF OwnWriter, WriterHasConn
    <3>2. CASE t = s BY <1>7, <3>1, <3>2
    <3>3. CASE t # s
      <4>1. stream[t] # "done" BY <1>0, <1>7, <2>3, <3>3
      <4>2. PICK j \in Keys : pools[j] # None /\ conn[pools[j]].grpcstream = t BY <1>1, <4>1
      <4>3. j # k BY <1>0, <1>7, <3>1, <4>1, <4>2 DEF ReplacesDone
      <4>4. pools[j] \in Conns /\ pools[j] # P(k) BY <1>0, <3>1, <4>2, <4>3
      <4> QED BY <1>7, <4>2, <4>4
    <3> QED BY <3>2, <3>3
  <2> QED BY <2>1, <2>2, <2>3
<1>8. CASE WriteOpen(k)
  <2>1. PICK s \in Streams : /\ ~Held(s) /\ stream' = [stream EXCEPT ![s] = "open"]
                             /\ conn' = [conn EXCEPT ![P(k)].grpcstream = s, ![P(k)].valid = TRUE]
    BY <1>8 DEF WriteOpen
  <2>2. \A c \in Conns : conn'[c].grpcstream = IF c = P(k) THEN s ELSE conn[c].grpcstream
    BY <1>0, <2>1 DEF Conn
  <2>3. UNCHANGED pools /\ writer[k].pc = "open" /\ (Goto(k, "retire") \/ Goto(k, "send"))
    BY <1>8 DEF WriteOpen
  <2> QED BY <1>7, <2>1, <2>2, <2>3
<1>9. CASE WriteReopen(k)
  <2>1. PICK s \in Streams : Opens(P(k), s) BY <1>9 DEF WriteReopen
  <2>2. \A c \in Conns : conn'[c].grpcstream = IF c = P(k) THEN s ELSE conn[c].grpcstream
    BY <1>0, <2>1 DEF Opens, Conn
  <2>3. UNCHANGED pools /\ writer[k].pc = "reopen" /\ Goto(k, "resend") BY <1>9 DEF WriteReopen
  <2> QED BY <1>7, <2>1, <2>2, <2>3 DEF Opens
<1>10. ASSUME UNCHANGED pools, Goto(k, "reopen") \/ Goto(k, "delete"), P(k) \in Conns,
              \A s \in Streams : stream'[s] = IF s = conn[P(k)].grpcstream THEN "done" ELSE stream[s],
              \A c \in Conns : conn'[c].grpcstream = conn[c].grpcstream
       PROVE  OwnWriter' /\ ReplacesDone'
              /\ \A t \in Streams : stream'[t] # "done" =>
                     \E j \in Keys : pools'[j] # None /\ conn'[pools'[j]].grpcstream = t
  <2>0. \A j \in Keys : writer'[j].p = writer[j].p BY <1>0, <1>10 DEF Goto, WriterLocals
  <2>1. OwnWriter' BY <1>0, <1>10, <2>0 DEF OwnWriter
  <2>2. ReplacesDone'
    BY <1>0, <1>10 DEF ReplacesDone, WriterHasConn, Goto, WriterLocals
  <2> QED BY <1>0, <1>1, <1>10, <2>1, <2>2
<1>11. CASE WriteRecv(k)
  <2>1. P(k) \in Conns /\ conn[P(k)].grpcstream # None
    BY <1>0, <1>11 DEF WriteRecv, WriterHasConn, SendHasStream
  <2>2. \A s \in Streams : stream'[s] = IF s = conn[P(k)].grpcstream THEN "done" ELSE stream[s]
    BY <1>0, <1>11, <2>1 DEF WriteRecv
  <2> QED BY <1>10, <1>11, <2>1, <2>2 DEF WriteRecv
<1>12. CASE WriteRetire(k)
  <2>1. P(k) \in Conns BY <1>0, <1>12 DEF WriteRetire, WriterHasConn
  <2>2. \A c \in Conns : conn'[c].grpcstream = conn[c].grpcstream
    BY <1>0, <1>12 DEF WriteRetire, Conn
  <2> QED BY <1>10, <1>12, <2>1, <2>2 DEF WriteRetire
<1>13. ASSUME UNCHANGED <<pools, stream>>, Return(k), P(k) \in Conns,
              writer[k].pc = "reopen" \/ conn'[P(k)].grpcstream = conn[P(k)].grpcstream,
              \A c \in Conns : c # P(k) => conn'[c].grpcstream = conn[c].grpcstream
       PROVE  OwnWriter' /\ ReplacesDone'
              /\ \A t \in Streams : stream'[t] # "done" =>
                     \E j \in Keys : pools'[j] # None /\ conn'[pools'[j]].grpcstream = t
  <2>1. OwnWriter' BY <1>0, <1>13 DEF OwnWriter, Return, WriterIdle
  <2>2. ReplacesDone'
    BY <1>0, <1>13 DEF ReplacesDone, WriterHasConn, Return, WriterIdle, WriterLocals
  <2>3. ASSUME NEW t \in Streams, stream[t] # "done"
        PROVE  \E j \in Keys : pools[j] # None /\ conn'[pools[j]].grpcstream = t
    <3>1. PICK j \in Keys : pools[j] # None /\ conn[pools[j]].grpcstream = t BY <1>1, <2>3
    <3>2. pools[j] = P(k) => writer[k].pc # "reopen" BY <2>3, <3>1, <1>0 DEF ReplacesDone
    <3> QED BY <1>0, <1>13, <3>1, <3>2
  <2> QED BY <1>13, <2>1, <2>2, <2>3
<1>14. CASE WriteReopenFails(k)
  <2>1. P(k) \in Conns BY <1>0, <1>14 DEF WriteReopenFails, WriterHasConn
  <2> QED BY <1>0, <1>13, <1>14, <2>1 DEF WriteReopenFails
<1>15. CASE WriteResendFails(k)
  <2>1. P(k) \in Conns BY <1>0, <1>15 DEF WriteResendFails, WriterHasConn
  <2>2. \A c \in Conns : conn'[c].grpcstream = conn[c].grpcstream
    BY <1>0, <1>15 DEF WriteResendFails, Conn
  <2> QED BY <1>13, <1>15, <2>1, <2>2 DEF WriteResendFails
<1>16. CASE WriteDelete(k)
  <2>1. /\ pools' = [pools EXCEPT ![k] = None] /\ Return(k) /\ UNCHANGED stream
        /\ \A c \in Conns : c # P(k) => conn'[c] = conn[c]
    BY <1>0, <1>16 DEF WriteDelete, Freed
  <2>2. /\ P(k) \in Conns /\ pools[k] = P(k)
        /\ \A t \in Streams : conn[P(k)].grpcstream = t => stream[t] = "done"
    BY <1>0, <1>16 DEF WriteDelete, WriterHasConn, OwnWriter, ReplacesDone
  <2>3. OwnWriter' BY <1>0, <2>1 DEF OwnWriter, Return, WriterIdle
  <2>4. ReplacesDone'
    BY <1>0, <2>1, <2>2 DEF ReplacesDone, WriterHasConn, Return, WriterIdle, WriterLocals
  <2>5. \A j \in Keys : pools[j] = P(k) => j = k BY <1>0, <2>2
  <2> QED BY <1>0, <1>1, <2>1, <2>2, <2>3, <2>4, <2>5
<1> QED BY <1>4, <1>5, <1>6, <1>8, <1>9, <1>11, <1>12, <1>14, <1>15, <1>16
        DEF Write, WriteBegin, WriteLoad, WriteFails, WriteSend, WriteSendFails, WriteRetireNil

\* Nobody else touches a stream or the pool before shutdown.
LEMMA StreamInvStep ==
  ASSUME IInv, StreamInv, [Next]_vars
  PROVE  StreamInv'
<1>0. /\ TypeOK /\ pools \in [Keys -> Conns \cup {None}] /\ conn \in [Conns -> Conn]
      /\ writer \in [Keys -> WriterLocals] /\ WriterHasConn
  BY DEF IInv, TypeOK
<1>1. ASSUME NEW k \in Keys, Write(k) PROVE StreamInv'
  BY <1>1, WriteStreamInv DEF StreamInv, Write, WriteFrame
<1>2. ASSUME UNCHANGED <<pools, writer, loop, stop>>,
             \A c \in Conns : conn'[c].grpcstream = conn[c].grpcstream,
             \A s \in Streams : stream'[s] = "done" <=> stream[s] = "done"
      PROVE  StreamInv'
  <2>1. \A s \in Streams : Held(s)' <=> Held(s) BY <1>2 DEF Held, Reachable
  <2>2. ReplacesDone => ReplacesDone'
    BY <1>0, <1>2 DEF ReplacesDone, WriterHasConn
  <2> QED BY <1>2, <2>1, <2>2 DEF StreamInv, OwnWriter, NoOrphanStream
<1>3. ASSUME NEW h \in Callers, ReConnect(h) \/ Hook(h) PROVE StreamInv'
  <2>1. \A c \in Conns : conn'[c].grpcstream = conn[c].grpcstream
    BY <1>0, <1>3 DEF ReConnect, Hook, ReConnectBegin, ReConnectGetConfig, ReConnectConfig,
                      ReConnectMark, ReConnectRun, Disconnect, Conn
  <2> QED BY <1>2, <1>3, <2>1 DEF ReConnect, Hook
<1>4. CASE Start
  BY <1>4 DEF StreamInv, Start, StartTick, StartVisit, StartOpen, StartOpenFails,
              StartOpenNil, StartValidate, StartRangeEnds, StartExits
<1>5. CASE Stop
  <2>1. stop'.pc # "idle" /\ UNCHANGED loop
    BY <1>0, <1>5 DEF TypeOK, StopLocals, Stop, StopRequest, StopRefused, StopBegin, StopVisit,
                      StopRecv, StopRecvNil, StopDelete, StopEnds
  <2> QED BY <2>1 DEF StreamInv
<1>6. ASSUME NEW s \in Streams, Break(s) PROVE StreamInv'
  <2>1. \A t \in Streams : stream'[t] = "done" <=> stream[t] = "done"
    BY <1>6 DEF Break, IInv, TypeOK
  <2> QED BY <1>2, <1>6, <2>1 DEF Break
<1>7. CASE UNCHANGED vars BY <1>2, <1>7 DEF vars
<1> QED BY <1>1, <1>3, <1>4, <1>5, <1>6, <1>7 DEF Next

\* Inside a cluster every stream that still has a goroutine is in use by a Conn
\* of the pool, whatever hooks and packages do, until shutdown is requested
\* (server.go:201-259).
THEOREM NoOrphanInCluster == ASSUME InCluster PROVE Spec => []NoOrphanStream
<1>1. Init => StreamInv
  BY DEF Init, LoopIdle, StopIdle, WriterIdle, StreamInv, OwnWriter, ReplacesDone, NoOrphanStream
<1>2. StreamInv => NoOrphanStream BY DEF StreamInv, NoOrphanStream
<1> QED BY <1>1, <1>2, StreamInvStep, Inductive, PTL DEF Spec
-----------------------------------------------------------------------------
(* Outside a cluster Stop drains the pool.                                 *)

\* Nothing sets running once Stop has cleared it, so a writer that was outside
\* Write stays there, and the Conns of such keys are still to be visited.
DrainInv ==
    /\ stop.pc # "idle" => \A h \in Callers : caller[h].pc = "idle"
    /\ stop.pc \in {"range", "call", "delete", "drained"} =>
          /\ ~running
          /\ \A k \in Keys \ stop.inflight :
                /\ writer[k].pc = "idle"
                /\ pools[k] # None =>
                      /\ stop.pc # "drained"
                      /\ k \in stop.todo \/ (stop.pc # "range" /\ stop.key = k)

LEMMA DrainInvStep ==
  ASSUME ~InCluster, IInv, DrainInv, [Next]_vars
  PROVE  DrainInv'
<1> USE DEF DrainInv
<1>0. /\ TypeOK /\ pools \in [Keys -> Conns \cup {None}] /\ stop \in StopLocals
      /\ writer \in [Keys -> WriterLocals] /\ caller \in [Callers -> CallerLocals]
  BY DEF IInv, TypeOK
<1>1. ASSUME NEW k \in Keys, Write(k) PROVE DrainInv'
  <2>1. /\ UNCHANGED <<running, caller, stop>>
        /\ \A j \in Keys : j # k => writer'[j] = writer[j] /\ pools'[j] = pools[j]
    BY <1>0, <1>1 DEF Write, WriteFrame, WriteBegin, WriteLoad, WriteStore, WriteDial, WriteFails,
        WriteOpen, WriteSend, WriteSendFails, WriteRecv, WriteReopen, WriteReopenFails,
        WriteResendFails, WriteRetire, WriteRetireNil, WriteDelete, Goto, Return
  <2>2. running \/ writer[k].pc # "idle"
    BY <1>1 DEF Write, WriteBegin, WriteLoad, WriteStore, WriteDial, WriteFails,
        WriteOpen, WriteSend, WriteSendFails, WriteRecv, WriteReopen, WriteReopenFails,
        WriteResendFails, WriteRetire, WriteRetireNil, WriteDelete
  <2> QED BY <2>1, <2>2
<1>2. ASSUME NEW h \in Callers, ReConnect(h) \/ Hook(h) PROVE DrainInv'
  <2>1. ReConnect(h) /\ caller[h].pc # "idle"
    BY <1>2 DEF Hook, ReConnectBegin, Disconnect, ReConnect, ReConnectGetConfig,
                ReConnectConfig, ReConnectMark, ReConnectRun
  <2>2. stop.pc = "idle" /\ UNCHANGED stop BY <2>1 DEF ReConnect
  <2> QED BY <2>2
<1>3. CASE Start BY <1>3 DEF Start, StartFrame
<1>4. CASE Stop
  <2>0. UNCHANGED <<caller, writer>> BY <1>4 DEF Stop
  <2>1. CASE StopRequest BY <1>0, <2>0, <2>1 DEF StopRequest, StopLocals
  <2>2. CASE StopRefused BY <1>0, <2>0, <2>2 DEF StopRefused, StopLocals
  <2>3. CASE StopBegin BY <1>0, <2>0, <2>3 DEF StopBegin, Ranges, StopLocals
  <2>4. ASSUME NEW k \in Keys, StopVisit(k) PROVE DrainInv'
    BY <1>0, <2>0, <2>4 DEF StopVisit, StopLocals
  <2>5. CASE StopRecv BY <1>0, <2>0, <2>5 DEF StopRecv, StopLocals
  <2>6. CASE StopRecvNil BY <1>0, <2>0, <2>6 DEF StopRecvNil
  <2>7. CASE StopDelete BY <1>0, <2>0, <2>7 DEF StopDelete, StopLocals
  <2>8. CASE StopEnds BY <1>0, <2>0, <2>8 DEF StopEnds, StopLocals
  <2> QED BY <1>4, <2>1, <2>2, <2>3, <2>4, <2>5, <2>6, <2>7, <2>8 DEF Stop
<1>5. ASSUME NEW s \in Streams, Break(s) PROVE DrainInv' BY <1>5 DEF Break
<1>6. CASE UNCHANGED vars BY <1>6 DEF vars
<1> QED BY <1>1, <1>2, <1>3, <1>4, <1>5, <1>6 DEF Next

\* Outside a cluster a Stop that ran to its end leaves a Conn only for a key
\* whose Write was past its running check when Stop cleared running
\* (server.go:187, 269-287).
THEOREM DrainsStandalone == ASSUME ~InCluster PROVE Spec => []StopDrains
<1>1. Init => DrainInv BY DEF Init, StopIdle, DrainInv
<1>2. DrainInv => StopDrains BY DEF DrainInv, StopDrains
<1> QED BY <1>1, <1>2, DrainInvStep, Inductive, PTL DEF Spec
=============================================================================
