-------------------------- MODULE ForwarderProofs --------------------------
(***************************************************************************)
(* Proofs about Forwarder, for every number of keys, Conns, streams,       *)
(* addresses and callers, with and without a cluster.  TypeOK is inductive *)
(* on its own.  IInv joins it to the safety properties: SendHasStream,     *)
(* ClosedIsRetiring and WriteNeverPanics rest on OneKeyPerConn, because a  *)
(* step of one writer changes the Conn it holds and must not be able to    *)
(* reach the Conn of another key.  There is one lemma per actor and part   *)
(* of IInv, with one step per action that can disturb that part.           *)
(***************************************************************************)
EXTENDS Forwarder, TLAPS

\* Each actor's steps keep every variable in its type: Write,
LEMMA WriteType == ASSUME TypeOK, NEW k \in Keys, Write(k) PROVE TypeOK'
<1>0. WriteFrame BY DEF Write
<1>1. conn' \in [Conns -> Conn]
  <2> USE DEF P
  <2>0. conn \in [Conns -> Conn] /\ config \in Servers BY DEF TypeOK
  <2>1. CASE UNCHANGED conn BY <2>0, <2>1
  <2>2. CASE WriteStore(k) BY <2>0, <2>2 DEF WriteStore, Conn, EmptyConn
  <2>3. CASE WriteDial(k) BY <2>0, <2>3 DEF WriteDial, Conn
  <2>4. CASE WriteOpen(k)
    <3>1. PICK s \in Streams : conn' = [conn EXCEPT ![P(k)].grpcstream = s, ![P(k)].valid = TRUE]
      BY <2>4 DEF WriteOpen
    <3> QED BY <2>0, <3>1 DEF Conn
  <2>5. CASE WriteReopen(k)
    <3>1. PICK s \in Streams : Opens(P(k), s) BY <2>5 DEF WriteReopen
    <3>2. conn' = [conn EXCEPT ![P(k)].grpcstream = s] BY <3>1 DEF Opens
    <3> QED BY <2>0, <3>2 DEF Conn
  <2>6. CASE WriteReopenFails(k)
    <3>1. conn' = [conn EXCEPT ![P(k)] = [conn[P(k)] EXCEPT !.grpcstream = None, !.valid = FALSE]]
      BY <2>0, <2>6 DEF WriteReopenFails
    <3>2. ASSUME NEW c \in Conns PROVE [conn[c] EXCEPT !.grpcstream = None, !.valid = FALSE] \in Conn
      BY <2>0 DEF Conn
    <3> QED BY <2>0, <3>1, <3>2
  <2>7. CASE WriteResendFails(k) BY <2>0, <2>7 DEF WriteResendFails, Conn
  <2>8. CASE WriteRetire(k) BY <2>0, <2>8 DEF WriteRetire, Conn
  <2>9. CASE WriteDelete(k) BY <2>0, <2>9 DEF WriteDelete, Freed, Conn, EmptyConn
  <2> QED BY <2>1, <2>2, <2>3, <2>4, <2>5, <2>6, <2>7, <2>8, <2>9
          DEF Write, WriteBegin, WriteLoad, WriteFails, WriteSend, WriteSendFails, WriteRecv, WriteRetireNil
<1>2. stream' \in [Streams -> StreamState]
  <2> USE DEF StreamState
  <2>0. stream \in [Streams -> StreamState] BY DEF TypeOK
  <2>1. CASE UNCHANGED stream BY <2>0, <2>1
  <2>2. CASE WriteOpen(k) BY <2>0, <2>2 DEF WriteOpen
  <2>3. CASE WriteRecv(k) BY <2>0, <2>3 DEF WriteRecv
  <2>4. CASE WriteReopen(k) BY <2>0, <2>4 DEF WriteReopen, Opens
  <2>5. CASE WriteRetire(k) BY <2>0, <2>5 DEF WriteRetire
  <2> QED BY <2>1, <2>2, <2>3, <2>4, <2>5
          DEF Write, WriteBegin, WriteLoad, WriteStore, WriteDial, WriteFails, WriteSend, WriteSendFails, WriteReopenFails, WriteResendFails, WriteRetireNil, WriteDelete
<1>3. pools' \in [Keys -> Conns \cup {None}]
  BY DEF TypeOK, Write, WriteBegin, WriteLoad, WriteStore, WriteDial, WriteFails, WriteOpen, WriteSend, WriteSendFails, WriteRecv, WriteReopen, WriteReopenFails, WriteResendFails, WriteRetire, WriteRetireNil, WriteDelete
<1>4. writer' \in [Keys -> WriterLocals]
  <2>0. writer \in [Keys -> WriterLocals] /\ pools \in [Keys -> Conns \cup {None}] BY DEF TypeOK
  <2>1. CASE WriteLoad(k) BY <2>0, <2>1 DEF WriteLoad, WriterIdle, WriterLocals
  <2>2. CASE WriteStore(k) BY <2>0, <2>2 DEF WriteStore, WriterLocals
  <2>3. CASE Return(k) BY <2>0, <2>3 DEF Return, WriterIdle, WriterLocals
  <2>4. CASE \E pc \in {"load", "open", "send", "recv", "reopen", "resend", "retire", "delete"} : Goto(k, pc)
    BY <2>0, <2>4 DEF Goto, WriterLocals
  <2>5. CASE UNCHANGED writer BY <2>0, <2>5
  <2> QED BY <2>1, <2>2, <2>3, <2>4, <2>5 
       DEF Write, WriteBegin, WriteDial, WriteFails, WriteOpen, WriteSend, WriteSendFails, WriteRecv, WriteReopen, WriteReopenFails, WriteResendFails, WriteRetire, WriteRetireNil, WriteDelete
<1>5. panic' \in {"none", "Start", "Write", "Stop"}
  BY DEF TypeOK, Write, WriteBegin, WriteLoad, WriteStore, WriteDial, WriteFails, WriteOpen, WriteSend, WriteSendFails, WriteRecv, WriteReopen, WriteReopenFails, WriteResendFails, WriteRetire, WriteRetireNil, WriteDelete
<1> QED BY <1>0, <1>1, <1>2, <1>3, <1>4, <1>5 DEF TypeOK, WriteFrame

\* ReConnect, Disconnect and the hooks that call them (a hook that is about
\* to assign s.config holds a configuration),
LEMMA ReConnectType == ASSUME TypeOK, NEW h \in Callers, ReConnect(h) \/ Hook(h) PROVE TypeOK'
<1>1. UNCHANGED <<pools, stream, writer, loop, stop, panic>>
  BY DEF ReConnect, Hook
<1>2. conn' \in [Conns -> Conn]
  <2>0. conn \in [Conns -> Conn] BY DEF TypeOK
  <2>1. CASE \E k \in Keys : ReConnectMark(h, k)
    <3>1. ASSUME NEW c \in Conns PROVE [conn[c] EXCEPT !.reconn = TRUE] \in Conn
      BY <2>0 DEF Conn
    <3> QED BY <2>0, <2>1, <3>1 DEF ReConnectMark
  <2>2. CASE UNCHANGED conn BY <2>0, <2>2
  <2> QED BY <2>1, <2>2 DEF ReConnect, Hook, ReConnectBegin, ReConnectGetConfig, ReConnectConfig, ReConnectRun, Disconnect
<1>3. caller' \in [Callers -> CallerLocals] /\ config' \in Servers /\ setting' \in Servers
  <2>0. caller \in [Callers -> CallerLocals] /\ config \in Servers /\ setting \in Servers
    BY DEF TypeOK
  <2>1. CASE ReConnectBegin(h) BY <2>0, <2>1 DEF ReConnectBegin, CallerLocals
  <2>2. CASE ReConnectGetConfig(h) BY <2>0, <2>2 DEF ReConnectGetConfig, CallerLocals
  <2>3. CASE ReConnectConfig(h) BY <2>0, <2>3 DEF ReConnectConfig, CallerLocals, Ranges
  <2>4. CASE \E k \in Keys : ReConnectMark(h, k) BY <2>0, <2>4 DEF ReConnectMark, CallerLocals
  <2>5. CASE ReConnectRun(h) BY <2>0, <2>5 DEF ReConnectRun, CallerLocals, CallerIdle
  <2>6. CASE Disconnect(h) BY <2>0, <2>6 DEF Disconnect
  <2> QED BY <2>1, <2>2, <2>3, <2>4, <2>5, <2>6 DEF ReConnect, Hook
<1>4. running' \in BOOLEAN
  BY DEF TypeOK, ReConnect, Hook, ReConnectBegin, ReConnectGetConfig, ReConnectConfig, ReConnectMark, ReConnectRun, Disconnect
<1> QED BY <1>1, <1>2, <1>3, <1>4 DEF TypeOK

\* the Start loop,
LEMMA StartType == ASSUME TypeOK, Start PROVE TypeOK'
<1>0. conn \in [Conns -> Conn] /\ loop \in LoopLocals /\ pools \in [Keys -> Conns \cup {None}]
  BY DEF TypeOK
<1>1. conn' \in [Conns -> Conn]
  <2>1. CASE StartOpen
    <3>1. PICK s \in Streams : Opens(loop.conn, s) BY <2>1 DEF StartOpen
    <3>2. conn' = [conn EXCEPT ![loop.conn].grpcstream = s] BY <3>1 DEF Opens
    <3> QED BY <1>0, <3>2 DEF Conn
  <2>2. CASE StartValidate BY <1>0, <2>2 DEF StartValidate, Conn
  <2>3. CASE UNCHANGED conn BY <1>0, <2>3
  <2> QED BY <2>1, <2>2, <2>3 DEF Start, StartTick, StartVisit, StartOpenFails, StartOpenNil, StartRangeEnds, StartExits
<1>2. stream' \in [Streams -> StreamState]
  BY DEF TypeOK, StreamState, Start, StartTick, StartVisit, StartOpen, Opens, StartOpenFails, StartOpenNil, StartValidate, StartRangeEnds, StartExits
<1>3. loop' \in LoopLocals
  <2> USE DEF LoopLocals, LoopIdle
  <2>1. CASE StartTick BY <1>0, <2>1 DEF StartTick, Ranges
  <2>2. CASE \E k \in Keys : StartVisit(k) BY <1>0, <2>2 DEF StartVisit
  <2>3. CASE StartOpen BY <1>0, <2>3 DEF StartOpen
  <2>4. CASE StartOpenFails BY <1>0, <2>4 DEF StartOpenFails
  <2>5. CASE StartOpenNil BY <1>0, <2>5 DEF StartOpenNil
  <2>6. CASE StartValidate BY <1>0, <2>6 DEF StartValidate
  <2>7. CASE StartRangeEnds BY <1>0, <2>7 DEF StartRangeEnds
  <2>8. CASE StartExits BY <1>0, <2>8 DEF StartExits
  <2> QED BY <2>1, <2>2, <2>3, <2>4, <2>5, <2>6, <2>7, <2>8 DEF Start
<1>4. panic' \in {"none", "Start", "Write", "Stop"}
  BY DEF TypeOK, Start, StartTick, StartVisit, StartOpen, StartOpenFails, StartOpenNil, StartValidate, StartRangeEnds, StartExits
<1> QED BY <1>1, <1>2, <1>3, <1>4 DEF TypeOK, Start, StartFrame

\* Stop,
LEMMA StopType == ASSUME TypeOK, Stop PROVE TypeOK'
<1>0. conn \in [Conns -> Conn] /\ stop \in StopLocals /\ pools \in [Keys -> Conns \cup {None}]
  BY DEF TypeOK
<1>1. conn' \in [Conns -> Conn]
  <2>1. CASE StopDelete BY <1>0, <2>1 DEF StopDelete, Freed, Conn, EmptyConn
  <2>2. CASE UNCHANGED conn BY <1>0, <2>2
  <2> QED BY <2>1, <2>2 DEF Stop, StopRequest, StopRefused, StopBegin, StopVisit, StopRecv, StopRecvNil, StopEnds
<1>2. stream' \in [Streams -> StreamState]
  BY DEF TypeOK, StreamState, Stop, StopRequest, StopRefused, StopBegin, StopVisit, StopRecv, StopRecvNil, StopDelete, StopEnds
<1>3. stop' \in StopLocals
  <2> USE DEF StopLocals
  <2>1. CASE StopRequest BY <1>0, <2>1 DEF StopRequest
  <2>2. CASE StopRefused BY <1>0, <2>2 DEF StopRefused
  <2>3. CASE StopBegin BY <1>0, <2>3 DEF StopBegin, Ranges
  <2>4. CASE \E k \in Keys : StopVisit(k)
    <3>1. PICK k \in Keys : StopVisit(k) BY <2>4
    <3>2. CASE pools[k] = None BY <1>0, <3>1, <3>2 DEF StopVisit
    <3>3. CASE pools[k] # None BY <1>0, <3>1, <3>3 DEF StopVisit
    <3> QED BY <3>2, <3>3
  <2>5. CASE StopRecv BY <1>0, <2>5 DEF StopRecv
  <2>6. CASE StopRecvNil BY <1>0, <2>6 DEF StopRecvNil
  <2>7. CASE StopDelete BY <1>0, <2>7 DEF StopDelete
  <2>8. CASE StopEnds BY <1>0, <2>8 DEF StopEnds
  <2> QED BY <2>1, <2>2, <2>3, <2>4, <2>5, <2>6, <2>7, <2>8 DEF Stop
<1>4. pools' \in [Keys -> Conns \cup {None}] /\ running' \in BOOLEAN /\ panic' \in {"none", "Start", "Write", "Stop"}
  BY DEF TypeOK, Stop, StopRequest, StopRefused, StopBegin, StopVisit, StopRecv, StopRecvNil, StopDelete, StopEnds
<1> QED BY <1>1, <1>2, <1>3, <1>4 DEF TypeOK, Stop

\* and the server.
LEMMA BreakType == ASSUME TypeOK, NEW s \in Streams, Break(s) PROVE TypeOK'
BY DEF TypeOK, Break, StreamState

\* What New builds is well typed.
LEMMA TypeInit == Init => TypeOK
<1> SUFFICES ASSUME Init PROVE TypeOK
  OBVIOUS
<1>1. conn \in [Conns -> Conn] /\ pools \in [Keys -> Conns \cup {None}] /\ stream \in [Streams -> StreamState]
  BY DEF Init, Conn, EmptyConn, StreamState
<1>2. writer \in [Keys -> WriterLocals]
  BY DEF Init, WriterIdle, WriterLocals
<1>3. caller \in [Callers -> CallerLocals]
  <2>1. [CallerIdle EXCEPT !.pc = IF InCluster THEN "idle" ELSE "getconfig"] \in CallerLocals
    BY DEF CallerIdle, CallerLocals
  <2> QED BY <2>1 DEF Init
<1>4. loop \in LoopLocals
  BY DEF Init, LoopIdle, LoopLocals
<1>5. stop \in StopLocals
  BY DEF Init, StopIdle, StopLocals
<1> QED BY <1>1, <1>2, <1>3, <1>4, <1>5 DEF Init, TypeOK

\* No step leaves the types.
LEMMA TypeStep == TypeOK /\ [Next]_vars => TypeOK'
<1>1. CASE UNCHANGED vars BY <1>1 DEF vars, TypeOK
<1>2. CASE Next BY <1>2, WriteType, ReConnectType, StartType, StopType, BreakType DEF Next
<1> QED BY <1>1, <1>2

\* Every variable keeps its type.
THEOREM TypeCorrect == Spec => []TypeOK
BY TypeInit, TypeStep, PTL DEF Spec

-----------------------------------------------------------------------------

\* Write never makes two keys share a Conn: it stores one that nobody holds and
\* loads from its own key only (server.go:191-212).
LEMMA WriteOwn ==
  ASSUME TypeOK, OneKeyPerConn, NEW k \in Keys, Write(k)
  PROVE  OneKeyPerConn'
<1> USE NilAssumption DEF OneKeyPerConn, P
<1>0. /\ pools \in [Keys -> Conns \cup {None}] /\ writer \in [Keys -> WriterLocals]
      /\ WriteFrame
  BY DEF TypeOK, Write
<1>1. CASE WriteLoad(k) BY <1>0, <1>1 DEF WriteLoad, WriterIdle, WriterLocals
<1>2. CASE WriteStore(k) BY <1>0, <1>2 DEF WriteStore, Reachable, WriterLocals
<1>3. CASE WriteDelete(k) BY <1>0, <1>3 DEF WriteDelete, Return, WriterIdle, WriterLocals
<1>4. CASE UNCHANGED pools /\ Return(k) BY <1>0, <1>4 DEF Return, WriterIdle, WriterLocals
<1>5. CASE UNCHANGED pools /\ \E pc : Goto(k, pc) BY <1>0, <1>5 DEF Goto, WriterLocals
<1>6. CASE UNCHANGED <<pools, writer>> BY <1>6
<1> QED BY <1>1, <1>2, <1>3, <1>4, <1>5, <1>6
        DEF Write, WriteBegin, WriteDial, WriteFails, WriteOpen, WriteSend, WriteSendFails, WriteRecv, WriteReopen, WriteReopenFails, WriteResendFails, WriteRetire, WriteRetireNil

\* Write dials the current address and stores before it dials (server.go:194-200).
LEMMA WriteStale ==
  ASSUME TypeOK, NoStaleConn, NEW k \in Keys, Write(k)
  PROVE  NoStaleConn'
<1> USE NilAssumption DEF NoStaleConn, P, WillVisit
<1>0. /\ pools \in [Keys -> Conns \cup {None}] /\ conn \in [Conns -> Conn]
      /\ WriteFrame
  BY DEF TypeOK, Write
<1>1. CASE WriteStore(k) BY <1>0, <1>1 DEF WriteStore, WriteFrame, EmptyConn
<1>2. CASE WriteDial(k) BY <1>0, <1>2 DEF WriteDial, WriteFrame, Conn
<1>3. CASE WriteOpen(k) BY <1>0, <1>3 DEF WriteOpen, WriteFrame, Conn
<1>4. CASE WriteReopen(k) BY <1>0, <1>4 DEF WriteReopen, WriteFrame, Opens, Conn
<1>5. CASE WriteReopenFails(k) BY <1>0, <1>5 DEF WriteReopenFails, WriteFrame, Conn
<1>6. CASE WriteResendFails(k) BY <1>0, <1>6 DEF WriteResendFails, WriteFrame, Conn
<1>7. CASE WriteRetire(k) BY <1>0, <1>7 DEF WriteRetire, WriteFrame, Conn
<1>8. CASE WriteDelete(k) BY <1>0, <1>8 DEF WriteDelete, WriteFrame, Freed, EmptyConn
<1>9. CASE UNCHANGED <<pools, conn>> BY <1>0, <1>9 DEF WriteFrame
<1> QED BY <1>1, <1>2, <1>3, <1>4, <1>5, <1>6, <1>7, <1>8, <1>9
        DEF Write, WriteBegin, WriteLoad, WriteFails, WriteSend, WriteSendFails, WriteRecv, WriteRetireNil

\* Past the Load, Write holds a Conn.
LEMMA WriteHas ==
  ASSUME TypeOK, WriterHasConn, NEW k \in Keys, Write(k)
  PROVE  WriterHasConn'
<1> USE NilAssumption DEF WriterHasConn
<1>0. pools \in [Keys -> Conns \cup {None}] /\ writer \in [Keys -> WriterLocals]
  BY DEF TypeOK
<1>1. CASE WriteLoad(k) BY <1>0, <1>1 DEF WriteLoad, WriterIdle, WriterLocals
<1>2. CASE WriteStore(k) BY <1>0, <1>2 DEF WriteStore, WriterLocals
<1>3. CASE Return(k) BY <1>0, <1>3 DEF Return, WriterIdle, WriterLocals
<1>4. CASE (\E pc : Goto(k, pc)) /\ writer[k].p \in Conns BY <1>0, <1>4 DEF Goto, WriterLocals
<1>5. CASE WriteBegin(k) BY <1>0, <1>5 DEF WriteBegin, Goto, WriterLocals
<1>6. CASE UNCHANGED writer BY <1>6
<1> QED BY <1>1, <1>2, <1>3, <1>4, <1>5, <1>6
        DEF Write, WriteDial, WriteFails, WriteOpen, WriteSend, WriteSendFails, WriteRecv, WriteReopen, WriteReopenFails, WriteResendFails, WriteRetire, WriteRetireNil, WriteDelete

\* The steps of one writer leave a stream in the Conn every writer is about to
\* send on (server.go:229-262).
LEMMA WriteStream ==
  ASSUME TypeOK, OneKeyPerConn, WriterHasConn, SendHasStream, NEW k \in Keys, Write(k)
  PROVE  SendHasStream'
<1> USE NilAssumption DEF SendHasStream, WriterHasConn, P
<1>0. /\ pools \in [Keys -> Conns \cup {None}] /\ conn \in [Conns -> Conn]
      /\ writer \in [Keys -> WriterLocals]
  BY DEF TypeOK
<1>1. \A k2 \in Keys : writer[k2].p \in Conns /\ k2 # k => writer[k2].p # writer[k].p /\ writer[k2].p # pools[k]
  BY <1>0 DEF OneKeyPerConn, WriterLocals
<1> USE <1>0, <1>1
<1>2. CASE WriteLoad(k) BY <1>2 DEF WriteLoad, Usable, WriterIdle, WriterLocals
<1>3. CASE WriteStore(k) BY <1>3 DEF WriteStore, Reachable, WriterLocals
<1>4. CASE WriteDial(k) BY <1>4 DEF WriteDial, Goto, WriterLocals, Conn
<1>5. CASE WriteOpen(k) BY <1>5 DEF WriteOpen, Goto, WriterLocals, Conn
<1>6. CASE WriteReopen(k) BY <1>6 DEF WriteReopen, Opens, Goto, WriterLocals, Conn
<1>7. CASE WriteReopenFails(k) BY <1>7 DEF WriteReopenFails, Return, WriterIdle, WriterLocals, Conn
<1>8. CASE WriteResendFails(k) BY <1>8 DEF WriteResendFails, Return, WriterIdle, WriterLocals, Conn
<1>9. CASE WriteRetire(k) BY <1>9 DEF WriteRetire, Goto, WriterLocals, Conn
<1>10. CASE WriteDelete(k) BY <1>10 DEF WriteDelete, Freed, Return, WriterIdle, WriterLocals, Conn
<1>11. CASE UNCHANGED conn /\ Return(k) BY <1>11 DEF Return, WriterIdle, WriterLocals
<1>12. CASE WriteBegin(k) BY <1>12 DEF WriteBegin, Goto, WriterLocals
<1>13. CASE WriteSendFails(k) BY <1>13 DEF WriteSendFails, Goto, WriterLocals
<1>14. CASE WriteRecv(k) BY <1>14 DEF WriteRecv, Goto, WriterLocals
<1>15. CASE UNCHANGED <<conn, writer>> BY <1>15
<1> QED BY <1>2, <1>3, <1>4, <1>5, <1>6, <1>7, <1>8, <1>9, <1>10, <1>11, <1>12, <1>13, <1>14, <1>15
        DEF Write, WriteFails, WriteSend, WriteRetireNil

\* A writer deletes the Conn it closed before it does anything else
\* (server.go:222-225).
LEMMA WriteClosed ==
  ASSUME TypeOK, OneKeyPerConn, WriterHasConn, ClosedIsRetiring, NEW k \in Keys, Write(k)
  PROVE  ClosedIsRetiring'
<1> USE NilAssumption DEF ClosedIsRetiring, WriterHasConn, P
<1>0. /\ pools \in [Keys -> Conns \cup {None}] /\ conn \in [Conns -> Conn]
      /\ writer \in [Keys -> WriterLocals]
  BY DEF TypeOK
<1>1. \A k2 \in Keys : writer[k].p \in Conns /\ k2 # k => pools[k2] # writer[k].p
  BY <1>0 DEF OneKeyPerConn, WriterLocals
<1> USE <1>0, <1>1
<1>2. CASE WriteLoad(k) BY <1>2 DEF WriteLoad, WriterIdle, WriterLocals
<1>3. CASE WriteStore(k) BY <1>3 DEF WriteStore, Reachable, EmptyConn, WriterLocals
<1>4. CASE WriteDial(k) BY <1>4 DEF WriteDial, Goto, WriterLocals, Conn
<1>5. CASE WriteOpen(k) BY <1>5 DEF WriteOpen, Goto, WriterLocals, Conn
<1>6. CASE WriteReopen(k) BY <1>6 DEF WriteReopen, Opens, Goto, WriterLocals, Conn
<1>7. CASE WriteReopenFails(k) BY <1>7 DEF WriteReopenFails, Return, WriterIdle, WriterLocals, Conn
<1>8. CASE WriteResendFails(k) BY <1>8 DEF WriteResendFails, Return, WriterIdle, WriterLocals, Conn
<1>9. CASE WriteRetire(k) BY <1>9 DEF WriteRetire, Goto, WriterLocals, Conn
<1>10. CASE WriteDelete(k) BY <1>10 DEF WriteDelete, Freed, Return, WriterIdle, WriterLocals, EmptyConn, Conn
<1>11. CASE UNCHANGED <<pools, conn>> /\ Return(k) /\ writer[k].pc # "delete" BY <1>11 DEF Return, WriterIdle, WriterLocals
<1>12. CASE UNCHANGED <<pools, conn>> /\ (\E pc : Goto(k, pc)) /\ writer[k].pc # "delete" BY <1>12 DEF Goto, WriterLocals
<1>13. CASE UNCHANGED <<pools, conn, writer>> BY <1>13
<1> QED BY <1>2, <1>3, <1>4, <1>5, <1>6, <1>7, <1>8, <1>9, <1>10, <1>11, <1>12, <1>13
        DEF Write, WriteBegin, WriteFails, WriteSend, WriteSendFails, WriteRecv, WriteRetireNil

\* When every dial succeeds, the reconn branch only meets dialled Conns.
LEMMA WriteDialled ==
  ASSUME TypeOK, OneKeyPerConn, WriterHasConn, UndialledIsDialling, ~DialErrors, NEW k \in Keys, Write(k)
  PROVE  UndialledIsDialling' /\ (WriteNeverPanics => WriteNeverPanics')
<1> USE NilAssumption DEF UndialledIsDialling, WriterHasConn, P
<1>0. /\ pools \in [Keys -> Conns \cup {None}] /\ conn \in [Conns -> Conn]
      /\ writer \in [Keys -> WriterLocals] /\ config \in Servers
  BY DEF TypeOK
<1>1. \A k2 \in Keys : writer[k].p \in Conns /\ k2 # k => pools[k2] # writer[k].p /\ writer[k2].p # writer[k].p
  BY <1>0 DEF OneKeyPerConn, WriterLocals
<1> USE <1>0, <1>1
<1>2. CASE WriteLoad(k) BY <1>2 DEF WriteLoad, WriterIdle, WriterLocals, WriteNeverPanics
<1>3. CASE WriteStore(k) BY <1>3 DEF WriteStore, Reachable, EmptyConn, WriterLocals, WriteNeverPanics
<1>4. CASE WriteDial(k) BY <1>4 DEF WriteDial, Goto, WriterLocals, Conn, WriteNeverPanics
<1>5. CASE WriteOpen(k) BY <1>5 DEF WriteOpen, Goto, WriterLocals, Conn, WriteNeverPanics
<1>6. CASE WriteReopen(k) BY <1>6 DEF WriteReopen, Opens, Goto, WriterLocals, Conn, WriteNeverPanics
<1>7. CASE WriteReopenFails(k) BY <1>7 DEF WriteReopenFails, Return, WriterIdle, WriterLocals, Conn, WriteNeverPanics
<1>8. CASE WriteResendFails(k) BY <1>8 DEF WriteResendFails, Return, WriterIdle, WriterLocals, Conn, WriteNeverPanics
<1>9. CASE WriteRetire(k) BY <1>9 DEF WriteRetire, Goto, WriterLocals, Conn, WriteNeverPanics
<1>10. CASE WriteRetireNil(k) BY <1>10 DEF WriteRetireNil
<1>11. CASE WriteDelete(k) BY <1>11 DEF WriteDelete, Freed, Return, WriterIdle, WriterLocals, EmptyConn, Conn, WriteNeverPanics
<1>12. CASE UNCHANGED <<pools, conn, panic>> /\ Return(k) /\ writer[k].pc # "dial"
  BY <1>12 DEF Return, WriterIdle, WriterLocals, WriteNeverPanics
<1>13. CASE UNCHANGED <<pools, conn, panic>> /\ (\E pc : Goto(k, pc)) /\ writer[k].pc # "dial"
  BY <1>13 DEF Goto, WriterLocals, WriteNeverPanics
<1> QED BY <1>2, <1>3, <1>4, <1>5, <1>6, <1>7, <1>8, <1>9, <1>10, <1>11, <1>12, <1>13
        DEF Write, WriteBegin, WriteFails, WriteSend, WriteSendFails, WriteRecv

-----------------------------------------------------------------------------

\* ReConnect replaces the address first and then marks every Conn that was in
\* the pool at that moment (server.go:101-105).
LEMMA ReConnectStale ==
  ASSUME TypeOK, NoStaleConn, NEW h \in Callers, ReConnect(h) \/ Hook(h)
  PROVE  NoStaleConn'
<1> USE NilAssumption DEF NoStaleConn, WillVisit
<1>0. /\ pools \in [Keys -> Conns \cup {None}] /\ conn \in [Conns -> Conn]
      /\ caller \in [Callers -> CallerLocals]
      /\ UNCHANGED pools
  BY DEF TypeOK, ReConnect, Hook
<1> USE <1>0
<1>1. CASE ReConnectBegin(h) BY <1>1 DEF ReConnectBegin, CallerLocals
<1>2. CASE ReConnectGetConfig(h) BY <1>2 DEF ReConnectGetConfig, CallerLocals
<1>3. CASE ReConnectConfig(h) BY <1>3 DEF ReConnectConfig, Ranges, CallerLocals
<1>4. ASSUME NEW k \in Keys, ReConnectMark(h, k) PROVE NoStaleConn'
  BY <1>4 DEF ReConnectMark, Conn, CallerLocals
<1>5. CASE ReConnectRun(h) BY <1>5 DEF ReConnectRun, CallerIdle, CallerLocals
<1>6. CASE Disconnect(h) BY <1>6 DEF Disconnect
<1> QED BY <1>1, <1>2, <1>3, <1>4, <1>5, <1>6 DEF ReConnect, Hook

\* Of the rest of IInv, ReConnect touches nothing but reconn flags.
LEMMA ReConnectStep ==
  ASSUME IInv, NEW h \in Callers, ReConnect(h) \/ Hook(h)
  PROVE  IInv'
<1>1. UNCHANGED <<pools, writer, panic>>
  BY DEF ReConnect, Hook
<1>2. conn \in [Conns -> Conn] /\ writer \in [Keys -> WriterLocals]
  BY DEF IInv, TypeOK
<1>3. \A c \in Conns : /\ conn'[c].addr = conn[c].addr
                       /\ conn'[c].closed = conn[c].closed
                       /\ conn'[c].grpcstream = conn[c].grpcstream
  BY <1>2 DEF ReConnect, Hook, ReConnectBegin, ReConnectGetConfig, ReConnectConfig, ReConnectMark, ReConnectRun, Disconnect, Conn
<1>4. TypeOK' /\ NoStaleConn'
  BY ReConnectType, ReConnectStale DEF IInv
<1> QED BY <1>1, <1>2, <1>3, <1>4 DEF IInv, OneKeyPerConn, WriterHasConn, SendHasStream, ClosedIsRetiring, UndialledIsDialling, WriteNeverPanics, WriterLocals

\* The Start loop only ever replaces a stream by another and sets valid.
LEMMA StartStep ==
  ASSUME IInv, Start
  PROVE  IInv'
<1>1. UNCHANGED <<pools, config, caller, writer>>
  BY DEF Start, StartFrame
<1>2. conn \in [Conns -> Conn] /\ writer \in [Keys -> WriterLocals]
  BY DEF IInv, TypeOK
<1>3. \A c \in Conns : /\ conn'[c].addr = conn[c].addr
                       /\ conn'[c].closed = conn[c].closed
                       /\ conn'[c].reconn = conn[c].reconn
                       /\ conn'[c].grpcstream = None => conn[c].grpcstream = None
  <2>1. CASE StartOpen
    <3>1. PICK s \in Streams : conn' = [conn EXCEPT ![loop.conn].grpcstream = s]
      BY <2>1 DEF StartOpen, Opens
    <3> QED BY <1>2, <3>1, NilAssumption DEF Conn
  <2>2. CASE StartValidate BY <1>2, <2>2 DEF StartValidate, Conn
  <2>3. CASE UNCHANGED conn BY <2>3
  <2> QED BY <2>1, <2>2, <2>3 DEF Start, StartTick, StartVisit, StartOpenFails, StartOpenNil, StartRangeEnds, StartExits
<1>4. panic # "Write" => panic' # "Write"
  BY DEF Start, StartTick, StartVisit, StartOpen, StartOpenFails, StartOpenNil, StartValidate, StartRangeEnds, StartExits
<1>5. TypeOK'
  BY StartType DEF IInv
<1>6. NoStaleConn'
  BY <1>1, <1>3 DEF IInv, NoStaleConn, WillVisit
<1> QED BY <1>1, <1>2, <1>3, <1>4, <1>5, <1>6 DEF IInv, OneKeyPerConn, WriterHasConn, SendHasStream, ClosedIsRetiring, UndialledIsDialling, WriteNeverPanics, WriterLocals

\* Stop only takes Conns out of the pool.
LEMMA StopStep ==
  ASSUME IInv, Stop
  PROVE  IInv'
<1>1. UNCHANGED <<config, caller, writer>>
  BY DEF Stop
<1>2. /\ conn \in [Conns -> Conn] /\ writer \in [Keys -> WriterLocals]
      /\ pools \in [Keys -> Conns \cup {None}]
  BY DEF IInv, TypeOK
<1>3. \A k \in Keys : pools'[k] \in {None, pools[k]}
  BY <1>2 DEF Stop, StopRequest, StopRefused, StopBegin, StopVisit, StopRecv, StopRecvNil, StopDelete, StopEnds
<1>4. \A c \in Conns : (\E k \in Keys : pools'[k] = c \/ writer[k].p = c) => conn'[c] = conn[c]
  <2>1. CASE StopDelete
    <3> SUFFICES ASSUME NEW c \in Conns, NEW k \in Keys, pools'[k] = c \/ writer[k].p = c
                 PROVE  conn'[c] = conn[c]
      OBVIOUS
    <3>1. CASE writer[k].p = c BY <1>2, <2>1, <3>1 DEF StopDelete, Freed
    <3>2. CASE pools'[k] = c
      <4>1. k # stop.key /\ pools[k] = c BY <1>2, <2>1, <3>2, NilAssumption DEF StopDelete
      <4> QED BY <1>2, <2>1, <4>1 DEF StopDelete, Freed
    <3> QED BY <3>1, <3>2
  <2>2. CASE UNCHANGED conn BY <2>2
  <2> QED BY <2>1, <2>2 DEF Stop, StopRequest, StopRefused, StopBegin, StopVisit, StopRecv, StopRecvNil, StopEnds
<1>5. panic # "Write" => panic' # "Write"
  BY DEF Stop, StopRequest, StopRefused, StopBegin, StopVisit, StopRecv, StopRecvNil, StopDelete, StopEnds
<1>6. TypeOK'
  BY StopType DEF IInv
<1>7. NoStaleConn'
  BY <1>1, <1>3, <1>4, NilAssumption DEF IInv, NoStaleConn, WillVisit
<1> QED BY <1>1, <1>2, <1>3, <1>4, <1>5, <1>6, <1>7, NilAssumption DEF IInv, OneKeyPerConn, WriterHasConn, SendHasStream, ClosedIsRetiring, UndialledIsDialling, WriteNeverPanics, WriterLocals

\* The inductive step: no step of any actor leaves the invariant.
LEMMA IInvStep == IInv /\ [Next]_vars => IInv'
<1> SUFFICES ASSUME IInv, [Next]_vars PROVE IInv'
  OBVIOUS
<1> USE DEF IInv
<1>1. ASSUME NEW k \in Keys, Write(k) PROVE IInv'
  BY <1>1, WriteType, WriteOwn, WriteHas, WriteStale, WriteStream, WriteClosed, WriteDialled
<1>2. ASSUME NEW h \in Callers, ReConnect(h) \/ Hook(h) PROVE IInv'
  BY <1>2, ReConnectStep
<1>3. CASE Start BY <1>3, StartStep
<1>4. CASE Stop BY <1>4, StopStep
<1>5. ASSUME NEW s \in Streams, Break(s) PROVE IInv'
  <2>1. TypeOK' BY <1>5, BreakType
  <2> QED BY <1>5, <2>1 DEF Break, OneKeyPerConn, WriterHasConn, NoStaleConn, WillVisit, SendHasStream, ClosedIsRetiring, UndialledIsDialling, WriteNeverPanics
<1>6. CASE UNCHANGED vars
  <2>1. TypeOK' BY <1>6, TypeStep
  <2> QED BY <1>6, <2>1 DEF vars, OneKeyPerConn, WriterHasConn, NoStaleConn, WillVisit, SendHasStream, ClosedIsRetiring, UndialledIsDialling, WriteNeverPanics
<1> QED BY <1>1, <1>2, <1>3, <1>4, <1>5, <1>6 DEF Next

\* The empty pool satisfies the inductive invariant.
LEMMA IInvInit == Init => IInv
<1> SUFFICES ASSUME Init PROVE IInv
  OBVIOUS
<1>1. TypeOK BY TypeInit
<1> QED BY <1>1, NilAssumption DEF IInv, Init, EmptyConn, WriterIdle, OneKeyPerConn, WriterHasConn, NoStaleConn, SendHasStream, ClosedIsRetiring, UndialledIsDialling, WriteNeverPanics

\* The inductive invariant holds in every reachable state.
THEOREM Inductive == Spec => []IInv
BY IInvInit, IInvStep, PTL DEF Spec

\* An unlocked ReConnect reaches every Conn dialled to an old address
\* (server.go:100-107 against 186-226), for any number of concurrent callers.
THEOREM NoStale == Spec => []NoStaleConn
<1>1. IInv => NoStaleConn BY DEF IInv
<1> QED BY <1>1, Inductive, PTL

\* Write never calls Send or CloseAndRecv on a nil stream (server.go:229-259).
THEOREM StreamForSend == Spec => []SendHasStream
<1>1. IInv => SendHasStream BY DEF IInv
<1> QED BY <1>1, Inductive, PTL

\* No Write takes up a Conn after its ClientConn was closed, for any number of
\* keys, hooks and retirements; Stop can, but only between the Close and the
\* Delete of the Write that retires it (server.go:222-223, 274-276).
THEOREM ClosedStaysUnused == Spec => ClosedNotTaken
<1>1. ASSUME IInv, [Next]_vars, NEW k \in Keys, NEW c \in Conns, conn'[c].closed
      PROVE  /\ ~WriteTakes(k, c)
             /\ StopTakes(k, c) => writer[k] = [pc |-> "delete", p |-> c]
  <2>0. /\ pools \in [Keys -> Conns \cup {None}] /\ conn \in [Conns -> Conn]
        /\ writer \in [Keys -> WriterLocals] /\ ClosedIsRetiring
    BY <1>1 DEF IInv, TypeOK
  <2>1. ~WriteTakes(k, c)
    <3>1. SUFFICES ASSUME WriteTakes(k, c) PROVE FALSE
      OBVIOUS
    <3>2. PICK j \in Keys : Write(j)
      BY <1>1, <3>1 DEF WriteTakes, Next, ReConnect, Hook, Start, StartFrame, Stop, Break, vars
    <3>3. WriteLoad(j) \/ WriteStore(j)
      BY <2>0, <3>1, <3>2, NilAssumption
         DEF WriteTakes, WriterLocals, WriterIdle, Goto, Return, Write, WriteBegin, WriteDial, WriteFails,
             WriteOpen, WriteSend, WriteSendFails, WriteRecv, WriteReopen, WriteReopenFails,
             WriteResendFails, WriteRetire, WriteRetireNil, WriteDelete
    <3>4. CASE WriteLoad(j)
      <4>1. j = k /\ pools[k] = c /\ conn' = conn /\ writer[k].pc = "load"
        BY <2>0, <3>1, <3>4, NilAssumption DEF WriteTakes, WriteLoad, WriterIdle
      <4> QED BY <1>1, <2>0, <4>1 DEF ClosedIsRetiring
    <3>5. CASE WriteStore(j)
      <4>1. conn'[c] = EmptyConn
        BY <2>0, <3>1, <3>5 DEF WriteTakes, WriteStore
      <4> QED BY <1>1, <4>1 DEF EmptyConn
    <3> QED BY <3>3, <3>4, <3>5
  <2>2. ASSUME StopTakes(k, c) PROVE writer[k] = [pc |-> "delete", p |-> c]
    <3>1. Stop
      BY <1>1, <2>2 DEF StopTakes, Next, Write, WriteFrame, ReConnect, Hook, Start, StartFrame, Break, vars
    <3>2. PICK j \in Keys : StopVisit(j)
      BY <2>2, <3>1, <1>1, NilAssumption
         DEF StopTakes, Stop, StopRequest, StopRefused, StopBegin, StopRecv, StopRecvNil, StopDelete,
             StopEnds, IInv, TypeOK, StopLocals
    <3>3. pools[k] = c /\ conn' = conn
      BY <1>1, <2>0, <2>2, <3>2 DEF StopTakes, StopVisit, IInv, TypeOK, StopLocals
    <3> QED BY <1>1, <2>0, <3>3 DEF ClosedIsRetiring
  <2> QED BY <2>1, <2>2
<1>2. IInv /\ [Next]_vars =>
        [\A k \in Keys : \A c \in Conns : conn'[c].closed =>
            /\ ~WriteTakes(k, c)
            /\ StopTakes(k, c) => writer[k] = [pc |-> "delete", p |-> c]]_vars
  BY <1>1
<1> QED BY <1>2, Inductive, PTL DEF Spec, ClosedNotTaken

\* If grpc.DialContext never refuses the address, Write never dereferences nil
\* (server.go:196-226).  A refused dial leaves a Conn whose ClientConn is nil.
THEOREM WriteSafe == ASSUME ~DialErrors PROVE Spec => []WriteNeverPanics
<1>1. IInv => WriteNeverPanics BY DEF IInv
<1> QED BY <1>1, Inductive, PTL

=============================================================================
