----------------------------- MODULE LinkProofs -----------------------------
(***************************************************************************)
(* Proof that Forwarder implements Link, for every number of keys, Conns,  *)
(* streams, addresses and callers, with and without a cluster.  Beyond     *)
(* IInv it needs LinkInv: what a writer has in its hands is the Conn of    *)
(* its key, unless Stop took that out of the pool; a Conn that is being    *)
(* dialled was never dialled before; one that is being retired is marked.  *)
(***************************************************************************)
EXTENDS ForwarderProofs

WriterHoldsOwn ==
    \A k \in Keys : writer[k].p # None => pools[k] \in {None, writer[k].p}

DialsOnce == \A k \in Keys : writer[k].pc = "dial" => conn[writer[k].p].addr = None

RetiresMarked ==
    \A k \in Keys : writer[k].pc \in {"retire", "delete"} => conn[writer[k].p].reconn

LinkInv == WriterHoldsOwn /\ DialsOnce /\ RetiresMarked

\* A writer never has the Conn of another key in its hands.
LEMMA Apart ==
  ASSUME TypeOK, OneKeyPerConn, WriterHasConn, NEW k \in Keys, NEW k2 \in Keys, k2 # k
  PROVE  /\ writer[k].p # None => writer[k2].p # writer[k].p /\ pools[k2] # writer[k].p
         /\ pools[k] # None => writer[k2].p # pools[k] /\ pools[k2] # pools[k]
BY NilAssumption DEF TypeOK, OneKeyPerConn, WriterHasConn, WriterLocals

\* Write keeps LinkInv: it returns with empty hands, holds what it stored or
\* loaded, and its Conn's reconn is only ever set (server.go:191-226).
LEMMA WriteLinkInv ==
  ASSUME TypeOK, OneKeyPerConn, WriterHasConn, LinkInv, NEW k \in Keys, Write(k)
  PROVE  LinkInv'
<1> USE NilAssumption DEF LinkInv, WriterHoldsOwn, DialsOnce, RetiresMarked, P
<1>0. /\ pools \in [Keys -> Conns \cup {None}] /\ conn \in [Conns -> Conn]
      /\ writer \in [Keys -> WriterLocals] /\ WriterHasConn
      /\ \A k2 \in Keys : k2 # k =>
            /\ writer[k].p # None => writer[k2].p # writer[k].p /\ pools[k2] # writer[k].p
            /\ pools[k] # None => writer[k2].p # pools[k] /\ pools[k2] # pools[k]
  BY Apart DEF TypeOK
<1>1. CASE WriteLoad(k) BY <1>0, <1>1 DEF WriteLoad, WriterIdle, WriterLocals
<1>2. CASE WriteStore(k)
  BY <1>0, <1>2 DEF WriteStore, Reachable, EmptyConn, WriterLocals, WriterHasConn
<1>3. CASE WriteDial(k) BY <1>0, <1>3 DEF WriteDial, Goto, WriterLocals, WriterHasConn, Conn
<1>4. CASE WriteOpen(k)
  <2>1. PICK s \in Streams : conn' = [conn EXCEPT ![P(k)].grpcstream = s, ![P(k)].valid = TRUE]
    BY <1>4 DEF WriteOpen
  <2>2. \A c \in Conns : conn'[c].addr = conn[c].addr /\ conn'[c].reconn = conn[c].reconn
    BY <1>0, <2>1 DEF Conn
  <2>3. UNCHANGED pools /\ writer[k].p \in Conns
    BY <1>0, <1>4 DEF WriteOpen, WriterLocals, WriterHasConn
  <2>4. /\ writer'[k].p = writer[k].p /\ writer'[k].pc \in {"retire", "send"}
        /\ writer'[k].pc = "retire" => conn[writer[k].p].reconn
    BY <1>0, <1>4 DEF WriteOpen, Goto, WriterLocals
  <2>5. \A k2 \in Keys : k2 # k => writer'[k2] = writer[k2]
    BY <1>0, <1>4 DEF WriteOpen, Goto
  <2>6. \A k2 \in Keys : writer'[k2].p = writer[k2].p BY <2>4, <2>5
  <2>7. WriterHoldsOwn' BY <2>3, <2>6
  <2>8. \A k2 \in Keys : writer[k2].pc \in {"dial", "retire", "delete"} => writer[k2].p \in Conns
    BY <1>0 DEF WriterLocals, WriterHasConn
  <2>9. DialsOnce'
    <3> SUFFICES ASSUME NEW k2 \in Keys, writer'[k2].pc = "dial" PROVE conn'[writer'[k2].p].addr = None
      OBVIOUS
    <3> QED BY <2>2, <2>4, <2>5, <2>8
  <2>10. RetiresMarked'
    <3> SUFFICES ASSUME NEW k2 \in Keys, writer'[k2].pc \in {"retire", "delete"}
                 PROVE  conn'[writer'[k2].p].reconn
      OBVIOUS
    <3>1. CASE k2 = k BY <2>2, <2>3, <2>4, <3>1
    <3>2. CASE k2 # k BY <2>2, <2>5, <2>8, <3>2
    <3> QED BY <3>1, <3>2
  <2> QED BY <2>7, <2>9, <2>10
<1>5. CASE WriteReopen(k)
  BY <1>0, <1>5 DEF WriteReopen, Opens, Goto, WriterLocals, WriterHasConn, Conn
<1>6. CASE WriteReopenFails(k) \/ WriteResendFails(k)
  <2>1. \A c \in Conns : conn'[c].addr = conn[c].addr /\ conn'[c].reconn = conn[c].reconn
    BY <1>0, <1>6 DEF WriteReopenFails, WriteResendFails, Conn
  <2>2. UNCHANGED pools /\ Return(k) BY <1>6 DEF WriteReopenFails, WriteResendFails
  <2> QED BY <1>0, <2>1, <2>2 DEF Return, WriterIdle, WriterLocals, WriterHasConn
<1>7. CASE WriteRetire(k) BY <1>0, <1>7 DEF WriteRetire, Goto, WriterLocals, WriterHasConn, Conn
<1>8. CASE WriteDelete(k)
  BY <1>0, <1>8 DEF WriteDelete, Freed, Return, WriterIdle, WriterLocals, WriterHasConn, Conn
<1>9. CASE UNCHANGED <<pools, conn>> /\ Return(k) BY <1>0, <1>9 DEF Return, WriterIdle, WriterLocals
<1>10. CASE UNCHANGED <<pools, conn>> /\ \E pc \in {"load", "recv", "reopen"} : Goto(k, pc)
  BY <1>0, <1>10 DEF Goto, WriterLocals
<1>11. CASE UNCHANGED <<pools, conn, writer>> BY <1>11
<1> QED BY <1>1, <1>2, <1>3, <1>4, <1>5, <1>6, <1>7, <1>8, <1>9, <1>10, <1>11
        DEF Write, WriteBegin, WriteFails, WriteSend, WriteSendFails, WriteRecv, WriteRetireNil

\* ReConnect only sets reconn.
LEMMA ReConnectLinkInv ==
  ASSUME TypeOK, WriterHasConn, LinkInv, NEW h \in Callers, ReConnect(h) \/ Hook(h)
  PROVE  LinkInv'
<1>1. UNCHANGED <<pools, writer>> /\ conn \in [Conns -> Conn] /\ writer \in [Keys -> WriterLocals]
  BY DEF ReConnect, Hook, TypeOK
<1>2. \A c \in Conns : /\ conn'[c].addr = conn[c].addr
                       /\ conn[c].reconn => conn'[c].reconn
  BY <1>1 DEF ReConnect, Hook, ReConnectBegin, ReConnectGetConfig, ReConnectConfig, ReConnectMark, ReConnectRun, Disconnect, Conn
<1> QED BY <1>1, <1>2 DEF LinkInv, WriterHoldsOwn, DialsOnce, RetiresMarked, WriterHasConn, WriterLocals

\* The Start loop changes neither field.
LEMMA StartLinkInv ==
  ASSUME TypeOK, WriterHasConn, LinkInv, Start
  PROVE  LinkInv' /\ \A c \in Conns : conn'[c].addr = conn[c].addr /\ conn'[c].reconn = conn[c].reconn
<1>1. UNCHANGED <<pools, writer>> /\ conn \in [Conns -> Conn] /\ writer \in [Keys -> WriterLocals]
  BY DEF Start, StartFrame, TypeOK
<1>2. \A c \in Conns : conn'[c].addr = conn[c].addr /\ conn'[c].reconn = conn[c].reconn
  <2>1. CASE StartOpen
    <3>1. PICK s \in Streams : conn' = [conn EXCEPT ![loop.conn].grpcstream = s]
      BY <2>1 DEF StartOpen, Opens
    <3> QED BY <1>1, <3>1 DEF Conn
  <2>2. CASE StartValidate BY <1>1, <2>2 DEF StartValidate, Conn
  <2>3. CASE UNCHANGED conn BY <2>3
  <2> QED BY <2>1, <2>2, <2>3 DEF Start, StartTick, StartVisit, StartOpenFails, StartOpenNil, StartRangeEnds, StartExits
<1> QED BY <1>1, <1>2 DEF LinkInv, WriterHoldsOwn, DialsOnce, RetiresMarked, WriterHasConn, WriterLocals

\* Stop takes Conns out of the pool and leaves the others, and those in the
\* hands of a writer, as they are.
LEMMA StopConns ==
  ASSUME TypeOK, Stop
  PROVE  /\ \A k \in Keys : pools'[k] \in {None, pools[k]}
         /\ \A c \in Conns : (\E k \in Keys : pools'[k] = c \/ writer[k].p = c) => conn'[c] = conn[c]
<1>1. /\ conn \in [Conns -> Conn] /\ writer \in [Keys -> WriterLocals]
      /\ pools \in [Keys -> Conns \cup {None}]
  BY DEF TypeOK
<1>2. CASE StopDelete
  <2>1. \A k \in Keys : pools'[k] \in {None, pools[k]} BY <1>1, <1>2 DEF StopDelete
  <2> SUFFICES ASSUME NEW c \in Conns, NEW k \in Keys, pools'[k] = c \/ writer[k].p = c
               PROVE  conn'[c] = conn[c]
    BY <2>1
  <2>2. CASE writer[k].p = c BY <1>1, <1>2, <2>2 DEF StopDelete, Freed
  <2>3. CASE pools'[k] = c
    <3>1. k # stop.key /\ pools[k] = c BY <1>1, <1>2, <2>3, NilAssumption DEF StopDelete
    <3> QED BY <1>1, <1>2, <3>1 DEF StopDelete, Freed
  <2> QED BY <2>2, <2>3
<1>3. CASE UNCHANGED <<pools, conn>> BY <1>1, <1>3
<1> QED BY <1>2, <1>3 DEF Stop, StopRequest, StopRefused, StopBegin, StopVisit, StopRecv, StopRecvNil, StopEnds

LEMMA StopLinkInv ==
  ASSUME TypeOK, WriterHasConn, LinkInv, Stop
  PROVE  LinkInv'
<1>1. UNCHANGED writer /\ writer \in [Keys -> WriterLocals]
  BY DEF Stop, TypeOK
<1> QED BY <1>1, StopConns, NilAssumption DEF LinkInv, WriterHoldsOwn, DialsOnce, RetiresMarked, WriterHasConn, WriterLocals

\* Together: IInv and LinkInv are kept by every step.
LEMMA LinkInvStep == IInv /\ LinkInv /\ [Next]_vars => LinkInv'
<1> SUFFICES ASSUME IInv, LinkInv, [Next]_vars PROVE LinkInv'
  OBVIOUS
<1> USE DEF IInv
<1>1. ASSUME NEW k \in Keys, Write(k) PROVE LinkInv' BY <1>1, WriteLinkInv
<1>2. ASSUME NEW h \in Callers, ReConnect(h) \/ Hook(h) PROVE LinkInv' BY <1>2, ReConnectLinkInv
<1>3. CASE Start BY <1>3, StartLinkInv
<1>4. CASE Stop BY <1>4, StopLinkInv
<1>5. ASSUME NEW s \in Streams, Break(s) PROVE LinkInv'
  BY <1>5 DEF Break, LinkInv, WriterHoldsOwn, DialsOnce, RetiresMarked
<1>6. CASE UNCHANGED vars
  BY <1>6 DEF vars, LinkInv, WriterHoldsOwn, DialsOnce, RetiresMarked
<1> QED BY <1>1, <1>2, <1>3, <1>4, <1>5, <1>6 DEF Next

-----------------------------------------------------------------------------

\* A step that leaves the pool, s.config, the callers and shutdown alone, and
\* addr and reconn of every Conn in the pool, is not visible in Link.
LEMMA Invisible ==
  ASSUME TypeOK, UNCHANGED <<pools, config, caller>>, Closing' = Closing,
         \A k \in Keys : pools[k] # None =>
            /\ conn'[pools[k]].addr = conn[pools[k]].addr
            /\ conn'[pools[k]].reconn = conn[pools[k]].reconn
  PROVE  UNCHANGED L!vars
<1>1. Open' = Open BY DEF Open
<1>2. To' = To BY <1>1 DEF To, Open
<1>3. Old' = Old BY <1>1 DEF Old, Open, WillVisit
<1> QED BY <1>1, <1>2, <1>3 DEF L!vars

\* Write opens, dials and retires links, one key at a time (server.go:191-226).
LEMMA WriteLinks ==
  ASSUME IInv, LinkInv, NEW k \in Keys, Write(k)
  PROVE  [L!Next]_(L!vars)
<1> USE NilAssumption DEF P
<1>0. /\ TypeOK /\ pools \in [Keys -> Conns \cup {None}] /\ conn \in [Conns -> Conn]
      /\ writer \in [Keys -> WriterLocals] /\ WriterHasConn
      /\ UNCHANGED <<config, caller, stop>> /\ Closing' = Closing
      /\ \A k2 \in Keys : k2 # k =>
            /\ writer[k].p # None => writer[k2].p # writer[k].p /\ pools[k2] # writer[k].p
            /\ pools[k] # None => writer[k2].p # pools[k] /\ pools[k2] # pools[k]
  BY Apart DEF IInv, TypeOK, Write, WriteFrame, Closing
<1>1. CASE WriteStore(k)
  <2>1. k \notin Open /\ Open' = Open \cup {k} BY <1>0, <1>1 DEF WriteStore, Open
  <2>2. PICK c \in Conns : /\ ~Reachable(c) /\ conn' = [conn EXCEPT ![c] = EmptyConn]
                           /\ pools' = [pools EXCEPT ![k] = c]
    BY <1>1 DEF WriteStore
  <2>3. \A k2 \in Open : k2 # k /\ pools'[k2] = pools[k2] /\ conn'[pools[k2]] = conn[pools[k2]]
    BY <1>0, <2>1, <2>2 DEF Open, Reachable
  <2>4. conn'[pools'[k]].addr = None BY <1>0, <2>2 DEF EmptyConn
  <2>5. To' = To BY <2>1, <2>3, <2>4 DEF To
  <2>6. Old' \in {Old, Old \cup {k}} BY <1>0, <2>1, <2>3 DEF Old, WillVisit
  <2> QED BY <1>0, <2>1, <2>5, <2>6 DEF L!Next, L!Open
<1>2. CASE WriteDial(k)
  <2>1. /\ UNCHANGED pools /\ conn' = [conn EXCEPT ![writer[k].p].addr = config]
        /\ writer[k].p \in Conns /\ conn[writer[k].p].addr = None
    BY <1>0, <1>2 DEF WriteDial, WriterHasConn, LinkInv, DialsOnce
  <2>2. Open' = Open BY <2>1 DEF Open
  <2>3. \A c \in Conns : /\ conn'[c].reconn = conn[c].reconn
                         /\ conn'[c].addr = IF c = writer[k].p THEN config ELSE conn[c].addr
    BY <1>0, <2>1 DEF Conn
  <2>4. Old' = Old BY <1>0, <2>1, <2>2, <2>3 DEF Old, Open, WillVisit
  <2>5. CASE pools[k] = None
    <3>1. \A k2 \in Open : pools[k2] # writer[k].p BY <1>0, <2>1, <2>5 DEF Open
    <3>2. To' = To BY <1>0, <2>1, <2>2, <2>3, <3>1 DEF To, Open
    <3> QED BY <1>0, <2>2, <2>4, <3>2 DEF L!vars
  <2>6. CASE pools[k] = writer[k].p
    <3>1. k \in Open /\ To[k] = None BY <1>0, <2>1, <2>6 DEF Open, To
    <3>2. To' = [To EXCEPT ![k] = config] BY <1>0, <2>1, <2>2, <2>3, <2>6 DEF To, Open
    <3> QED BY <1>0, <2>2, <2>4, <3>1, <3>2 DEF L!Next, L!Dial
  <2> QED BY <2>1, <2>5, <2>6 DEF LinkInv, WriterHoldsOwn
<1>3. CASE WriteDelete(k)
  <2>1. /\ writer[k].p \in Conns /\ conn[writer[k].p].reconn /\ pools' = [pools EXCEPT ![k] = None]
        /\ \A c \in Conns : c # writer[k].p => conn'[c] = conn[c]
    BY <1>0, <1>3 DEF WriteDelete, Freed, WriterHasConn, LinkInv, RetiresMarked
  <2>2. \A k2 \in Open \ {k} : pools'[k2] = pools[k2] /\ conn'[pools[k2]] = conn[pools[k2]]
    BY <1>0, <2>1 DEF Open
  <2>3. Open' = Open \ {k} BY <1>0, <2>1 DEF Open
  <2>4. To' = [To EXCEPT ![k] = None] BY <2>2, <2>3 DEF To, Open
  <2>5. Old' = Old \ {k} BY <1>0, <2>2, <2>3 DEF Old, Open, WillVisit
  <2>6. CASE pools[k] = None
    <3>1. k \notin Open BY <2>6 DEF Open
    <3>2. Open' = Open /\ Old' = Old BY <2>3, <2>5, <3>1 DEF Old
    <3>3. To' = To BY <2>4, <3>1 DEF To
    <3> QED BY <1>0, <3>2, <3>3 DEF L!vars
  <2>7. CASE pools[k] = writer[k].p
    <3>1. k \in Old BY <1>0, <2>1, <2>7 DEF Old, Open
    <3> QED BY <1>0, <2>3, <2>4, <2>5, <3>1 DEF L!Next, L!Retire, L!Remove
  <2> QED BY <2>1, <2>6, <2>7 DEF LinkInv, WriterHoldsOwn
<1>4. CASE WriteOpen(k)
  <2>1. PICK s \in Streams : conn' = [conn EXCEPT ![P(k)].grpcstream = s, ![P(k)].valid = TRUE]
    BY <1>4 DEF WriteOpen
  <2>2. \A c \in Conns : conn'[c].addr = conn[c].addr /\ conn'[c].reconn = conn[c].reconn
    BY <1>0, <2>1 DEF Conn
  <2>3. UNCHANGED pools BY <1>4 DEF WriteOpen
  <2> QED BY <1>0, <2>2, <2>3, Invisible
<1>5. CASE WriteReopen(k) \/ WriteReopenFails(k) \/ WriteResendFails(k) \/ WriteRetire(k)
  <2>1. UNCHANGED pools BY <1>5 DEF WriteReopen, WriteReopenFails, WriteResendFails, WriteRetire
  <2>2. CASE WriteReopen(k)
    <3>1. PICK s \in Streams : conn' = [conn EXCEPT ![P(k)].grpcstream = s]
      BY <2>2 DEF WriteReopen, Opens
    <3>2. \A c \in Conns : conn'[c].addr = conn[c].addr /\ conn'[c].reconn = conn[c].reconn
      BY <1>0, <3>1 DEF Conn
    <3> QED BY <1>0, <2>1, <3>2, Invisible
  <2>3. CASE WriteReopenFails(k)
    <3>1. \A c \in Conns : conn'[c].addr = conn[c].addr /\ conn'[c].reconn = conn[c].reconn
      BY <1>0, <2>3 DEF WriteReopenFails, Conn
    <3> QED BY <1>0, <2>1, <3>1, Invisible
  <2>4. CASE WriteResendFails(k)
    <3>1. \A c \in Conns : conn'[c].addr = conn[c].addr /\ conn'[c].reconn = conn[c].reconn
      BY <1>0, <2>4 DEF WriteResendFails, Conn
    <3> QED BY <1>0, <2>1, <3>1, Invisible
  <2>5. CASE WriteRetire(k)
    <3>1. \A c \in Conns : conn'[c].addr = conn[c].addr /\ conn'[c].reconn = conn[c].reconn
      BY <1>0, <2>5 DEF WriteRetire, Conn
    <3> QED BY <1>0, <2>1, <3>1, Invisible
  <2> QED BY <1>5, <2>2, <2>3, <2>4, <2>5
<1>6. CASE UNCHANGED <<pools, conn>> BY <1>0, <1>6, Invisible
<1> QED BY <1>1, <1>2, <1>3, <1>4, <1>5, <1>6
        DEF Write, WriteBegin, WriteLoad, WriteFails, WriteSend, WriteSendFails, WriteRecv, WriteRetireNil

\* The assignment of s.config is the change; the marks only carry it out
\* (server.go:100-107).
LEMMA ReConnectLinks ==
  ASSUME IInv, NEW h \in Callers, ReConnect(h) \/ Hook(h)
  PROVE  [L!Next]_(L!vars)
<1>0. /\ TypeOK /\ pools \in [Keys -> Conns \cup {None}] /\ conn \in [Conns -> Conn]
      /\ caller \in [Callers -> CallerLocals]
      /\ UNCHANGED <<pools, stop>> /\ Closing' = Closing
  BY DEF IInv, TypeOK, ReConnect, Hook, Closing
<1>1. Open' = Open BY <1>0 DEF Open
<1>2. CASE ReConnectConfig(h)
  <2>1. UNCHANGED conn /\ config' \in Servers BY <1>0, <1>2 DEF ReConnectConfig, CallerLocals
  <2>2. \A k \in Open : WillVisit(h, k)' BY <1>0, <1>2 DEF ReConnectConfig, Ranges, Open, WillVisit
  <2>3. Old' = Open BY <1>1, <2>2 DEF Old
  <2>4. To' = To BY <1>0, <1>1, <2>1 DEF To
  <2> QED BY <1>0, <1>1, <2>1, <2>3, <2>4 DEF L!Next, L!Change
<1>3. ASSUME NEW k \in Keys, ReConnectMark(h, k) PROVE UNCHANGED L!vars
  <2>1. /\ UNCHANGED config
        /\ \A c \in Conns : /\ conn'[c].addr = conn[c].addr
                            /\ conn'[c].reconn = (conn[c].reconn \/ c = pools[k])
    BY <1>0, <1>3 DEF ReConnectMark, Conn
  <2>2. WillVisit(h, k) /\ ~WillVisit(h, k)'
    BY <1>0, <1>3 DEF ReConnectMark, WillVisit
  <2>3. \A g \in Callers : \A k2 \in Keys : g # h \/ k2 # k => WillVisit(g, k2)' = WillVisit(g, k2)
    BY <1>0, <1>3 DEF ReConnectMark, WillVisit
  <2>4. To' = To BY <1>0, <1>1, <2>1 DEF To, Open
  <2>5. ASSUME NEW k2 \in Open PROVE k2 \in Old' <=> k2 \in Old
    <3>1. pools[k2] \in Conns BY <1>0, <2>5 DEF Open
    <3>2. CASE k2 = k BY <1>0, <1>1, <2>1, <2>2, <2>5, <3>1, <3>2 DEF Old
    <3>3. CASE k2 # k
      <4>1. OneKeyPerConn BY DEF IInv
      <4>2. pools[k] # pools[k2] BY <2>5, <3>1, <3>3, <4>1 DEF OneKeyPerConn, Open
      <4> QED BY <1>0, <1>1, <2>1, <2>3, <2>5, <3>1, <3>3, <4>2 DEF Old, Open
    <3> QED BY <3>2, <3>3
  <2>6. Old' = Old BY <1>1, <2>5 DEF Old
  <2> QED BY <1>0, <1>1, <2>1, <2>4, <2>6 DEF L!vars
<1>4. ASSUME UNCHANGED <<conn, config>>,
             \A k \in Keys : WillVisit(h, k)' = WillVisit(h, k),
             \A g \in Callers : g # h => caller'[g] = caller[g]
      PROVE  UNCHANGED L!vars
  <2>1. \A g \in Callers : \A k \in Keys : WillVisit(g, k)' = WillVisit(g, k)
    BY <1>4 DEF WillVisit
  <2>2. To' = To /\ Old' = Old BY <1>0, <1>1, <1>4, <2>1 DEF To, Old, Open
  <2> QED BY <1>0, <1>1, <1>4, <2>2 DEF L!vars
<1>5. CASE ReConnectBegin(h) BY <1>0, <1>4, <1>5 DEF ReConnectBegin, WillVisit
<1>6. CASE ReConnectGetConfig(h) BY <1>0, <1>4, <1>6 DEF ReConnectGetConfig, WillVisit
<1>7. CASE ReConnectRun(h) BY <1>0, <1>4, <1>7 DEF ReConnectRun, CallerIdle, WillVisit
<1>8. CASE Disconnect(h) BY <1>0, <1>4, <1>8 DEF Disconnect, WillVisit
<1> QED BY <1>2, <1>3, <1>5, <1>6, <1>7, <1>8 DEF ReConnect, Hook

\* Stop closes links, which Link allows from the moment running is cleared
\* (server.go:269-287).
LEMMA StopLinks ==
  ASSUME IInv, Stop
  PROVE  [L!Next]_(L!vars)
<1>0. /\ TypeOK /\ pools \in [Keys -> Conns \cup {None}] /\ conn \in [Conns -> Conn]
      /\ stop \in StopLocals /\ UNCHANGED <<config, caller>>
  BY DEF IInv, TypeOK, Stop
<1>1. CASE StopBegin
  <2>1. UNCHANGED <<pools, conn>> /\ Closing' BY <1>0, <1>1 DEF StopBegin, Closing, StopLocals
  <2>2. UNCHANGED <<Open, To, Old>> BY <1>0, <2>1 DEF Open, To, Old, WillVisit
  <2> QED BY <1>0, <2>1, <2>2 DEF L!Next, L!Shut
<1>2. CASE StopDelete
  <2>1. /\ Closing /\ Closing' /\ pools' = [pools EXCEPT ![stop.key] = None]
    BY <1>0, <1>2 DEF StopDelete, Closing, StopLocals
  <2>2. \A k \in Open' : /\ pools'[k] = pools[k] /\ pools[k] \in Conns /\ k # stop.key
                         /\ conn'[pools[k]] = conn[pools[k]]
    BY <1>0, <2>1, StopConns, NilAssumption DEF Open
  <2>3. Open' = Open \ {stop.key} BY <1>0, <2>1 DEF Open
  <2>4. Old' = Old \ {stop.key} BY <1>0, <2>2, <2>3 DEF Old, WillVisit
  <2>5. To' = [To EXCEPT ![stop.key] = None]
    <3>1. ASSUME NEW k \in Keys PROVE To'[k] = [To EXCEPT ![stop.key] = None][k]
      <4>1. To'[k] = IF k \in Open' THEN conn'[pools'[k]].addr ELSE None BY DEF To
      <4>2. To[k] = IF k \in Open THEN conn[pools[k]].addr ELSE None BY DEF To
      <4>3. DOMAIN To = Keys BY DEF To
      <4> QED BY <2>2, <2>3, <4>1, <4>2, <4>3
    <3> QED BY <3>1 DEF To
  <2>6. CASE stop.key \in Keys
    <3>1. L!Remove(stop.key) BY <1>0, <2>1, <2>3, <2>4, <2>5 DEF L!Remove
    <3>2. L!Close(stop.key) BY <2>1, <3>1 DEF L!Close
    <3> QED BY <2>6, <3>2 DEF L!Next
  <2>7. CASE stop.key \notin Keys
    <3>1. Open' = Open /\ Old' = Old BY <2>3, <2>4, <2>7 DEF Open, Old
    <3>2. To' = To BY <2>5, <2>7 DEF To
    <3> QED BY <1>0, <2>1, <3>1, <3>2 DEF L!vars
  <2> QED BY <2>6, <2>7
<1>3. ASSUME UNCHANGED <<pools, conn>>, Closing' = Closing PROVE UNCHANGED L!vars
  BY <1>0, <1>3, Invisible
<1>4. CASE StopRequest BY <1>0, <1>3, <1>4 DEF StopRequest, Closing, StopLocals
<1>5. CASE StopRefused BY <1>0, <1>3, <1>5 DEF StopRefused, Closing, StopLocals
<1>6. ASSUME NEW k \in Keys, StopVisit(k) PROVE UNCHANGED L!vars
  BY <1>0, <1>3, <1>6 DEF StopVisit, Closing, StopLocals
<1>7. CASE StopRecv BY <1>0, <1>3, <1>7 DEF StopRecv, Closing, StopLocals
<1>8. CASE StopRecvNil BY <1>0, <1>3, <1>8 DEF StopRecvNil, Closing
<1>9. CASE StopEnds BY <1>0, <1>3, <1>9 DEF StopEnds, Closing, StopLocals
<1> QED BY <1>1, <1>2, <1>4, <1>5, <1>6, <1>7, <1>8, <1>9 DEF Stop

\* Every step of the forwarder is a step of Link, or none.
LEMMA LinkStep == IInv /\ LinkInv /\ [Next]_vars => [L!Next]_(L!vars)
<1> SUFFICES ASSUME IInv, LinkInv, [Next]_vars PROVE [L!Next]_(L!vars)
  OBVIOUS
<1>1. ASSUME NEW k \in Keys, Write(k) PROVE [L!Next]_(L!vars) BY <1>1, WriteLinks
<1>2. ASSUME NEW h \in Callers, ReConnect(h) \/ Hook(h) PROVE [L!Next]_(L!vars)
  BY <1>2, ReConnectLinks
<1>3. CASE Start
  <2>1. TypeOK /\ WriterHasConn /\ pools \in [Keys -> Conns \cup {None}]
    BY DEF IInv, TypeOK
  <2>2. UNCHANGED <<pools, config, caller>> /\ Closing' = Closing
    BY <1>3 DEF Start, StartFrame, Closing
  <2> QED BY <1>3, <2>1, <2>2, StartLinkInv, Invisible
<1>4. CASE Stop BY <1>4, StopLinks
<1>5. ASSUME UNCHANGED <<pools, conn, config, caller, stop>> PROVE UNCHANGED L!vars
  <2>1. Closing' = Closing BY <1>5 DEF Closing
  <2> QED BY <1>5, <2>1, Invisible DEF IInv
<1>6. ASSUME NEW s \in Streams, Break(s) PROVE [L!Next]_(L!vars) BY <1>5, <1>6 DEF Break
<1>7. CASE UNCHANGED vars BY <1>5, <1>7 DEF vars
<1> QED BY <1>1, <1>2, <1>3, <1>4, <1>6, <1>7 DEF Next

\* The unlocked forwarder implements the atomic Link: a change of address takes
\* effect at once for every key, a link is dialled once and to the address in
\* force, and only old links are dropped before shutdown (server.go:99-107,
\* 186-226, 269-287).
THEOREM LinkImplemented == Spec => ImplementsLink
<1>1. Init => LinkInv
  BY DEF Init, WriterIdle, LinkInv, WriterHoldsOwn, DialsOnce, RetiresMarked
<1>2. Init => L!Init
  <2> SUFFICES ASSUME Init PROVE L!Init
    OBVIOUS
  <2>1. Open = {} BY DEF Init, Open
  <2> QED BY <2>1 DEF Init, StopIdle, To, Old, Closing, L!Init
<1>3. Spec => []LinkInv
  BY <1>1, LinkInvStep, Inductive, PTL DEF Spec
<1> QED BY <1>2, <1>3, LinkStep, Inductive, PTL DEF Spec, ImplementsLink, L!Spec
=============================================================================
