-------------------------- MODULE DispatcherProofs --------------------------
(***************************************************************************)
(* Proofs about Dispatcher, for every set of ids, number of goroutines,    *)
(* capacity and number of packages.  Routed is the inductive invariant:    *)
(* whatever a channel, its worker or the producer has in hand belongs to   *)
(* the index the channel is stored under.  It makes a channel, its worker  *)
(* and the producer one line, so that every step is one of Delivery or     *)
(* none, and the order of the packages is proved of that line.             *)
(***************************************************************************)
EXTENDS Dispatcher, SequenceTheorems, TLAPS

Routed ==
    /\ \A c \in Chans : worker[c].pc = "idle" <=> worker[c].pkg = None
    /\ producer.chan = None <=> producer.pkg = None
    /\ producer.pkg # None => frameChans[Index(producer.pkg.id)] = producer.chan
    /\ \A c \in Chans : \A x \in Indices : Carries(c, x) => frameChans[x] = c
    /\ \A x, y \in Indices : frameChans[x] = frameChans[y] => frameChans[x] = None \/ x = y

DInv == TypeOK /\ Routed

LEMMA IndexType == \A i \in Ids : Index(i) \in Indices
BY CountAssumption DEF Index, Indices

\* A package made, queued, taken or written keeps its type.
LEMMA TypeStep == ASSUME DInv, Next PROVE TypeOK'
<1> USE NilAssumption DEF TypeOK, Package, Seqs
<1>0. /\ MaxPackages \in Nat /\ QueueLimit \in Nat \ {0} BY CountAssumption
<1>1. ASSUME NEW i \in Ids, ToHandle(i) PROVE TypeOK'
  <2>1. made[i] + 1 \in 1..MaxPackages BY <1>0, <1>1 DEF DInv, ToHandle, Make
  <2>2. [id |-> i, seq |-> made[i] + 1] \in Package BY <2>1
  <2>3. made' \in [Ids -> Seqs] BY <1>0, <1>1, <2>1 DEF DInv, ToHandle, Make
  <2>4. frameChans' \in [Indices -> Chans \cup {None}] BY <1>1, IndexType DEF DInv, ToHandle
  <2>5. producer' \in [chan : Chans \cup {None}, pkg : Package \cup {None}]
    BY <1>1, <2>2 DEF ToHandle
  <2>6. UNCHANGED <<queue, worker, tmap, written>> BY <1>1 DEF ToHandle
  <2> QED BY <2>3, <2>4, <2>5, <2>6 DEF DInv
<1>2. CASE Enqueue
  <2>1. producer.chan \in Chans /\ producer.pkg \in Package
    BY <1>2 DEF DInv, Routed, Enqueue, ProducerIdle
  <2>2. queue' = [queue EXCEPT ![producer.chan] = Append(queue[producer.chan], producer.pkg)]
    BY <1>2 DEF Enqueue
  <2>3. queue[producer.chan] \in Seq(Package) BY <2>1 DEF DInv
  <2>4. /\ Append(queue[producer.chan], producer.pkg) \in Seq(Package)
        /\ Len(Append(queue[producer.chan], producer.pkg)) = Len(queue[producer.chan]) + 1
    BY <2>1, <2>3, AppendProperties
  <2>5. Len(queue[producer.chan]) + 1 <= QueueLimit
    BY <1>0, <1>2, <2>3, LenProperties DEF Enqueue
  <2>6. queue' \in [Chans -> Seq(Package)] BY <2>1, <2>2, <2>4 DEF DInv
  <2>7. \A c \in Chans : Len(queue'[c]) <= QueueLimit BY <2>1, <2>2, <2>4, <2>5 DEF DInv
  <2>8. producer' \in [chan : Chans \cup {None}, pkg : Package \cup {None}]
    BY <1>2 DEF Enqueue, ProducerIdle
  <2> QED BY <1>2, <2>6, <2>7, <2>8 DEF DInv, Enqueue
<1>3. ASSUME NEW c \in Chans, Take(c) PROVE TypeOK'
  <2>1. queue[c] \in Seq(Package) /\ queue[c] # <<>> BY <1>3 DEF DInv, Take
  <2>2. /\ Head(queue[c]) \in Package /\ Tail(queue[c]) \in Seq(Package)
        /\ Len(Tail(queue[c])) = Len(queue[c]) - 1 /\ Len(queue[c]) \in Nat
    BY <2>1, HeadTailProperties, LenProperties
  <2>3. Len(Tail(queue[c])) <= QueueLimit BY <1>0, <2>2 DEF DInv
  <2> QED BY <1>3, <2>2, <2>3 DEF DInv, Take
<1>4. ASSUME NEW c \in Chans, Sync(c) \/ Decode(c) \/ DecodeFails(c) \/ Write(c) PROVE TypeOK'
  <2>1. worker[c].pkg \in Package BY <1>4 DEF DInv, Routed, Sync, Decode, DecodeFails, Write
  <2>2. worker[c].pkg.id \in Ids /\ worker[c].pkg.seq \in Seqs BY <2>1, <1>0
  <2>3. UNCHANGED <<frameChans, queue, producer, made>>
    BY <1>4 DEF Sync, Decode, DecodeFails, Write
  <2>4. worker' \in [Chans -> [pc : {"idle", "sync", "decode", "write"}, pkg : Package \cup {None}]]
    <3>1. CASE Sync(c) BY <3>1 DEF DInv, Sync
    <3>2. CASE Decode(c) BY <3>2 DEF DInv, Decode
    <3>3. CASE DecodeFails(c) \/ Write(c)
      <4>1. worker' = [worker EXCEPT ![c] = WorkerIdle] BY <3>3 DEF DecodeFails, Write
      <4> QED BY <4>1 DEF DInv, WorkerIdle
    <3> QED BY <1>4, <3>1, <3>2, <3>3
  <2>5. tmap' \in [Ids -> Seqs] /\ written' \in [Ids -> Seqs]
    <3>1. tmap \in [Ids -> Seqs] /\ written \in [Ids -> Seqs] BY DEF DInv
    <3>2. CASE Decode(c) BY <2>2, <3>1, <3>2 DEF Decode
    <3>3. CASE Write(c) BY <2>2, <3>1, <3>3 DEF Write
    <3>4. CASE UNCHANGED <<tmap, written>> BY <3>1, <3>4
    <3> QED BY <1>4, <3>2, <3>3, <3>4 DEF Sync, DecodeFails
  <2> QED BY <2>3, <2>4, <2>5 DEF DInv
<1> QED BY <1>1, <1>2, <1>3, <1>4 DEF Next, Handle

\* A package goes to the channel of its index; a channel that is made was in no
\* index and is empty (handle.go:75-89).
LEMMA RoutedStep == ASSUME DInv, Next PROVE Routed'
<1> USE NilAssumption
<1>0. /\ frameChans \in [Indices -> Chans \cup {None}] /\ queue \in [Chans -> Seq(Package)]
      /\ worker \in [Chans -> [pc : {"idle", "sync", "decode", "write"}, pkg : Package \cup {None}]]
      /\ producer \in [chan : Chans \cup {None}, pkg : Package \cup {None}]
      /\ Routed
  BY DEF DInv, TypeOK
<1>1. ASSUME NEW i \in Ids, ToHandle(i) PROVE Routed'
  <2>1. PICK c \in Chans :
            /\ IF frameChans[Index(i)] = None THEN Fresh(c) ELSE c = frameChans[Index(i)]
            /\ frameChans' = [frameChans EXCEPT ![Index(i)] = c]
            /\ producer' = [chan |-> c, pkg |-> [id |-> i, seq |-> made[i] + 1]]
    BY <1>1 DEF ToHandle
  <2>2. Index(i) \in Indices /\ UNCHANGED <<queue, worker>> BY <1>1, IndexType DEF ToHandle
  <2>3. producer'.pkg \in Package
    <3>1. TypeOK' BY TypeStep, <1>1 DEF Next
    <3>2. producer' \in [chan : Chans \cup {None}, pkg : Package \cup {None}] BY <3>1 DEF TypeOK
    <3>3. producer'.pkg # None
      <4>1. made[i] + 1 \in 1..MaxPackages
        BY <1>1, CountAssumption DEF DInv, TypeOK, Seqs, ToHandle, Make
      <4>2. [id |-> i, seq |-> made[i] + 1] \in Package BY <4>1 DEF Package
      <4> QED BY <2>1, <4>2
    <3> QED BY <3>2, <3>3
  <2>4. producer'.pkg # None /\ producer'.pkg.id = i /\ producer'.chan = c BY <2>1, <2>3
  <2>5. \A d \in Chans : \A x \in Indices : Carries(d, x)' <=> Carries(d, x)
    BY <2>2 DEF Carries
  <2>6. \A d \in Chans : \A x \in Indices : Carries(d, x) => frameChans'[x] = d
    <3>1. frameChans[Index(i)] # None => frameChans' = frameChans BY <1>0, <2>1, <2>2
    <3>2. \A d \in Chans : Carries(d, Index(i)) => frameChans[Index(i)] # None
      BY <1>0, <2>2 DEF Routed
    <3> QED BY <1>0, <2>1, <2>2, <3>1, <3>2 DEF Routed
  <2>7. \A x, y \in Indices : frameChans'[x] = frameChans'[y] => frameChans'[x] = None \/ x = y
    BY <1>0, <2>1, <2>2 DEF Routed, Fresh
  <2> QED BY <1>0, <2>1, <2>2, <2>4, <2>5, <2>6, <2>7 DEF Routed
<1>2. ASSUME UNCHANGED frameChans,
             \A c \in Chans : worker'[c].pc = "idle" <=> worker'[c].pkg = None,
             producer' \in {producer, ProducerIdle},
             \A c \in Chans : \A x \in Indices : Carries(c, x)' => frameChans[x] = c
      PROVE  Routed'
  BY <1>0, <1>2 DEF Routed, ProducerIdle
<1>3. CASE Enqueue
  <2>1. producer.chan \in Chans /\ producer.pkg \in Package
    BY <1>0, <1>3 DEF Routed, Enqueue, ProducerIdle
  <2>2. /\ queue[producer.chan] \in Seq(Package)
        /\ queue' = [queue EXCEPT ![producer.chan] = Append(queue[producer.chan], producer.pkg)]
    BY <1>0, <1>3, <2>1 DEF Enqueue
  <2>3. ASSUME NEW c \in Chans, NEW x \in Indices, Carries(c, x)' PROVE frameChans[x] = c
    <3>1. CASE Carries(c, x) BY <1>0, <3>1 DEF Routed
    <3>2. CASE ~Carries(c, x)
      <4>1. UNCHANGED worker BY <1>3 DEF Enqueue
      <4>2. PICK j \in DOMAIN queue'[c] : Index(queue'[c][j].id) = x
        BY <2>3, <3>2, <4>1 DEF Carries
      <4>3. c = producer.chan BY <1>0, <2>2, <3>2, <4>2 DEF Carries
      <4>4. queue'[c] = Append(queue[c], producer.pkg) BY <1>0, <2>1, <2>2, <4>3
      <4>5. /\ j \in 1..(Len(queue[c]) + 1) /\ Len(queue[c]) \in Nat
            /\ DOMAIN queue[c] = 1..Len(queue[c])
            /\ j \in 1..Len(queue[c]) => queue'[c][j] = queue[c][j]
            /\ queue'[c][Len(queue[c]) + 1] = producer.pkg
        BY <1>0, <2>1, <4>2, <4>4, AppendProperties, LenProperties
      <4>6. j = Len(queue[c]) + 1 BY <3>2, <4>2, <4>5 DEF Carries
      <4> QED BY <1>0, <2>1, <4>2, <4>3, <4>5, <4>6 DEF Routed
    <3> QED BY <3>1, <3>2
  <2> QED BY <1>0, <1>2, <1>3, <2>3 DEF Enqueue, Routed
<1>4. ASSUME NEW c \in Chans, Take(c) PROVE Routed'
  <2>1. queue[c] \in Seq(Package) /\ queue[c] # <<>> BY <1>0, <1>4 DEF Take
  <2>2. /\ Len(queue[c]) \in Nat \ {0} /\ DOMAIN queue[c] = 1..Len(queue[c])
        /\ Head(queue[c]) = queue[c][1] /\ Head(queue[c]) \in Package
        /\ DOMAIN Tail(queue[c]) = 1..(Len(queue[c]) - 1)
        /\ \A j \in 1..(Len(queue[c]) - 1) : Tail(queue[c])[j] = queue[c][j + 1]
    BY <2>1, HeadTailProperties, LenProperties, EmptySeq
  <2>3. ASSUME NEW d \in Chans, NEW x \in Indices, Carries(d, x)' PROVE Carries(d, x)
    <3>1. CASE d # c BY <1>0, <1>4, <2>3, <3>1 DEF Take, Carries
    <3>2. CASE d = c
      <4>1. worker'[c].pkg = Head(queue[c]) /\ queue'[c] = Tail(queue[c])
        BY <1>0, <1>4 DEF Take
      <4>2. CASE Index(Head(queue[c]).id) = x BY <2>2, <3>2, <4>2 DEF Carries
      <4>3. CASE \E j \in DOMAIN Tail(queue[c]) : Index(Tail(queue[c])[j].id) = x
        <5>1. PICK j \in 1..(Len(queue[c]) - 1) : Index(queue[c][j + 1].id) = x BY <2>2, <4>3
        <5>2. j + 1 \in DOMAIN queue[c] BY <2>2, <5>1
        <5> QED BY <3>2, <5>1, <5>2 DEF Carries
      <4> QED BY <2>3, <3>2, <4>1, <4>2, <4>3 DEF Carries
    <3> QED BY <3>1, <3>2
  <2>4. \A d \in Chans : worker'[d].pc = "idle" <=> worker'[d].pkg = None
    BY <1>0, <1>4, <2>2 DEF Take, Routed
  <2> QED BY <1>0, <1>2, <1>4, <2>3, <2>4 DEF Take, Routed
<1>5. ASSUME NEW c \in Chans, Sync(c) \/ Decode(c) \/ DecodeFails(c) \/ Write(c) PROVE Routed'
  <2>1. UNCHANGED <<frameChans, queue, producer>> /\ worker[c].pkg # None
    BY <1>0, <1>5 DEF Routed, Sync, Decode, DecodeFails, Write
  <2>2. \A d \in Chans : /\ worker'[d].pc = "idle" <=> worker'[d].pkg = None
                         /\ worker'[d].pkg \in {worker[d].pkg, None}
    <3>1. CASE Sync(c) BY <1>0, <2>1, <3>1 DEF Routed, Sync
    <3>2. CASE Decode(c) BY <1>0, <2>1, <3>2 DEF Routed, Decode
    <3>3. CASE DecodeFails(c) \/ Write(c)
      <4>1. worker' = [worker EXCEPT ![c] = WorkerIdle] BY <3>3 DEF DecodeFails, Write
      <4> QED BY <1>0, <2>1, <4>1 DEF Routed, WorkerIdle
    <3> QED BY <1>5, <3>1, <3>2, <3>3
  <2>3. \A d \in Chans : \A x \in Indices : Carries(d, x)' => Carries(d, x)
    BY <2>1, <2>2 DEF Carries
  <2> QED BY <1>0, <1>2, <2>1, <2>2, <2>3 DEF Routed
<1> QED BY <1>1, <1>3, <1>4, <1>5 DEF Next, Handle

\* The type invariant and what it rests on, of every reachable state.
LEMMA Reached == Spec => []DInv
<1>1. Init => DInv
  <2> USE CountAssumption, NilAssumption
  <2>1. Init => TypeOK BY EmptySeq DEF Init, TypeOK, Seqs, ProducerIdle, WorkerIdle
  <2>2. Init => Routed BY DEF Init, Routed, Carries, ProducerIdle, WorkerIdle
  <2> QED BY <2>1, <2>2 DEF DInv
<1>2. DInv /\ [Next]_vars => DInv'
  <2>1. DInv /\ Next => DInv' BY TypeStep, RoutedStep DEF DInv
  <2>2. DInv /\ UNCHANGED vars => DInv'
    BY DEF DInv, vars, TypeOK, Routed, Carries
  <2> QED BY <2>1, <2>2
<1> QED BY <1>1, <1>2, PTL DEF Spec

\* Every variable keeps its type, and no channel more than its capacity.
THEOREM TypeCorrect == Spec => []TypeOK
<1>1. DInv => TypeOK BY DEF DInv
<1> QED BY <1>1, Reached, PTL

\* Never two workers for the packages of one index (handle.go:75-89).
THEOREM OneWorker == Spec => []OneWorkerPerIndex
<1>1. DInv => OneWorkerPerIndex BY DEF DInv, Routed, OneWorkerPerIndex
<1> QED BY <1>1, Reached, PTL

-----------------------------------------------------------------------------
(* The line of a channel.                                                  *)

Entering(c) == One(IF producer.chan = c THEN producer.pkg ELSE None)

LEMMA Association ==
  \A a, b, c \in Seq(Package) : (a \o b) \o c = a \o (b \o c)
BY ConcatAssociative

LEMMA LineType ==
  ASSUME TypeOK, NEW c \in Chans
  PROVE  /\ One(worker[c].pkg) \in Seq(Package) /\ queue[c] \in Seq(Package)
         /\ Entering(c) \in Seq(Package)
         /\ Line(c) = (One(worker[c].pkg) \o queue[c]) \o Entering(c)
         /\ Line(c) = One(worker[c].pkg) \o (queue[c] \o Entering(c))
         /\ queue[c] \o Entering(c) \in Seq(Package) /\ Line(c) \in Seq(Package)
         /\ Entering(c) = <<>> => Len(Line(c)) <= QueueLimit + 1
<1>1. \A pkg \in Package \cup {None} : One(pkg) \in Seq(Package) /\ Len(One(pkg)) <= 1
  BY DEF One
<1>2. /\ queue[c] \in Seq(Package) /\ Len(queue[c]) <= QueueLimit
      /\ One(worker[c].pkg) \in Seq(Package) /\ Len(One(worker[c].pkg)) <= 1
      /\ Entering(c) \in Seq(Package)
  BY <1>1 DEF TypeOK, Entering
<1>3. /\ Line(c) = (One(worker[c].pkg) \o queue[c]) \o Entering(c)
      /\ Line(c) = One(worker[c].pkg) \o (queue[c] \o Entering(c))
  <2>1. Line(c) = (One(worker[c].pkg) \o queue[c]) \o Entering(c) BY DEF Line, Entering
  <2> QED BY <1>2, <2>1, Association
<1>4. /\ queue[c] \o Entering(c) \in Seq(Package) /\ One(worker[c].pkg) \o queue[c] \in Seq(Package)
      /\ Len(One(worker[c].pkg) \o queue[c]) = Len(One(worker[c].pkg)) + Len(queue[c])
  BY <1>2, ConcatProperties
<1>5. Line(c) \in Seq(Package) BY <1>2, <1>3, <1>4, ConcatProperties
<1>6. Entering(c) = <<>> => Len(Line(c)) <= QueueLimit + 1
  <2> DEFINE front == One(worker[c].pkg) \o queue[c]
  <2>1. front \in Seq(Package) /\ Len(front) = Len(One(worker[c].pkg)) + Len(queue[c]) BY <1>4
  <2>2. Entering(c) = <<>> => Line(c) = front
    <3> HIDE DEF front
    <3>1. front \o <<>> = front BY <2>1, ConcatEmptySeq
    <3> QED BY <1>3, <3>1 DEF front
  <2>3. Len(One(worker[c].pkg)) \in Nat /\ Len(queue[c]) \in Nat BY <1>2, LenProperties
  <2>4. QueueLimit \in Nat BY CountAssumption
  <2> HIDE DEF front
  <2>5. \A m, n \in Nat : m <= 1 /\ n <= QueueLimit => m + n <= QueueLimit + 1 BY <2>4
  <2>6. Len(One(worker[c].pkg)) + Len(queue[c]) <= QueueLimit + 1 BY <1>2, <2>3, <2>5
  <2> QED BY <2>1, <2>2, <2>6
<1> QED BY <1>2, <1>3, <1>4, <1>5, <1>6

\* Only a step that changes a line changes Pending.
LEMMA SameLines ==
  ASSUME DInv, UNCHANGED frameChans, \A c \in Chans : Line(c)' = Line(c)
  PROVE  Pending' = Pending
<1>1. frameChans \in [Indices -> Chans \cup {None}] BY DEF DInv, TypeOK
<1> QED BY <1>1 DEF Pending

\* ToHandle puts the package at the end of the line of its index.
LEMMA ToHandleProduces ==
  ASSUME DInv, NEW i \in Ids, ToHandle(i)
  PROVE  D!Produce(i)
<1> USE NilAssumption
<1>0. /\ TypeOK /\ Routed /\ frameChans \in [Indices -> Chans \cup {None}]
      /\ Index(i) \in Indices /\ producer = ProducerIdle /\ UNCHANGED <<queue, worker, written>>
  BY IndexType DEF DInv, TypeOK, ToHandle, Make
<1> DEFINE pkg == [id |-> i, seq |-> made[i] + 1]
<1>1. PICK c \in Chans :
          /\ IF frameChans[Index(i)] = None THEN Fresh(c) ELSE c = frameChans[Index(i)]
          /\ frameChans' = [frameChans EXCEPT ![Index(i)] = c]
          /\ producer' = [chan |-> c, pkg |-> pkg]
  BY DEF ToHandle
<1>2. pkg \in Package
  <2>1. made[i] + 1 \in 1..MaxPackages
    BY CountAssumption DEF DInv, TypeOK, Seqs, ToHandle, Make
  <2> QED BY <2>1 DEF Package
<1>3. \A d \in Chans : Entering(d) = <<>> BY <1>0 DEF Entering, One, ProducerIdle
<1>4. \A d \in Chans : /\ Line(d) \in Seq(Package) /\ Len(Line(d)) <= QueueLimit + 1
                       /\ Line(d) = One(worker[d].pkg) \o queue[d]
  <2> TAKE d \in Chans
  <2>1. /\ Line(d) \in Seq(Package) /\ Len(Line(d)) <= QueueLimit + 1
        /\ Line(d) = (One(worker[d].pkg) \o queue[d]) \o <<>>
        /\ One(worker[d].pkg) \in Seq(Package) /\ queue[d] \in Seq(Package)
    BY <1>0, <1>3, LineType
  <2>2. One(worker[d].pkg) \o queue[d] \in Seq(Package) BY <2>1, ConcatProperties
  <2> QED BY <2>1, <2>2, ConcatEmptySeq
<1>5. \A x \in Indices : Pending[x] \in Seq(Package) /\ Len(Pending[x]) < QueueLimit + 2
  <2> TAKE x \in Indices
  <2>1. CASE frameChans[x] = None
    <3>1. Pending[x] = <<>> BY <2>1 DEF Pending
    <3> QED BY <3>1, EmptySeq, CountAssumption
  <2>2. CASE frameChans[x] # None
    <3>1. frameChans[x] \in Chans /\ Pending[x] = Line(frameChans[x]) BY <1>0, <2>2 DEF Pending
    <3>2. Pending[x] \in Seq(Package) /\ Len(Pending[x]) <= QueueLimit + 1 BY <1>4, <3>1
    <3>3. Len(Pending[x]) \in Nat BY <3>2, LenProperties
    <3> QED BY <3>2, <3>3, CountAssumption
  <2> QED BY <2>1, <2>2
<1>6. Pending[Index(i)] = Line(c)
  <2>1. CASE frameChans[Index(i)] = None
    <3>1. worker[c].pkg = None /\ queue[c] = <<>> BY <1>1, <2>1 DEF Fresh, WorkerIdle
    <3>2. Line(c) = <<>> BY <1>4, <3>1, EmptySeq, ConcatEmptySeq DEF One
    <3> QED BY <1>0, <2>1, <3>2 DEF Pending
  <2>2. CASE frameChans[Index(i)] # None BY <1>0, <1>1, <2>2 DEF Pending
  <2> QED BY <2>1, <2>2
<1>7. Line(c)' = Append(Pending[Index(i)], pkg)
  <2>1. Line(c)' = (One(worker[c].pkg) \o queue[c]) \o <<pkg>>
    BY <1>0, <1>1, <1>2 DEF Line, One
  <2> QED BY <1>2, <1>4, <1>6, <2>1, AppendIsConcat
<1>8. \A x \in Indices : Pending'[x] = IF x = Index(i) THEN Append(Pending[x], pkg) ELSE Pending[x]
  <2> TAKE x \in Indices
  <2>1. CASE x = Index(i) BY <1>0, <1>1, <1>7, <2>1 DEF Pending
  <2>2. CASE x # Index(i)
    <3>1. frameChans'[x] = frameChans[x] BY <1>0, <1>1, <2>2
    <3>2. frameChans[x] # c BY <1>0, <1>1, <2>2 DEF Routed, Fresh
    <3>3. CASE frameChans[x] = None BY <2>2, <3>1, <3>3 DEF Pending
    <3>4. CASE frameChans[x] # None
      <4> DEFINE d == frameChans[x]
      <4>1. d \in Chans BY <1>0, <3>4
      <4>2. Line(d)' = (One(worker[d].pkg) \o queue[d]) \o <<>>
        BY <1>0, <1>1, <3>1, <3>2 DEF Line, One
      <4>3. Line(d) = (One(worker[d].pkg) \o queue[d]) \o <<>>
        BY <1>0 DEF Line, One, ProducerIdle
      <4> QED BY <2>2, <3>1, <3>4, <4>2, <4>3 DEF Pending
    <3> QED BY <3>3, <3>4
  <2> QED BY <2>1, <2>2
<1>9. Pending' = [Pending EXCEPT ![Index(i)] = Append(@, pkg)] BY <1>0, <1>8 DEF Pending
<1> QED BY <1>0, <1>5, <1>9 DEF D!Produce, ToHandle, Make

\* A worker that is done with a package takes it off the front of its line.
LEMMA HandledRemoves ==
  ASSUME DInv, NEW c \in Chans, DecodeFails(c) \/ Write(c)
  PROVE  LET x == Index(worker[c].pkg.id) IN
         /\ x \in Indices /\ D!Remove(x) /\ Head(Pending[x]) = worker[c].pkg
<1> USE NilAssumption
<1> DEFINE p == worker[c].pkg
           x == Index(p.id)
           rest == queue[c] \o Entering(c)
<1>0. /\ TypeOK /\ Routed /\ frameChans \in [Indices -> Chans \cup {None}]
      /\ UNCHANGED <<frameChans, queue, producer, made>>
      /\ worker' = [worker EXCEPT ![c] = WorkerIdle]
      /\ worker \in [Chans -> [pc : {"idle", "sync", "decode", "write"}, pkg : Package \cup {None}]]
  BY DEF DInv, TypeOK, DecodeFails, Write
<1>1. p \in Package /\ x \in Indices
  <2>1. p \in Package BY <1>0 DEF Routed, DecodeFails, Write
  <2> QED BY <2>1, IndexType DEF Package
<1>2. frameChans[x] = c BY <1>0, <1>1 DEF Routed, Carries
<1>3. Line(c) = <<p>> \o rest /\ rest \in Seq(Package) BY <1>0, <1>1, LineType DEF One
<1>4. Line(c)' = rest
  <2>1. worker'[c].pkg = None BY <1>0 DEF WorkerIdle
  <2>2. Line(c)' = (<<>> \o queue[c]) \o Entering(c)
    BY <1>0, <2>1 DEF Line, One, Entering
  <2> QED BY <1>0, <2>2, LineType, ConcatEmptySeq
<1>5. Line(c) # <<>> /\ Head(Line(c)) = p /\ Tail(Line(c)) = rest
  <2> HIDE DEF rest, p
  <2>1. /\ <<p>> \in Seq(Package) /\ Len(<<p>>) = 1 /\ <<p>>[1] = p
        /\ Len(rest) \in Nat /\ DOMAIN rest = 1..Len(rest)
    BY <1>1, <1>3, LenProperties
  <2>2. /\ Line(c) \in Seq(Package) /\ Len(Line(c)) = 1 + Len(rest)
        /\ \A j \in 1..(1 + Len(rest)) : Line(c)[j] = IF j <= 1 THEN <<p>>[j] ELSE rest[j - 1]
    BY <1>3, <2>1, ConcatProperties
  <2>3. Line(c) # <<>> /\ Head(Line(c)) = Line(c)[1] BY <2>1, <2>2, EmptySeq
  <2>4. /\ Tail(Line(c)) \in Seq(Package) /\ Len(Tail(Line(c))) = Len(rest)
        /\ \A j \in 1..Len(rest) : Tail(Line(c))[j] = rest[j]
    <3>1. /\ Tail(Line(c)) \in Seq(Package) /\ Len(Tail(Line(c))) = Len(Line(c)) - 1
          /\ \A j \in 1..Len(Tail(Line(c))) : Tail(Line(c))[j] = Line(c)[j + 1]
      BY <2>2, <2>3, HeadTailProperties
    <3> QED BY <2>1, <2>2, <3>1
  <2> QED BY <1>3, <2>1, <2>2, <2>3, <2>4, SeqEqual
<1>6. Pending' = [Pending EXCEPT ![x] = Tail(@)]
  <2>1. \A y \in Indices : y # x => frameChans[y] # c BY <1>0, <1>1, <1>2 DEF Routed
  <2>2. \A d \in Chans : d # c => Line(d)' = Line(d) BY <1>0 DEF Line
  <2>3. \A y \in Indices : Pending'[y] = IF y = x THEN Tail(Pending[y]) ELSE Pending[y]
    BY <1>0, <1>1, <1>2, <1>4, <1>5, <2>1, <2>2 DEF Pending
  <2> QED BY <1>1, <2>3 DEF Pending
<1>7. Pending[x] = Line(c) BY <1>1, <1>2 DEF Pending
<1> QED BY <1>0, <1>1, <1>5, <1>6, <1>7 DEF D!Remove

\* No other step changes a line: the package moves on within it, or stays.
LEMMA OthersKeepLines ==
  ASSUME DInv, Enqueue \/ \E c \in Chans : Take(c) \/ Sync(c) \/ Decode(c)
  PROVE  Pending' = Pending
<1> USE NilAssumption
<1>0. /\ TypeOK /\ Routed /\ queue \in [Chans -> Seq(Package)]
      /\ worker \in [Chans -> [pc : {"idle", "sync", "decode", "write"}, pkg : Package \cup {None}]]
      /\ producer \in [chan : Chans \cup {None}, pkg : Package \cup {None}]
  BY DEF DInv, TypeOK
<1>1. CASE Enqueue
  <2>1. PICK c \in Chans, p \in Package : c = producer.chan /\ p = producer.pkg
    BY <1>0, <1>1 DEF Routed, Enqueue, ProducerIdle
  <2>2. /\ queue' = [queue EXCEPT ![c] = Append(queue[c], p)]
        /\ producer' = ProducerIdle /\ UNCHANGED <<frameChans, worker>>
    BY <1>1, <2>1 DEF Enqueue
  <2>3. Line(c)' = Line(c)
    <3> DEFINE w == One(worker[c].pkg)
               q == queue[c]
    <3>1. w \in Seq(Package) /\ q \in Seq(Package) BY <1>0, <2>1, LineType
    <3>2. Line(c) = (w \o q) \o <<p>> BY <2>1 DEF Line, One
    <3>3. Line(c)' = (w \o Append(q, p)) \o <<>>
      <4>1. queue'[c] = Append(q, p) /\ worker'[c] = worker[c] BY <1>0, <2>2
      <4>2. One(IF producer'.chan = c THEN producer'.pkg ELSE None) = <<>>
        BY <2>2 DEF One, ProducerIdle
      <4> QED BY <4>1, <4>2 DEF Line
    <3> HIDE DEF w, q
    <3>4. Append(q, p) = q \o <<p>> /\ <<p>> \in Seq(Package) BY <2>1, <3>1, AppendIsConcat
    <3>5. w \o Append(q, p) \in Seq(Package) BY <2>1, <3>1, AppendProperties, ConcatProperties
    <3>6. Line(c)' = w \o Append(q, p) BY <3>3, <3>5, ConcatEmptySeq
    <3>7. w \o Append(q, p) = (w \o q) \o <<p>> BY <3>1, <3>4, Association
    <3> QED BY <3>2, <3>6, <3>7
  <2>4. ASSUME NEW d \in Chans, d # c PROVE Line(d)' = Line(d)
    BY <1>0, <2>1, <2>2, <2>4 DEF Line, ProducerIdle
  <2>5. \A d \in Chans : Line(d)' = Line(d) BY <2>3, <2>4
  <2> QED BY <2>2, <2>5, SameLines
<1>2. ASSUME NEW c \in Chans, Take(c) PROVE Pending' = Pending
  <2> DEFINE q == queue[c]
             e == Entering(c)
  <2>1. /\ UNCHANGED <<frameChans, producer>> /\ worker[c].pkg = None /\ q # <<>>
        /\ queue' = [queue EXCEPT ![c] = Tail(q)]
        /\ worker' = [worker EXCEPT ![c] = [pc |-> "sync", pkg |-> Head(q)]]
    BY <1>2 DEF Take, WorkerIdle
  <2>2. q \in Seq(Package) /\ e \in Seq(Package) BY <1>0, LineType
  <2>3. Line(c)' = Line(c)
    <3>1. Head(q) # None BY <2>1, <2>2, HeadTailProperties
    <3>2. Line(c) = (<<>> \o q) \o e BY <2>1 DEF Line, One, Entering
    <3>3. Line(c)' = (<<Head(q)>> \o Tail(q)) \o e
      BY <1>0, <2>1, <3>1 DEF Line, One, Entering
    <3> HIDE DEF q, e
    <3>4. <<>> \o q = q BY <2>2, ConcatEmptySeq
    <3>5. q = <<Head(q)>> \o Tail(q)
      <4>1. /\ Len(q) \in Nat \ {0} /\ Head(q) = q[1] BY <2>1, <2>2, EmptySeq
      <4>2. SubSeq(q, 1, Len(q)) = <<q[1]>> \o SubSeq(q, 2, Len(q))
        <5>1. 1 \in 1..Len(q) /\ Len(q) \in 1..Len(q) BY <4>1
        <5> QED BY <2>2, <5>1, SubSeqRecursiveFirst
      <4> QED BY <2>1, <2>2, <4>1, <4>2, SubSeqFull, TailIsSubSeq
    <3> QED BY <3>2, <3>3, <3>4, <3>5
  <2>4. ASSUME NEW d \in Chans, d # c PROVE Line(d)' = Line(d)
    BY <1>0, <2>1, <2>4 DEF Line
  <2>5. \A d \in Chans : Line(d)' = Line(d) BY <2>3, <2>4
  <2> QED BY <2>1, <2>5, SameLines
<1>3. ASSUME NEW c \in Chans, Sync(c) \/ Decode(c) PROVE Pending' = Pending
  <2>1. /\ UNCHANGED <<frameChans, queue, producer>>
        /\ \A d \in Chans : worker'[d].pkg = worker[d].pkg
    <3>1. CASE Sync(c) BY <1>0, <3>1 DEF Sync
    <3>2. CASE Decode(c) BY <1>0, <3>2 DEF Decode
    <3> QED BY <1>3, <3>1, <3>2
  <2>2. \A d \in Chans : Line(d)' = Line(d) BY <2>1 DEF Line
  <2> QED BY <2>1, <2>2, SameLines
<1> QED BY <1>1, <1>2, <1>3

\* Every step of the dispatcher is a step of Delivery, or none.
LEMMA DeliveryStep == DInv /\ [Next]_vars => [D!Next]_(D!vars)
<1> SUFFICES ASSUME DInv, [Next]_vars PROVE [D!Next]_(D!vars)
  OBVIOUS
<1>1. ASSUME NEW i \in Ids, ToHandle(i) PROVE D!Next
  BY <1>1, ToHandleProduces DEF D!Next
<1>2. ASSUME NEW c \in Chans, Write(c) PROVE D!Next
  <2>1. PICK x \in Indices : D!Remove(x) /\ Head(Pending[x]) = worker[c].pkg
    BY <1>2, HandledRemoves
  <2>2. D!Deliver(x) BY <1>2, <2>1 DEF D!Deliver, Write
  <2> QED BY <2>2 DEF D!Next
<1>3. ASSUME NEW c \in Chans, DecodeFails(c) PROVE D!Next
  <2>1. PICK x \in Indices : D!Remove(x) BY <1>3, HandledRemoves
  <2>2. D!Drop(x) BY <1>3, <2>1 DEF D!Drop, DecodeFails
  <2> QED BY <2>2 DEF D!Next
<1>4. CASE Enqueue \/ \E c \in Chans : Take(c) \/ Sync(c) \/ Decode(c)
  <2>1. UNCHANGED <<made, written>> BY <1>4 DEF Enqueue, Take, Sync, Decode
  <2> QED BY <1>4, <2>1, OthersKeepLines DEF D!vars
<1>5. CASE UNCHANGED vars
  <2>1. Pending' = Pending BY <1>5 DEF vars, Pending, Line
  <2> QED BY <1>5, <2>1 DEF vars, D!vars
<1> QED BY <1>1, <1>2, <1>3, <1>4, <1>5 DEF Next, Handle

\* The dispatcher with its channels and goroutines is one line per index, which
\* loses and reorders nothing (handle.go:41-96).
THEOREM DeliveryImplemented == Spec => ImplementsDelivery
<1>1. Init => D!Init
  <2> SUFFICES ASSUME Init PROVE D!Init
    OBVIOUS
  <2>1. Pending = [x \in Indices |-> <<>>] BY DEF Init, Pending
  <2> QED BY <2>1 DEF Init, D!Init
<1> QED BY <1>1, DeliveryStep, Reached, PTL DEF Spec, ImplementsDelivery, D!Spec

-----------------------------------------------------------------------------
(* The order of the packages.                                              *)

\* A package in line is newer than those of its sensor before it, than the last
\* one written and, unless its worker has just stored it, than the last in tmap.
NewerThanDone(x, j) ==
    LET p == Pending[x][j] IN
    /\ p \in Package /\ Index(p.id) = x
    /\ written[p.id] < p.seq /\ p.seq <= made[p.id]
    /\ \/ tmap[p.id] < p.seq
       \/ tmap[p.id] = p.seq /\ j = 1 /\ worker[frameChans[x]].pc = "write"

Ordered ==
    /\ \A i \in Ids : written[i] <= made[i] /\ tmap[i] <= made[i]
    /\ \A x \in Indices : \A j \in 1..Len(Pending[x]) : NewerThanDone(x, j)
    /\ \A x \in Indices : \A j, k \in 1..Len(Pending[x]) :
          j < k /\ Pending[x][j].id = Pending[x][k].id
              => Pending[x][j].seq < Pending[x][k].seq

LEMMA PendingType ==
  ASSUME DInv, NEW x \in Indices
  PROVE  Pending[x] \in Seq(Package) /\ Len(Pending[x]) \in Nat
<1>1. TypeOK /\ frameChans[x] \in Chans \cup {None} BY DEF DInv, TypeOK
<1>2. Pending[x] \in Seq(Package)
  BY <1>1, LineType, EmptySeq DEF Pending
<1> QED BY <1>2, LenProperties

\* What a worker handles is in front of its line.
LEMMA WorkerInFront ==
  ASSUME DInv, NEW c \in Chans, worker[c].pkg # None
  PROVE  LET x == Index(worker[c].pkg.id) IN
         /\ worker[c].pkg \in Package /\ x \in Indices /\ frameChans[x] = c
         /\ 1 \in 1..Len(Pending[x]) /\ Pending[x][1] = worker[c].pkg
<1> DEFINE p == worker[c].pkg
           x == Index(p.id)
           rest == queue[c] \o Entering(c)
<1>1. TypeOK /\ Routed BY DEF DInv
<1>2. p \in Package BY <1>1 DEF TypeOK
<1>3. x \in Indices BY <1>2, IndexType DEF Package
<1>4. frameChans[x] = c BY <1>1, <1>3 DEF Routed, Carries
<1>5. Pending[x] = <<p>> \o rest /\ rest \in Seq(Package)
  BY <1>1, <1>3, <1>4, LineType, NilAssumption DEF Pending, One
<1>6. Len(Pending[x]) = 1 + Len(rest) /\ Len(rest) \in Nat /\ Pending[x][1] = p
  <2> HIDE DEF rest, p
  <2>1. <<p>> \in Seq(Package) /\ Len(<<p>>) = 1 /\ <<p>>[1] = p /\ Len(rest) \in Nat
    BY <1>2, <1>5, LenProperties
  <2> QED BY <1>5, <2>1, ConcatProperties
<1> QED BY <1>2, <1>3, <1>4, <1>6

LEMMA OrderedProduce ==
  ASSUME DInv, Ordered, NEW i \in Ids, ToHandle(i)
  PROVE  Ordered'
<1>0. /\ TypeOK /\ Routed /\ Index(i) \in Indices /\ UNCHANGED <<written, tmap, worker>>
      /\ made' = [made EXCEPT ![i] = @ + 1] /\ made \in [Ids -> Seqs] /\ made[i] + 1 \in 1..MaxPackages
      /\ written \in [Ids -> Seqs] /\ tmap \in [Ids -> Seqs]
  <2>1. TypeOK /\ Routed /\ Index(i) \in Indices BY IndexType DEF DInv
  <2>2. /\ made \in [Ids -> Seqs] /\ written \in [Ids -> Seqs] /\ tmap \in [Ids -> Seqs]
    BY <2>1 DEF TypeOK
  <2>3. /\ UNCHANGED <<written, tmap, worker>> /\ made' = [made EXCEPT ![i] = @ + 1]
        /\ made[i] < MaxPackages
    BY DEF ToHandle, Make
  <2>4. made[i] + 1 \in 1..MaxPackages BY <2>2, <2>3, CountAssumption DEF Seqs
  <2> QED BY <2>1, <2>2, <2>3, <2>4
<1> DEFINE pkg == [id |-> i, seq |-> made[i] + 1]
<1>1. Pending' = [Pending EXCEPT ![Index(i)] = Append(@, pkg)]
  BY ToHandleProduces DEF D!Produce
<1>2. pkg \in Package BY <1>0 DEF Package
<1>3. \A j \in Ids : made[j] \in Int /\ made[j] <= made'[j] /\ written[j] \in Int /\ tmap[j] \in Int
  BY <1>0, CountAssumption DEF Seqs
<1>4. ASSUME NEW x \in Indices
      PROVE  /\ Len(Pending'[x]) = IF x = Index(i) THEN Len(Pending[x]) + 1 ELSE Len(Pending[x])
             /\ \A j \in 1..Len(Pending[x]) : Pending'[x][j] = Pending[x][j]
             /\ x = Index(i) => Pending'[x][Len(Pending[x]) + 1] = pkg
  <2> HIDE DEF pkg
  <2>1. Pending'[x] = IF x = Index(i) THEN Append(Pending[x], pkg) ELSE Pending[x]
    BY <1>1 DEF Pending
  <2> QED BY <1>2, <2>1, PendingType, AppendProperties
<1>5. ASSUME NEW x \in Indices, NEW j \in 1..Len(Pending[x]) PROVE frameChans'[x] = frameChans[x]
  <2>1. frameChans[x] # None BY <1>5, EmptySeq DEF Pending
  <2> QED BY <2>1, <1>0 DEF ToHandle
<1>6. ASSUME NEW x \in Indices, NEW j \in 1..Len(Pending'[x]) PROVE NewerThanDone(x, j)'
  <2>1. Len(Pending[x]) \in Nat BY PendingType
  <2>2. CASE j \in 1..Len(Pending[x])
    <3>1. NewerThanDone(x, j) /\ Pending'[x][j] = Pending[x][j] /\ frameChans'[x] = frameChans[x]
      BY <1>4, <1>5, <2>2 DEF Ordered
    <3> QED BY <1>0, <1>3, <3>1 DEF NewerThanDone, Package
  <2>3. CASE x = Index(i) /\ j = Len(Pending[x]) + 1
    <3>1. Pending'[x][j] = pkg BY <1>4, <2>3
    <3>2. written[i] < made[i] + 1 /\ tmap[i] < made[i] + 1 /\ made'[i] = made[i] + 1
      BY <1>0, <1>3 DEF Ordered
    <3> QED BY <1>0, <1>2, <2>3, <3>1, <3>2 DEF NewerThanDone
  <2> QED BY <1>4, <2>1, <2>2, <2>3
<1>7. ASSUME NEW x \in Indices, NEW j \in 1..Len(Pending'[x]), NEW k \in 1..Len(Pending'[x]),
             j < k, Pending'[x][j].id = Pending'[x][k].id
      PROVE  Pending'[x][j].seq < Pending'[x][k].seq
  <2>1. Len(Pending[x]) \in Nat BY PendingType
  <2>2. j \in 1..Len(Pending[x]) BY <1>4, <1>7, <2>1
  <2>3. CASE k \in 1..Len(Pending[x]) BY <1>4, <1>7, <2>2, <2>3 DEF Ordered
  <2>4. CASE x = Index(i) /\ k = Len(Pending[x]) + 1
    <3>1. Pending'[x][k] = pkg /\ Pending'[x][j] = Pending[x][j] BY <1>4, <2>2, <2>4
    <3>2. Pending[x][j] \in Package /\ Pending[x][j].seq <= made[Pending[x][j].id]
      BY <2>2 DEF Ordered, NewerThanDone
    <3> QED BY <1>3, <1>7, <3>1, <3>2 DEF Package
  <2> QED BY <1>4, <2>1, <2>3, <2>4
<1>8. \A j \in Ids : written'[j] <= made'[j] /\ tmap'[j] <= made'[j] BY <1>0, <1>3 DEF Ordered
<1> QED BY <1>6, <1>7, <1>8 DEF Ordered

LEMMA OrderedRemove ==
  ASSUME DInv, Ordered, NEW c \in Chans, DecodeFails(c) \/ Write(c)
  PROVE  /\ Ordered'
         /\ \A i \in Ids : written'[i] # written[i] => written'[i] > written[i]
<1> DEFINE p == worker[c].pkg
           x == Index(p.id)
<1>0. /\ TypeOK /\ Routed /\ UNCHANGED <<made, tmap, frameChans>> /\ p # None
      /\ \A d \in Chans : d # c => worker'[d] = worker[d]
      /\ written' \in {written, [written EXCEPT ![p.id] = p.seq]}
      /\ made \in [Ids -> Seqs] /\ written \in [Ids -> Seqs] /\ tmap \in [Ids -> Seqs]
      /\ frameChans \in [Indices -> Chans \cup {None}]
  BY DEF DInv, TypeOK, Routed, DecodeFails, Write
<1>1. /\ p \in Package /\ x \in Indices /\ frameChans[x] = c
      /\ 1 \in 1..Len(Pending[x]) /\ Pending[x][1] = p
  BY <1>0, WorkerInFront
<1>2. Pending' = [Pending EXCEPT ![x] = Tail(@)] /\ Pending[x] # <<>>
  BY HandledRemoves DEF D!Remove
<1>3. \A j \in Ids : made[j] \in Int /\ written[j] \in Int /\ tmap[j] \in Int
  BY <1>0, CountAssumption DEF Seqs
<1>4. p.id \in Ids /\ p.seq \in Int /\ written[p.id] < p.seq /\ p.seq <= made[p.id]
  BY <1>1 DEF Ordered, NewerThanDone, Package
<1>5. ASSUME NEW y \in Indices, NEW j \in 1..Len(Pending'[y])
      PROVE  IF y = x THEN j + 1 \in 1..Len(Pending[y]) /\ Pending'[y][j] = Pending[y][j + 1]
                      ELSE j \in 1..Len(Pending[y]) /\ Pending'[y][j] = Pending[y][j]
  <2>1. CASE y = x
    <3>1. Pending'[x] = Tail(Pending[x]) BY <1>1, <1>2 DEF Pending
    <3>2. /\ Len(Tail(Pending[x])) = Len(Pending[x]) - 1 /\ Len(Pending[x]) \in Nat
          /\ \A k \in 1..Len(Tail(Pending[x])) : Tail(Pending[x])[k] = Pending[x][k + 1]
      BY <1>1, <1>2, PendingType, HeadTailProperties
    <3> HIDE DEF x
    <3> QED BY <1>5, <2>1, <3>1, <3>2
  <2>2. CASE y # x BY <1>2, <1>5, <2>2 DEF Pending
  <2> QED BY <2>1, <2>2
<1>6. ASSUME NEW y \in Indices, NEW j \in 1..Len(Pending'[y]) PROVE NewerThanDone(y, j)'
  <2>1. CASE y = x
    <3> DEFINE r == Pending[x][j + 1]
    <3>1. /\ j + 1 \in 1..Len(Pending[x]) /\ Pending'[y][j] = r /\ j \in Nat /\ j >= 1
      BY <1>5, <1>6, <2>1
    <3>2. /\ r \in Package /\ Index(r.id) = x /\ written[r.id] < r.seq /\ r.seq <= made[r.id]
          /\ tmap[r.id] < r.seq
      <4>1. NewerThanDone(x, j + 1)
        <5>1. \A z \in Indices : \A n \in 1..Len(Pending[z]) : NewerThanDone(z, n) BY DEF Ordered
        <5>2. x \in Indices /\ j + 1 \in 1..Len(Pending[x]) BY <1>1, <3>1
        <5> HIDE DEF x, r
        <5> QED BY <5>1, <5>2
      <4> HIDE DEF x
      <4> QED BY <4>1 DEF NewerThanDone
    <3>3. r.id = p.id => p.seq < r.seq
      <4>1. 1 < j + 1 BY <3>1
      <4> QED BY <1>1, <3>1, <4>1 DEF Ordered
    <3>4. written'[r.id] < r.seq BY <1>0, <1>4, <3>2, <3>3 DEF Package
    <3> QED BY <1>0, <2>1, <3>1, <3>2, <3>4 DEF NewerThanDone
  <2>2. CASE y # x
    <3> DEFINE r == Pending[y][j]
    <3>1. j \in 1..Len(Pending[y]) /\ Pending'[y][j] = r BY <1>5, <2>2
    <3>2. NewerThanDone(y, j) BY <3>1 DEF Ordered
    <3>3. r.id \in Ids /\ r.id # p.id BY <2>2, <3>2 DEF NewerThanDone, Package
    <3>4. written'[r.id] = written[r.id] BY <1>0, <1>4, <3>3
    <3>5. frameChans[y] # None BY <3>1, EmptySeq DEF Pending
    <3>6. frameChans[y] \in Chans /\ frameChans[y] # c BY <1>0, <1>1, <2>2, <3>5 DEF Routed
    <3> QED BY <1>0, <3>1, <3>2, <3>4, <3>6 DEF NewerThanDone
  <2> QED BY <2>1, <2>2
<1>7. ASSUME NEW y \in Indices, NEW j \in 1..Len(Pending'[y]), NEW k \in 1..Len(Pending'[y]),
             j < k, Pending'[y][j].id = Pending'[y][k].id
      PROVE  Pending'[y][j].seq < Pending'[y][k].seq
  <2>1. CASE y = x
    <3>1. /\ j + 1 \in 1..Len(Pending[y]) /\ k + 1 \in 1..Len(Pending[y]) /\ j + 1 < k + 1
          /\ Pending'[y][j] = Pending[y][j + 1] /\ Pending'[y][k] = Pending[y][k + 1]
      BY <1>5, <1>7, <2>1
    <3> QED BY <1>7, <3>1 DEF Ordered
  <2>2. CASE y # x
    <3>1. /\ j \in 1..Len(Pending[y]) /\ k \in 1..Len(Pending[y])
          /\ Pending'[y][j] = Pending[y][j] /\ Pending'[y][k] = Pending[y][k]
      BY <1>5, <1>7, <2>2
    <3> QED BY <1>7, <3>1 DEF Ordered
  <2> QED BY <2>1, <2>2
<1>8. \A i \in Ids : written'[i] <= made'[i] /\ tmap'[i] <= made'[i]
  BY <1>0, <1>3, <1>4 DEF Ordered
<1>9. \A i \in Ids : written'[i] # written[i] => written'[i] > written[i]
  BY <1>0, <1>3, <1>4
<1> QED BY <1>6, <1>7, <1>8, <1>9 DEF Ordered

LEMMA OrderedDecode ==
  ASSUME DInv, Ordered, NEW c \in Chans, Decode(c)
  PROVE  /\ Ordered'
         /\ \A i \in Ids : tmap'[i] # tmap[i] => tmap'[i] > tmap[i]
<1> DEFINE p == worker[c].pkg
           x == Index(p.id)
<1>0. /\ TypeOK /\ Routed /\ UNCHANGED <<made, written, frameChans>> /\ p # None
      /\ worker[c].pc = "decode" /\ worker'[c].pc = "write"
      /\ \A d \in Chans : d # c => worker'[d] = worker[d]
      /\ tmap' = [tmap EXCEPT ![p.id] = p.seq]
      /\ made \in [Ids -> Seqs] /\ tmap \in [Ids -> Seqs]
      /\ frameChans \in [Indices -> Chans \cup {None}]
  BY DEF DInv, TypeOK, Routed, Decode
<1>1. /\ p \in Package /\ x \in Indices /\ frameChans[x] = c
      /\ 1 \in 1..Len(Pending[x]) /\ Pending[x][1] = p
  BY <1>0, WorkerInFront
<1>2. Pending' = Pending BY OthersKeepLines
<1>3. \A j \in Ids : made[j] \in Int /\ tmap[j] \in Int BY <1>0, CountAssumption DEF Seqs
<1>4. /\ p.id \in Ids /\ p.seq \in Int /\ tmap[p.id] < p.seq /\ p.seq <= made[p.id]
  BY <1>0, <1>1 DEF Ordered, NewerThanDone, Package
<1>5. ASSUME NEW y \in Indices, NEW j \in 1..Len(Pending[y]) PROVE NewerThanDone(y, j)'
  <2> DEFINE r == Pending[y][j]
  <2>1. NewerThanDone(y, j) /\ r.id \in Ids /\ r.seq \in Int
    BY <1>5 DEF Ordered, NewerThanDone, Package
  <2>2. CASE y # x
    <3>1. r.id # p.id BY <2>1, <2>2 DEF NewerThanDone
    <3>2. frameChans[y] # None BY <1>5, EmptySeq DEF Pending
    <3>3. frameChans[y] \in Chans /\ frameChans[y] # c BY <1>0, <1>1, <2>2, <3>2 DEF Routed
    <3> QED BY <1>0, <1>2, <1>4, <2>1, <3>1, <3>3 DEF NewerThanDone
  <2>3. CASE y = x /\ j = 1
    <3>1. r = p BY <1>1, <2>3
    <3>2. tmap'[p.id] = p.seq BY <1>0, <1>4
    <3> QED BY <1>0, <1>1, <1>2, <2>1, <2>3, <3>1, <3>2 DEF NewerThanDone
  <2>4. CASE y = x /\ j # 1
    <3>1. 1 < j BY <1>5, <2>4
    <3>2. r.id = p.id => p.seq < r.seq BY <1>1, <1>5, <2>4, <3>1 DEF Ordered
    <3>3. tmap[r.id] < r.seq BY <2>1, <2>4 DEF NewerThanDone
    <3>4. tmap'[r.id] < r.seq BY <1>0, <1>4, <2>1, <3>2, <3>3
    <3> QED BY <1>0, <1>2, <2>1, <3>4 DEF NewerThanDone
  <2> QED BY <2>2, <2>3, <2>4
<1>6. \A i \in Ids : written'[i] <= made'[i] /\ tmap'[i] <= made'[i]
  BY <1>0, <1>3, <1>4 DEF Ordered
<1>7. \A i \in Ids : tmap'[i] # tmap[i] => tmap'[i] > tmap[i] BY <1>0, <1>3, <1>4
<1> QED BY <1>2, <1>5, <1>6, <1>7 DEF Ordered

LEMMA OrderedStep ==
  DInv /\ Ordered /\ [Next]_vars => Ordered' /\ InOrderStep
<1> SUFFICES ASSUME DInv, Ordered, [Next]_vars PROVE Ordered' /\ InOrderStep
  OBVIOUS
<1>1. ASSUME NEW i \in Ids, ToHandle(i) PROVE Ordered' /\ InOrderStep
  BY <1>1, OrderedProduce DEF ToHandle, InOrderStep
<1>2. ASSUME NEW c \in Chans, DecodeFails(c) \/ Write(c) PROVE Ordered' /\ InOrderStep
  BY <1>2, OrderedRemove DEF DecodeFails, Write, InOrderStep
<1>3. ASSUME NEW c \in Chans, Decode(c) PROVE Ordered' /\ InOrderStep
  BY <1>3, OrderedDecode DEF Decode, InOrderStep
<1>4. ASSUME Pending' = Pending, UNCHANGED <<made, written, tmap, frameChans>>,
             \A c \in Chans : worker[c].pc = "write" => worker'[c].pc = "write"
      PROVE  Ordered' /\ InOrderStep
  <2>1. ASSUME NEW x \in Indices, NEW j \in 1..Len(Pending[x]) PROVE NewerThanDone(x, j)'
    <3>1. NewerThanDone(x, j) BY <2>1 DEF Ordered
    <3>2. frameChans[x] \in Chans BY <2>1, EmptySeq DEF DInv, TypeOK, Pending
    <3> QED BY <1>4, <3>1, <3>2 DEF NewerThanDone
  <2> QED BY <1>4, <2>1 DEF Ordered, InOrderStep
<1>5. CASE Enqueue BY <1>4, <1>5, OthersKeepLines DEF Enqueue
<1>6. ASSUME NEW c \in Chans, Take(c) \/ Sync(c) PROVE Ordered' /\ InOrderStep
  <2>1. \A d \in Chans : worker[d].pc = "write" => worker'[d].pc = "write"
    <3>1. worker[c].pc # "write" /\ \A d \in Chans : d # c => worker'[d] = worker[d]
      BY <1>6 DEF Take, Sync, WorkerIdle, DInv, TypeOK
    <3> QED BY <3>1
  <2> QED BY <1>4, <1>6, <2>1, OthersKeepLines DEF Take, Sync
<1>7. CASE UNCHANGED vars
  <2>1. Pending' = Pending BY <1>7 DEF vars, Pending, Line
  <2> QED BY <1>4, <1>7, <2>1 DEF vars
<1> QED BY <1>1, <1>2, <1>3, <1>5, <1>6, <1>7 DEF Next, Handle

\* The packages of a sensor are written, and their timestamps stored, in the
\* order they were made (handle.go:62, 66, 85, 92).
THEOREM OrderKept == Spec => InOrder
<1>1. Init => Ordered
  <2> SUFFICES ASSUME Init PROVE Ordered
    OBVIOUS
  <2>1. Pending = [x \in Indices |-> <<>>] BY DEF Init, Pending
  <2>2. \A x \in Indices : Len(Pending[x]) = 0 BY <2>1, EmptySeq
  <2> QED BY <2>2 DEF Init, Ordered
<1> QED BY <1>1, OrderedStep, Reached, PTL DEF Spec, InOrder
=============================================================================
