----------------------------- MODULE Dispatcher -----------------------------
(***************************************************************************)
(* The receiving side (pkg/simulate): ToHandle puts a package in the       *)
(* channel of its index, the low bits of its sensor id; each channel has   *)
(* one worker goroutine, which runs handlePackage on its packages.  There  *)
(* is one producer goroutine; the package it makes at this commit stands   *)
(* for any sequence of packages.  Definitions marked "Bug" are wrong       *)
(* variants of the one that follows them; no specification uses them.      *)
(***************************************************************************)
EXTENDS Integers, Sequences, FiniteSets

CONSTANTS
    Ids,            \* sensor ids, natural numbers
    GoroutineCount, \* number of indices
    Chans,          \* identities of channels, each with its worker goroutine
    QueueLimit,     \* capacity of a channel
    MaxPackages,    \* bound: packages made for each id
    None            \* Go's nil

\* New refuses a GoroutineCount that is not a power of two (Mask.tla).
ASSUME CountAssumption == /\ Ids \subseteq Nat /\ GoroutineCount \in Nat \ {0}
                          /\ \E n \in 0..GoroutineCount : GoroutineCount = 2 ^ n
                          /\ QueueLimit \in Nat \ {0} /\ MaxPackages \in Nat

VARIABLES
    frameChans, \* Server.frameChans: index to channel
    queue,      \* contents of each channel
    producer,   \* ToHandle: the channel it sends to and the package
    worker,     \* handlePackage, per channel
    made,       \* per id the number of packages made, the seq of the last
    tmap,       \* Server.tmap: per id the timestamp of the last decoded package
    written     \* external: per id the seq of the last package grpc.Write was given

vars == <<frameChans, queue, producer, worker, made, tmap, written>>

\* seq numbers the packages of an id; the frame's timestamp grows with it.
Package == [id : Ids, seq : 1..MaxPackages]
ASSUME NilAssumption == None \notin Chans /\ None \notin Package

Indices == 0..(GoroutineCount - 1)
Seqs == 0..MaxPackages

\* sensor.id & (GoroutineCount - 1), which is the remainder (IndexIsRemainder in
\* Mask, proved in MaskProofs).
Index(id) == id % GoroutineCount

ProducerIdle == [chan |-> None, pkg |-> None]
WorkerIdle == [pc |-> "idle", pkg |-> None]

\* The type invariant.
TypeOK ==
    /\ frameChans \in [Indices -> Chans \cup {None}]
    /\ queue \in [Chans -> Seq(Package)]
    /\ \A c \in Chans : Len(queue[c]) <= QueueLimit
    /\ producer \in [chan : Chans \cup {None}, pkg : Package \cup {None}]
    /\ worker \in [Chans -> [pc : {"idle", "sync", "decode", "write"},
                             pkg : Package \cup {None}]]
    /\ made \in [Ids -> Seqs] /\ tmap \in [Ids -> Seqs] /\ written \in [Ids -> Seqs]

Init ==
    /\ frameChans = [x \in Indices |-> None]
    /\ queue = [c \in Chans |-> <<>>]
    /\ producer = ProducerIdle
    /\ worker = [c \in Chans |-> WorkerIdle]
    /\ made = [i \in Ids |-> 0] /\ tmap = [i \in Ids |-> 0] /\ written = [i \in Ids |-> 0]

-----------------------------------------------------------------------------
(* ToHandle, for the next package of sensor i.                             *)

\* A channel that was never made: no index, queue or worker has a use for it.
Fresh(c) ==
    /\ \A x \in Indices : frameChans[x] # c
    /\ queue[c] = <<>> /\ worker[c] = WorkerIdle

Make(i) ==
    /\ producer = ProducerIdle /\ made[i] < MaxPackages
    /\ made' = [made EXCEPT ![i] = @ + 1]

\* Bug: the channel and worker made for a package are not kept.
ToHandleNotKept(i) ==
    /\ Make(i)
    /\ \E c \in Chans :
          /\ Fresh(c)
          /\ producer' = [chan |-> c, pkg |-> [id |-> i, seq |-> made[i] + 1]]
    /\ UNCHANGED <<frameChans, queue, worker, tmap, written>>

\* The channel of the index is loaded, or made and stored with its worker: one
\* step, as only the producer's goroutine uses frameChans.
ToHandle(i) ==
    /\ Make(i)
    /\ \E c \in Chans :
          /\ IF frameChans[Index(i)] = None THEN Fresh(c) ELSE c = frameChans[Index(i)]
          /\ frameChans' = [frameChans EXCEPT ![Index(i)] = c]
          /\ producer' = [chan |-> c, pkg |-> [id |-> i, seq |-> made[i] + 1]]
    /\ UNCHANGED <<queue, worker, tmap, written>>

\* Bug: the channel grows without a limit.
EnqueueUnlimited ==
    /\ producer # ProducerIdle
    /\ queue' = [queue EXCEPT ![producer.chan] = Append(@, producer.pkg)]
    /\ producer' = ProducerIdle
    /\ UNCHANGED <<frameChans, worker, made, tmap, written>>

\* Bug: a package that finds the channel full is given up.
EnqueueGivesUp ==
    /\ producer # ProducerIdle
    /\ queue' = [queue EXCEPT ![producer.chan] =
                    IF Len(@) < QueueLimit THEN Append(@, producer.pkg) ELSE @]
    /\ producer' = ProducerIdle
    /\ UNCHANGED <<frameChans, worker, made, tmap, written>>

\* The send, which blocks while the channel is full.
Enqueue ==
    /\ producer # ProducerIdle
    /\ Len(queue[producer.chan]) < QueueLimit
    /\ queue' = [queue EXCEPT ![producer.chan] = Append(@, producer.pkg)]
    /\ producer' = ProducerIdle
    /\ UNCHANGED <<frameChans, worker, made, tmap, written>>

-----------------------------------------------------------------------------
(* handlePackage, run by the worker of channel c.                          *)

\* Bug: the worker takes its next package from the wrong end.
TakeLast(c) ==
    /\ worker[c] = WorkerIdle /\ queue[c] # <<>>
    /\ queue' = [queue EXCEPT ![c] = SubSeq(@, 1, Len(@) - 1)]
    /\ worker' = [worker EXCEPT ![c] = [pc |-> "sync", pkg |-> queue[c][Len(queue[c])]]]
    /\ UNCHANGED <<frameChans, producer, made, tmap, written>>

Take(c) ==
    /\ worker[c] = WorkerIdle /\ queue[c] # <<>>
    /\ queue' = [queue EXCEPT ![c] = Tail(@)]
    /\ worker' = [worker EXCEPT ![c] = [pc |-> "sync", pkg |-> Head(queue[c])]]
    /\ UNCHANGED <<frameChans, producer, made, tmap, written>>

\* kvCache.Sync returns; its error is only logged (KeyCache.tla).
Sync(c) ==
    /\ worker[c].pc = "sync"
    /\ worker' = [worker EXCEPT ![c].pc = "decode"]
    /\ UNCHANGED <<frameChans, queue, producer, made, tmap, written>>

\* Decode and decodePackage accept the package; its timestamp is stored.
Decode(c) ==
    /\ worker[c].pc = "decode"
    /\ tmap' = [tmap EXCEPT ![worker[c].pkg.id] = worker[c].pkg.seq]
    /\ worker' = [worker EXCEPT ![c].pc = "write"]
    /\ UNCHANGED <<frameChans, queue, producer, made, written>>

\* Bug: the worker ends with the package it cannot decode.
DecodeFailsEnds(c) ==
    /\ worker[c].pc = "decode"
    /\ worker' = [worker EXCEPT ![c] = [pc |-> "idle", pkg |-> worker[c].pkg]]
    /\ UNCHANGED <<frameChans, queue, producer, made, tmap, written>>

\* One of them refuses it: the package is dropped.
DecodeFails(c) ==
    /\ worker[c].pc = "decode"
    /\ worker' = [worker EXCEPT ![c] = WorkerIdle]
    /\ UNCHANGED <<frameChans, queue, producer, made, tmap, written>>

\* grpc.Write returns; its error is only logged (Forwarder.tla).
Write(c) ==
    /\ worker[c].pc = "write"
    /\ written' = [written EXCEPT ![worker[c].pkg.id] = worker[c].pkg.seq]
    /\ worker' = [worker EXCEPT ![c] = WorkerIdle]
    /\ UNCHANGED <<frameChans, queue, producer, made, tmap>>

Handle(c) == Take(c) \/ Sync(c) \/ Decode(c) \/ DecodeFails(c) \/ Write(c)

\* The component's Stop calls simulate.Stop, which changes nothing.
Next ==
    \/ \E i \in Ids : ToHandle(i)
    \/ Enqueue
    \/ \E c \in Chans : Handle(c)

Spec == Init /\ [][Next]_vars

\* Goroutines that can run do run: Sync, Decode and Write return.
Fairness == WF_vars(Enqueue) /\ \A c \in Chans : WF_vars(Handle(c))

FairSpec == Spec /\ Fairness

-----------------------------------------------------------------------------
(* Properties.                                                             *)

\* The index of the package that channel c's worker is handling, or whose
\* package waits in c.
Carries(c, x) ==
    \/ worker[c].pkg # None /\ Index(worker[c].pkg.id) = x
    \/ \E j \in DOMAIN queue[c] : Index(queue[c][j].id) = x

\* All packages of an index go through one channel, so never two workers are in
\* grpc.Write for the same pool key, which Write's lock-free use of the pool
\* relies on (handle.go:75-89, grpc/server.go:191-212).
OneWorkerPerIndex ==
    \A c, d \in Chans : \A x \in Indices : Carries(c, x) /\ Carries(d, x) => c = d

InOrderStep == \A i \in Ids : /\ written'[i] # written[i] => written'[i] > written[i]
                              /\ tmap'[i] # tmap[i] => tmap'[i] > tmap[i]

\* The packages of a sensor reach grpc.Write, and its timestamps tmap, in the
\* order they were produced, without a repetition (handle.go:62, 66, 85, 92).
InOrder == [][InOrderStep]_vars

-----------------------------------------------------------------------------
(* Delivery, implemented.                                                  *)

\* No package or one, as a sequence.
One(pkg) == IF pkg = None THEN <<>> ELSE <<pkg>>

\* The packages of channel c: with its worker, waiting, and about to enter.
Line(c) ==
    One(worker[c].pkg) \o queue[c]
        \o One(IF producer.chan = c THEN producer.pkg ELSE None)

Pending == [x \in Indices |-> IF frameChans[x] = None THEN <<>> ELSE Line(frameChans[x])]

D == INSTANCE Delivery WITH Lanes <- Indices, Lane <- [i \in Ids |-> Index(i)],
                            Capacity <- QueueLimit + 2, pending <- Pending

\* The dispatcher implements Delivery: a package enters the line of its index
\* behind all others, leaves it from the front, once, and none is lost on the
\* way from ToHandle over the channel to grpc.Write, although channels and
\* workers are made on the way (handle.go:41-96).
ImplementsDelivery == D!Spec

Waits(p) == \E x \in Indices : \E j \in DOMAIN Pending[x] : Pending[x][j] = p

\* And every package is delivered or dropped in the end: no worker stops for one
\* it cannot decode, announce or send, so the producer never waits at a full
\* channel for ever (handle.go:44-68, 85, 92).
EachLeaves == \A p \in Package : Waits(p) ~> ~Waits(p)
=============================================================================
