# Verification of arc-consumer

TLA+ models of the Go service in `src/`, the TLC runs that check them and
the theorems TLAPS proves about them. The modules are translated from the code;
file and line numbers below are relative to `src/pkg/` unless they start
elsewhere. `PROJECT.json` maps every definition to the lines it stands for.

## 1. Inventory

arc-consumer takes packages of sensor data and forwards them over gRPC streams
to a storage service. In a cluster it finds that service through gossip events
and announces the sensors it sees to a gossip key-value store.

| component | state | operations | who runs them |
|---|---|---|---|
| gRPC forwarder, `grpc/server.go` | `pools` (masked id to `*Conn`), `running`, `config`, `mask`; per Conn the client, the stream, `valid`, `reconn` | `Write`, `ReConnect`, `Disconnect`, `Start` loop, `Stop`, `SetMask` | package workers, hooks, its own goroutine, shutdown |
| package dispatcher, `simulate/` | `frameChans` (index to channel), `tmap` | `New`, `Producer`, `ToHandle`, `handlePackage`, `Stop` | one producer goroutine, one worker per channel |
| sensor id cache, `goss/server.go` | `cache` (id to last announcement and last package) | `Sync`, `Start` loop | package workers, its own goroutine |
| cluster hooks, `component/cluster.go` | the settings in viper, a copy of the grpc configuration | `OnJoinCluster`, `OnNodeJoin`, `OnNodeLeave` | gossip's goroutines |
| lifecycle, `component/component.go` | which of the parts exist | `PreInit`, `Init`, `SetDynamicConfig`, `Start`, `Stop` | the framework |
| web API, command line | none that changes | | |

Interactions. `ToHandle` sends on a channel; the channel's worker calls
`kvCache.Sync`, decodes the package and calls `grpc.Write`. `simulate.New` hands
its mask to the forwarder (`SetMask`). Hooks write `grpc.server` in viper and call
`ReConnect` or `Disconnect`, which share `pools`, `running` and `config` with the
workers. Outside a cluster, the component's `Start` runs the forwarder's loop and
calls `ReConnect` once; in a cluster it does neither.

What is hard. The forwarder has no lock: a `Conn` in the pool is read and written
by a worker, the loop, hooks and `Stop` at once. Its fields are tested and read
again; it is published before it is complete; it is closed before it is
removed. Calls fail between two assignments. The cache compares wall-clock ages
on a ticker with the same period as the age it tests. A panic in any goroutine but
the main one ends the process (the `recover` in `src/cmd/server.go:30-37` covers
the main one only).

What makes each component correct.

- Forwarder: a change of address reaches every connection; no nil connection is
  used, and no Write uses one that was closed; no stream is left behind; every Conn that is to be replaced
  is replaced, every Conn that lost its stream gets another; `Stop` leaves
  nothing.
- Dispatcher: packages of a sensor stay in order and have one worker, a pool key
  has one writer, a full channel delays and does not stop the producer. Its `Stop`
  is empty (`simulate/server.go:75`), so packages are still forwarded while the
  forwarder stops.
- Cache: an id that `Sync` says nothing about is known to the gossip store, and
  not from too long ago; ids without packages are forgotten.
- Hooks: the address that is used is the one of the last event; only events of
  the storage service count.
- Lifecycle: no method of a part that was not created is called.

## 2. Modules

| module | models |
|---|---|
| `Forwarder` | the forwarder with all its callers |
| `MCForwarder` | symmetry and bounds for the runs of `Forwarder` |
| `ForwarderProofs` | TLAPS proofs about `Forwarder`: its safety invariants |
| `Link` | abstract: per key a link that a change of address makes old at once |
| `LinkProofs` | proof that `Forwarder` implements `Link` |
| `StreamProofs` | proofs of the two invariants of `Forwarder` that hold in one deployment each |
| `Dispatcher` | `ToHandle`, the channels and their workers |
| `Delivery` | abstract: per index a line of packages, served from the front |
| `DispatcherProofs` | proofs about `Dispatcher`, and that it implements `Delivery` |
| `KeyCache` | the sensor id cache on a clock in seconds |
| `KeyCacheProofs` | proofs of its invariants |
| `Component` | the lifecycle and the gossip hooks, composed with `Forwarder` |
| `ComponentProofs` | proofs of its invariants |
| `CallProofs` | proof that `Component` calls the forwarder only as `Forwarder` assumes |
| `Mask` | the arithmetic that connects goroutine count, index, pool key and the key sent |
| `MCMask` | comparison of `Mask`'s recursive functions with the library's operators, by TLC |
| `MaskProofs` | proofs about `Mask`, for words of any width |

They meet at their assumptions. `Forwarder` has one writer per key: `Mask`
(`KeyHasOneWorker`) shows that a pool key has one index, `Dispatcher`
(`OneWorkerPerIndex`) that an index has one worker. `KeyCache` has at most one
`Sync` per id for the same reason. What `Forwarder` assumes of its callers
(hooks set the address and then read it, a loop runs from `Start` to shutdown outside
a cluster and never in one, `Stop` comes after `Start` has returned) is what `Component` does
(`CallsForwarder`): `Component` instantiates `Forwarder` twice, for its two
deployments, with no keys, and each of its steps is a step of the instance. Its
variable `loop` is the loop of the instance, so that a `Start` which started it in a cluster,
or did not start it outside one, would be no step of the instance.

Each module also holds wrong variants of some definitions, marked "Bug". No
specification uses them: each is a mistake that a change of the code could
make, and the property listed with it in `PROJECT.json` ("mutants") is violated
when it takes the place of the right definition.

### Forwarder

| variable | code |
|---|---|
| `pools`, `running`, `config` | `Server.pools`, `.running`, `.config.Server` |
| `conn` | the fields of each `Conn`; `addr` stands for `conn` and `grpcclient` (the address they were dialled to, None while nil), `closed` for `ClientConn.Close` |
| `setting` | `grpc.server` in viper, which `GetConfig` reads |
| `stream` | a client stream: `open`, `dead` (ended by the other side, its goroutine waits for a receive), `done` (received to the end) |
| `writer`, `caller`, `loop`, `stop` | program counter and locals of `Write` (per key), `ReConnect` (per caller), `Start`, `Stop` |
| `panic` | the function in which a nil pointer was dereferenced; nothing runs after it |

Grain of the steps. A step is one access to state that another goroutine may
change, together with accesses that nobody can tell apart from it:

- `running.Load` and `pools.Load` of a Write are separate; the fields read right
  after the Load (`reconn`, `valid`, `grpcstream`) belong to it, as reading them
  later gives an outcome that reading them at once in a later state also gives.
- `pools.Store`, the dial and the first stream are three steps, because the loop
  and `Stop` can see the Conn after each. `conn.conn` and `grpcclient` are set
  together; `grpcstream` and `valid` of the first stream too.
- `Send`, `CloseAndRecv`, the reopening and the second `Send` are four steps; each
  reads `p.grpcstream` again.
- `CloseAndRecv` and `Close` of the reconn branch are one step, `Delete` the next.
- `GetConfig`, the assignment of `s.config` and each Conn of the Range are
  steps of their own. Ranges follow `sync.Map`: every key present from the
  beginning is visited, one stored meanwhile may be; the value is read at the visit.
- The loop reads `valid` and `reconn`, opens a stream, sets `valid`: three steps.
- `Stop` tests `grpcstream`, then reads it again for `CloseAndRecv`, then deletes.

Steps are interleaved one at a time (sequential consistency). The Go
memory model promises less for the racy fields (`config`, `reconn`, `valid`,
`grpcstream`); the amd64 builds of the repository's Dockerfile only delay a
plain store until the next locked instruction, which the calls between these
accesses contain.

External: `grpc.DialContext` does not block here and only fails on an address it
cannot use (`DialErrors`); opening a stream may always fail; the server or the
transport may end a stream at any time (`Break`); a `Conn` nobody refers to is
collected and its identity reused.

### Dispatcher

`queue` and `worker` are the channel and its goroutine, made together in
`ToHandle`; `producer` is the goroutine of `Producer`, the only one that uses `frameChans`,
which is why `ToHandle`'s Load and Store of a channel are one step. At this commit it makes one
package; the model lets it make several for several sensors, which is what
`ToHandle` and the channels are written for. `Sync`, `Decode` and `Write` return
when they like, in any order across workers, and each may fail.

`Pending` maps the state to `Delivery`: the package with the worker of an index,
then the channel, then the one the blocked producer holds. `Delivery`'s capacity is
`QueueLimit + 2` for that reason.

### Link

Mapped from `Forwarder`: a key has a link while it has a Conn in the pool; the
link is old if the Conn is marked reconn, or will be by a `ReConnect` that has
assigned `s.config` and has not reached it yet; its address is the one its
`ClientConn` was dialled to. Connecting through hooks is thus one abstract step,
`Change`, at the assignment of `s.config`.

### Component

| variable | code |
|---|---|
| `phase` | which of `PreInit`, `SetDynamicConfig`, `Init`, `Start`, `Stop` came last, and how far `grpc.Stop` is |
| `enable`, `setting` | `grpc.enable`, `grpc.server` in viper |
| `gossip`, `grpc` | whether `c.gossipKVCache`, `c.grpc` are not nil |
| `hookEnable` | `grpcConfig.Enable`, captured by the hooks |
| `members` | external: the nodes alive |
| `config`, `running` | of the forwarder |
| `loop` | the goroutine of `go c.grpc.Start(ctx)`: not started, running, or ended by its context. The other goroutines that `Start` starts are those of `KeyCache` and `Dispatcher` |
| `call` | locals of a hook, or of the `ReConnect` that `Start` calls |
| `overlap` | auxiliary: a hook began while another was under way, and none has connected alone since |

A node is one of four kinds as its cluster and service name decide: of this cluster
with service `arc-consumer` (`Consumers`) or `arc-storage` (`Storages`), or of
another cluster (`Foreign`). Its address stands for itself. A hook is as many steps as it
touches shared state: `viper.Set`, the `GetConfig` of `ReConnect`, the assignment
of `s.config`, `running`; `Disconnect` is one. That an event is delivered and that its hook
begins is one step, because gossip decides both. External assumptions: the
framework applies the dynamic configuration, if it does, before `Init`, cancels the
context of `Start` only once shutdown was requested, and hooks are called only after `setEventHook`.

### KeyCache

`now` is `time.Now().Unix()`. `tick` is the ticker, `loop` the Range with the ids
to announce, `sync` the Sync that waits for `HaveSensorIDs`. `announced` and `missed`
record what the gossip store was told. The constants `MaxTime` and `Idle` are 60
and 5 in the code; the run scales them down and keeps their order.

### Mask

Words of `W` bits take the place of the 64-bit ones, of which `Sent` are
sent (48 in the code). The signed count is given by its bit pattern, so that `count - 1`
wraps around as in Go. `AndBits` is Go's `&`, bit by bit from the last; it and
`Pow2` are recursive functions, which can be proved about, and not the library's
recursive operators. `MCMask` has TLC compare the two on all words of the run.

## 3. Runs

All runs allow a stop of the system (`CHECK_DEADLOCK FALSE`): the process really
ends, by a panic or after `Stop`; the producer runs out of packages; the
clock reaches its bound.

| run | question | result |
|---|---|---|
| `fwd_cluster` | two workers against two concurrent hooks, up to shutdown: stale connections, nil or orphaned streams, panics in Write; `Link` | holds |
| `fwd_standalone` | two workers, the loop and `Stop`, refused dials: the inductive invariant, what `Stop` leaves | holds |
| `fwd_retired` | hooks, a worker and `Stop`: the inductive invariant, uses of closed Conns, `Link` with `Stop`; is a Conn marked reconn always replaced? | yes |
| `fwd_replayed` | is an invalid Conn outside a cluster always revived? | yes |
| `dispatch` | order, one worker per index, `Delivery`; does every package leave? | holds |
| `key_cache` | known ids, age of that knowledge, idle ids | holds |
| `mask` | accepted counts, collisions, one worker per key | holds |
| `component` | lifecycle and hooks: nil forwarder, address in force, departures, `Stop`, calls and loop of the forwarder | holds |
| `component_v_storage` | is the forwarder connected to arc-storage? | no: the filter asks for `arc-consumer` |
| `fwd_v_orphan` | streams outside a cluster | an orphan: the loop and Write both open a stream on a new Conn |
| `fwd_v_start` | panics of the loop | a tick meets a Conn that is not dialled yet; dials may be refused here too |
| `fwd_v_stop` | panics of `Stop` | `CloseAndRecv` fails, its nil response is read |

What they mean. `NoStaleConn` holds although nothing is locked, because
`ReConnect` sets the address before it marks and Write stores before it dials: a
Conn dialled to the old address is in the pool before the Range begins.
`StopDrains` says how far Stop goes: a worker that was past the running check may
leave one Conn, which is why the property names the keys that were inside Write.
`ClosedNotTaken` is as strong as the code is: a Write closes a Conn before it deletes it
(`grpc/server.go:222-223`), and a `Stop` whose Range comes to the Conn in between takes it, reads a
stream that was already received to its end and panics at 281 as on a broken stream
(`fwd_v_stop`). The property excludes every other use, and the run reaches that window: without
the exception it fails. `ClosedIsRetiring`, from which it is proved, is part of `IInv`.
`CachedIsAnnounced` shows that an id is announced at every second tick, not every
tick (the age test is strict and the ticker has the same period), and that a
failed batch costs two more periods; the bound is exact, with one second less
the run fails. `NoOrphanStream` holds in a cluster and fails outside it: the loop is the
only second opener.
`ImplementsLink` says more than the single invariants: the Conn of a key
is never dropped while it is in order, and marks made one by one cannot be told
from marks made at once. `ImplementsDelivery` says that a package on the way
from `ToHandle` to `Write` is never lost, doubled or overtaken, and that a full
channel stops the source for every sensor.
`AddressInForce` and `ConnectedToMember` are stated for calls of hooks that did not
overlap, because two that do can leave the older address in force (both have set
the address; the one that read it first assigns it last). The next call that
connects alone repairs it, which is how `overlap` is reset. `ConnectedToMember`
depends on the join and the leave hook having the same filter. `StopIsFinal` holds
outside a cluster; in one the hooks stay set, and a node that joins after `Stop` sets
`running` again.

Bounds. `Keys`: two show interference between keys and a Range over more than
one Conn; the runs with one key look at a single Conn's life among more actors.
`Conns`: in a cluster as many as keys, as a retired Conn is collected at once unless
`Stop` holds it; elsewhere one more, so that it and its successor exist together. `Streams`: enough for each Conn's stream and one
that was lost; in the liveness runs fewer, as lost ones are reused. `Servers`: two addresses
are enough to tell old from new. `Callers`: two hooks are enough to overlap.
`BeforeShutdown` cuts `fwd_cluster` at the request to stop, which the others cover.
`QueueLimit` 2 and `MaxPackages` 2 let a channel be full and a package be behind
another of its id. `MaxNow` covers more than four scaled periods, one second more than the largest age
`CachedIsAnnounced` allows after a failed batch; `MaxMissed` bounds the failures in a row, `Lag` the delay of a tick,
its handling and an announcement. `component` has two hook goroutines, so that calls overlap, two consumers, so that
one can leave while the other is connected, and one node of each kind the filters
refuse; nothing in it is cut off. `W` = 5 has all counts, signs and
pairs of ids, and the bitwise and of all pairs of words; with `Sent` = 2 there are accepted counts on both sides of the sent keys.

Fairness. Goroutines that can run do: weak fairness on each worker, each
`ReConnect` under way, the loop and the dispatcher's goroutines. It includes that
packages keep arriving and the ticker keeps ticking. `SF` on opening a stream says
that a server asked again and again answers once; it is an assumption on the
environment and needed only by `InvalidIsReplayed`. Hooks, shutdown and broken
streams are never forced. `Component` has no fairness: its properties are safety.

## 4. Proofs

`ForwarderProofs` proves for all constants, so for any number of keys,
Conns, streams, addresses and concurrent callers, in and outside a cluster:

| theorem | states |
|---|---|
| `TypeCorrect` | `Spec => []TypeOK` |
| `Inductive` | `Spec => []IInv` |
| `NoStale` | `Spec => []NoStaleConn` |
| `StreamForSend` | `Spec => []SendHasStream` |
| `ClosedStaysUnused` | `Spec => ClosedNotTaken` |
| `WriteSafe` | `~DialErrors` implies `Spec => []WriteNeverPanics` |

Assumptions: `NilAssumption` (nil is no key, Conn, stream or address) and
`ModeAssumption`. `TypeOK` is inductive by itself: it says that a caller about to assign
`s.config` holds a configuration. The safety properties are not. They follow from
`IInv`, which adds:

- `OneKeyPerConn`, no two keys share a Conn in the pool or in the hands of a
  writer. Without it a step of one writer could close, or take the stream from,
  the Conn of another.
- `WriterHasConn`, past the Load a writer holds a Conn.
- `UndialledIsDialling`, when dials do not fail a Conn without a client is at this
  moment being dialled, so the reconn branch never meets one.

Each of the actors has a lemma: Write by part of `IInv` and action, the others by
what they may change (the loop only replaces streams and sets `valid`, `Stop` only takes Conns
out of the pool, `ReConnect` only sets `reconn` and the address).

`LinkProofs` and `StreamProofs` build on `IInv`:

| theorem | states |
|---|---|
| `LinkImplemented` | `Spec => ImplementsLink` |
| `NoOrphanInCluster` | `InCluster` implies `Spec => []NoOrphanStream` |
| `DrainsStandalone` | `~InCluster` implies `Spec => []StopDrains` |

`LinkInv` adds what the mapping needs: the keys a `ReConnect` still has to mark, and
which Conn `Stop` holds. `StreamInv` adds that a Conn in the hands of a
writer is in the pool and that a stream is only replaced when it is done;
`DrainInv` follows the keys that `Stop` has still to visit.

`DispatcherProofs`, for any ids, goroutine count and queue limit: `TypeCorrect`, `OneWorker`
(`OneWorkerPerIndex`), `OrderKept` (`InOrder`), `DeliveryImplemented`
(`ImplementsDelivery`). `DInv` adds to `TypeOK` that packages are in the channel of
their index and that a channel belongs to one index; `Ordered` that in each line
the numbers of a sensor grow, from what was written to what was made.
Assumptions: `CountAssumption`, `NilAssumption`.

`ComponentProofs`, for any nodes and any number of hook goroutines: `TypeCorrect`,
`HooksFindForwarder`, `SettingInForce`, `MemberInForce`, `StopStays`. They follow from
`CInv`: `Lifecycle` says what each phase knows of the parts and the loop and who may be inside a
call, `Alone` that a call which is the only one accounts for every difference
between setting and address, or between address and a live node. `CallProofs` adds
`ForwarderCalled` (`Spec => CallsForwarder`), one lemma per kind of step and deployment,
and one for the end of the loop.
Assumption: `NilAssumption`.

`KeyCacheProofs`, for any ids, periods, idle time, lag and length of the clock:
`TypeCorrect`, `AnnouncedInTime` (`CachedIsAnnounced`), `IdleForgotten`
(`IdleIsForgotten`). Neither is inductive: how old the knowledge of an id may be depends on
when the loop looks at it next. `Fresh` therefore bounds it relative to `NextVisit`, with one case
each for an id that is due at the next visit, the one after it, or the third.
Assumption: `TimeAssumption`, which needs the lag at most the idle time and the
idle time below the period (5 and 60 seconds in the code).

`MaskProofs`, for words of any width and any number of bits sent: `TypeCorrect`, `PowersOfTwo`
(`AcceptsPowersOfTwo`), `IndexRemainder` (`IndexIsRemainder`), `OneWorkerPerKey`
(`KeyHasOneWorker`), `OneWorkerPerSentKey` (`SentKeyHasOneWorker`). Three layers:

- Induction. The library states it over a predicate, which the provers cannot
  instantiate; `Induction` states it over a set and follows from the least element the
  library's `WFMin` gives. `Recursion` derives from it that a function defined by
  recursion exists, so that `Pow2Def` and `AndBitsDef` can unfold the two of `Mask`.
- Bits, each by induction over the width: `AndSame` (x & x is x), `AndMask` (x & (2^k - 1)
  is x % 2^k), `AndPrevious` (w & (w - 1) is 0 exactly for powers of two).
- The program: `AcceptsPower` and `MaskedIsRemainder` apply them to `New` and to the two
  masks. `MaskInv` adds to `TypeOK` that the mask `New` gave to the forwarder is the one
  `ToHandle` computes (`Decided`) and that index and key are the same remainder (`Masked`).

Assumption: `WidthAssumption`. With these theorems the chain from sensor id to writer is proved throughout: an
accepted count is a power of two, the index is the remainder by it (`MaskProofs`), an index has one worker
(`DispatcherProofs.OneWorker`), so a pool key has one writer, which is what
`ForwarderProofs` needs.

Only model-checked: liveness (`MarkedIsRetired`, `InvalidIsReplayed`, `EachLeaves`), which
is out of the prover's reach together with `ENABLED`. Every safety property that a
passing run checks is proved.

## 5. Not modelled, and why

- The web API registers no route; the command line only assembles components.
- `src/swagger/` is the vendored Swagger UI, minified third-party JavaScript that the
  service serves as files. It has no part in what the service does.
- gossip, viper, grpc-go and the frame format are libraries: what they promise is
  modelled where the code uses it and marked external.
- `zap`/`spew` output, byte layouts, TLS and window options: no state of the
  program depends on them.
- A refused dial outside `fwd_standalone` and `fwd_v_start`: only an address grpc cannot parse is
  refused. It leaves a Conn whose `conn` and `grpcclient` are nil, on which the reconn
  branch (`grpc/server.go:222`) and every tick (146) panic, which is why
  `WriteSafe` is stated for `~DialErrors`.
- A caller that never calls `ReConnect`, as in `grpc/grpc_test.go:154-169`: `running`
  stays false and each Write returns at line 187 of `server.go`.
- An event that gossip delivers before `Start` has set the hooks
  (`component/component.go:166`): when gossip joins is decided in the framework. `Component`
  starts where no event was missed.
- What happens to an invalid Conn in a cluster, where no loop revives it: nothing in the
  repository says what it should wait for. Its packages are dropped until the next
  `ReConnect`.
- A clock that is set back (`KeyCache`), weak memory (above), Conns starved by another
  Conn whose stream never opens (`grpc/server.go:148`).

## 6. Plan

Left, in this order:

1. `Dispatcher` composed with `Forwarder`'s Write, as `Component` is with its other
   operations, so that `Stop` of the component is followed across both.
2. `InvalidIsReplayed` with two keys and fairness per Conn: a server that refuses one
   stream for ever ends each Range there (`grpc/server.go:148`).
