------------------------------ MODULE KeyCache ------------------------------
(***************************************************************************)
(* The sensor id cache (pkg/goss/server.go), used inside a cluster.  Sync  *)
(* announces an id to the gossip key-value store the first time a package  *)
(* of it arrives; the Start loop announces cached ids again and forgets    *)
(* those without packages.  The package workers run Sync concurrently, but *)
(* all packages of one id have the same worker, so there is at most one    *)
(* Sync per id.  Load and the store to lastPkg are one step of Sync: the   *)
(* loop cannot tell them apart.  Likewise the announcement of a new id and *)
(* its Store.  Definitions marked "Bug" are wrong variants of the one that *)
(* follows them; no specification uses them.                               *)
(***************************************************************************)
EXTENDS Integers

CONSTANTS
    Ids,       \* sensor ids
    MaxTime,   \* Server.maxTime: the ticker's period and the age of a due id
    Idle,      \* seconds without a package after which an id is forgotten
    Lag,       \* bound: seconds a tick waits and is handled, or a Sync takes
    MaxNow,    \* bound: the last second explored
    MaxMissed, \* bound: announcements of one id in a row that fail
    None       \* Go's nil, and "never"

ASSUME TimeAssumption ==
    /\ MaxTime \in Nat /\ Idle \in Nat /\ Lag \in Nat /\ MaxNow \in Nat /\ MaxMissed \in Nat
    /\ Lag <= Idle /\ Idle < MaxTime
    /\ None \notin Int /\ None \notin [last : Int, lastPkg : Int]

VARIABLES
    now,       \* the wall clock, time.Now().Unix()
    cache,     \* Server.cache: per id its KeyCache, without the sensorID
    sync,      \* per id the creation time of the entry Sync is announcing
    tick,      \* when the ticker fires next, or fired if Start has yet to act
    loop,      \* locals of Start
    announced, \* external: when the gossip store last accepted the id
    missed     \* failed announcements since then of an id that is cached

vars == <<now, cache, sync, tick, loop, announced, missed>>

Time == 0..MaxNow
Entry == [last : Time, lastPkg : Time]
Waiting == [pc |-> "wait", cur |-> 0, todo |-> {}, sensors |-> {}, key |-> None]

\* The type invariant.
TypeOK ==
    /\ now \in Time
    /\ cache \in [Ids -> Entry \cup {None}]
    /\ sync \in [Ids -> Time \cup {None}]
    /\ tick \in Nat
    /\ loop \in [pc : {"wait", "range", "delete"}, cur : Time, todo : SUBSET Ids,
                 sensors : SUBSET Ids, key : Ids \cup {None}]
    /\ announced \in [Ids -> Time \cup {None}]
    /\ missed \in [Ids -> 0..MaxMissed]

Init ==
    /\ now = 0
    /\ cache = [i \in Ids |-> None]
    /\ sync = [i \in Ids |-> None]
    /\ tick = MaxTime
    /\ loop = Waiting
    /\ announced = [i \in Ids |-> None]
    /\ missed = [i \in Ids |-> 0]

\* Time passes, but a tick is handled and a Sync returns within Lag seconds.
Clock ==
    /\ now < MaxNow
    /\ IF loop.pc = "wait" THEN now < tick + Lag ELSE now < tick - MaxTime + Lag
    /\ \A i \in Ids : sync[i] # None => now < sync[i] + Lag
    /\ now' = now + 1
    /\ UNCHANGED <<cache, sync, tick, loop, announced, missed>>

-----------------------------------------------------------------------------
(* Sync, for a package of id i.                                            *)

SyncHit(i) ==
    /\ sync[i] = None /\ cache[i] # None
    /\ cache' = [cache EXCEPT ![i].lastPkg = now]
    /\ UNCHANGED <<now, sync, tick, loop, announced, missed>>

SyncMiss(i) ==
    /\ sync[i] = None /\ cache[i] = None
    /\ sync' = [sync EXCEPT ![i] = now]
    /\ UNCHANGED <<now, cache, tick, loop, announced, missed>>

\* Bug: an entry is stored for an id that no Sync is announcing.
SyncAnnouncedUnasked(i) ==
    /\ announced' = [announced EXCEPT ![i] = now]
    /\ missed' = [missed EXCEPT ![i] = 0]
    /\ cache' = [cache EXCEPT ![i] = [last |-> sync[i], lastPkg |-> sync[i]]]
    /\ sync' = [sync EXCEPT ![i] = None]
    /\ UNCHANGED <<now, tick, loop>>

\* HaveSensorIDs accepts the id and the new entry is stored.
SyncAnnounced(i) ==
    /\ sync[i] # None
    /\ announced' = [announced EXCEPT ![i] = now]
    /\ missed' = [missed EXCEPT ![i] = 0]
    /\ cache' = [cache EXCEPT ![i] = [last |-> sync[i], lastPkg |-> sync[i]]]
    /\ sync' = [sync EXCEPT ![i] = None]
    /\ UNCHANGED <<now, tick, loop>>

\* HaveSensorIDs returns an error: nothing is cached, the next package of i
\* tries again.
SyncFails(i) ==
    /\ sync[i] # None
    /\ sync' = [sync EXCEPT ![i] = None]
    /\ UNCHANGED <<now, cache, tick, loop, announced, missed>>

Sync(i) == SyncHit(i) \/ SyncMiss(i) \/ SyncAnnounced(i) \/ SyncFails(i)

-----------------------------------------------------------------------------
(* Start.                                                                  *)

\* The ticker fires; the Range visits every id cached when it starts, and
\* possibly ids stored while it runs.
StartTick ==
    /\ loop.pc = "wait" /\ now >= tick
    /\ tick' = tick + MaxTime
    /\ \E ids \in SUBSET Ids :
          /\ {i \in Ids : cache[i] # None} \subseteq ids
          /\ loop' = [Waiting EXCEPT !.pc = "range", !.cur = now, !.todo = ids]
    /\ UNCHANGED <<now, cache, sync, announced, missed>>

IsIdle(i) == loop.cur - cache[i].lastPkg > Idle

\* Bug: an id that was announced two periods ago is not yet due.
IsDueLate(i) == loop.cur - cache[i].last > 2 * MaxTime

IsDue(i) == loop.cur - cache[i].last > MaxTime

Visits(i) == loop.pc = "range" /\ i \in loop.todo

StartSkip(i) ==
    /\ Visits(i)
    /\ cache[i] # None => ~IsIdle(i) /\ ~IsDue(i)
    /\ loop' = [loop EXCEPT !.todo = @ \ {i}]
    /\ UNCHANGED <<now, cache, sync, tick, announced, missed>>

StartDue(i) ==
    /\ Visits(i) /\ cache[i] # None /\ ~IsIdle(i) /\ IsDue(i)
    /\ cache' = [cache EXCEPT ![i].last = loop.cur]
    /\ loop' = [loop EXCEPT !.todo = @ \ {i}, !.sensors = @ \cup {i}]
    /\ UNCHANGED <<now, sync, tick, announced, missed>>

\* lastPkg is read; the id is deleted in a step of its own.
StartIdle(i) ==
    /\ Visits(i) /\ cache[i] # None /\ IsIdle(i)
    /\ loop' = [loop EXCEPT !.pc = "delete", !.key = i, !.todo = @ \ {i}]
    /\ UNCHANGED <<now, cache, sync, tick, announced, missed>>

\* Bug: an idle id stays in the cache.
StartDeleteNot ==
    /\ loop.pc = "delete"
    /\ loop' = [loop EXCEPT !.pc = "range", !.key = None]
    /\ UNCHANGED <<now, cache, sync, tick, announced, missed>>

StartDelete ==
    /\ loop.pc = "delete"
    /\ cache' = [cache EXCEPT ![loop.key] = None]
    /\ loop' = [loop EXCEPT !.pc = "range", !.key = None]
    /\ UNCHANGED <<now, sync, tick, announced, missed>>

\* After the Range one HaveSensorIDs announces all due ids.
StartAnnounced ==
    /\ loop.pc = "range" /\ loop.todo = {}
    /\ announced' = [i \in Ids |-> IF i \in loop.sensors THEN now ELSE announced[i]]
    /\ missed' = [i \in Ids |-> IF i \in loop.sensors THEN 0 ELSE missed[i]]
    /\ loop' = Waiting
    /\ UNCHANGED <<now, cache, sync, tick>>

\* It fails: the error is logged and the ids stay marked as announced.
StartFails ==
    /\ loop.pc = "range" /\ loop.todo = {} /\ loop.sensors # {}
    /\ \A i \in loop.sensors : missed[i] < MaxMissed
    /\ missed' = [i \in Ids |-> IF i \in loop.sensors THEN missed[i] + 1 ELSE missed[i]]
    /\ loop' = Waiting
    /\ UNCHANGED <<now, cache, sync, tick, announced>>

Start ==
    \/ StartTick
    \/ \E i \in Ids : StartSkip(i) \/ StartDue(i) \/ StartIdle(i)
    \/ StartDelete \/ StartAnnounced \/ StartFails

Next == Clock \/ Start \/ \E i \in Ids : Sync(i)

Spec == Init /\ [][Next]_vars

-----------------------------------------------------------------------------
(* Properties.                                                             *)

\* Every cached id, the ones for which Sync answers nil without asking, is
\* known to the gossip store, and was accepted by it at most two periods ago;
\* each batch that failed since costs two more, because a failed batch counts
\* as announced and the next tick finds its ids not yet old enough
\* (server.go:63-78, 87-92).
CachedIsAnnounced ==
    \A i \in Ids : cache[i] # None =>
        /\ announced[i] # None
        /\ now - announced[i] <= 2 * (missed[i] + 1) * MaxTime + Lag

\* A cached id had a package within Idle seconds, a period and the time its
\* tick takes: ids without packages are forgotten although Sync may renew
\* lastPkg between the idle check and the Delete (server.go:63-65, 90).
IdleIsForgotten ==
    \A i \in Ids : cache[i] # None =>
        now - cache[i].lastPkg <= MaxTime + Idle + Lag
=============================================================================
