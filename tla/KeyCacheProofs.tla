--------------------------- MODULE KeyCacheProofs ---------------------------
(***************************************************************************)
(* The invariants of KeyCache for any ids, periods, idle times, lags and   *)
(* bounds of the clock.                                                    *)
(***************************************************************************)
EXTENDS KeyCache, TLAPS

\* When the tick in hand fired, or the last one.
Fired == tick - MaxTime

\* The loop has seen that the id is idle and is about to delete it.
Doomed(i) == loop.pc = "delete" /\ i = loop.key

\* The firing of the tick that will look at the id next, or looks at it now.
NextVisit(i) == IF i \in loop.todo \/ Doomed(i) THEN Fired ELSE tick

\* What CachedIsAnnounced allows, without the lag.
Window(i) == 2 * (missed[i] + 1) * MaxTime

\* Ticks and Syncs are handled in time.
Timely ==
    /\ 0 <= Fired /\ Fired <= now
    /\ IF loop.pc = "wait" THEN now <= tick + Lag
       ELSE Fired <= loop.cur /\ loop.cur <= now /\ now <= Fired + Lag
    /\ \A i \in Ids : sync[i] # None => cache[i] = None /\ sync[i] <= now /\ now <= sync[i] + Lag
    /\ \A i \in Ids : cache[i] # None => cache[i].last <= now

\* What the loop has done with the ids it visited.
Visited ==
    /\ loop.pc = "wait" => loop.todo = {} /\ loop.sensors = {}
    /\ loop.todo \cap loop.sensors = {}
    /\ loop.pc = "delete" => loop.key \in Ids \ (loop.todo \cup loop.sensors)
    /\ \A i \in loop.sensors : cache[i] # None /\ cache[i].last = loop.cur

\* A cached id is announced, and recently enough for the first visit that must
\* find it due: the next, the one after it, or the third.
Fresh(i) ==
    /\ announced[i] # None
    /\ announced[i] >= (IF i \in loop.sensors THEN Fired ELSE NextVisit(i)) - Window(i)
    /\ i \notin loop.sensors /\ ~Doomed(i) =>
          /\ cache[i].last >= NextVisit(i) - MaxTime =>
                announced[i] >= NextVisit(i) + MaxTime - Window(i)
          /\ cache[i].last >= NextVisit(i) =>
                announced[i] >= NextVisit(i) + 2 * MaxTime - Window(i)
    /\ cache[i].lastPkg >= NextVisit(i) - MaxTime - Idle

\* The inductive invariant.
KInv == TypeOK /\ Timely /\ Visited /\ \A i \in Ids : cache[i] # None => Fresh(i)

-----------------------------------------------------------------------------
(* Arithmetic.                                                             *)

LEMMA Constants == MaxTime \in Nat /\ Idle \in Nat /\ Lag \in Nat /\ MaxNow \in Nat
                   /\ MaxMissed \in Nat /\ Lag <= Idle /\ Idle < MaxTime /\ None \notin Int
BY TimeAssumption

LEMMA NoEntry == None \notin Entry
BY TimeAssumption DEF Entry, Time

\* A failed batch adds two periods, an announcement starts again from two.
LEMMA Windows ==
  ASSUME NEW m \in Nat
  PROVE  /\ 2 * (m + 1) * MaxTime \in Nat
         /\ 2 * (0 + 1) * MaxTime = 2 * MaxTime
         /\ 2 * ((m + 1) + 1) * MaxTime = 2 * (m + 1) * MaxTime + 2 * MaxTime
BY Constants

\* The types of what the steps compare.
LEMMA ClockTypes ==
  ASSUME TypeOK
  PROVE  now \in Nat /\ tick \in Nat /\ loop.cur \in Nat /\ Fired \in Int
BY Constants DEF TypeOK, Time, Fired

LEMMA Types ==
  ASSUME TypeOK, NEW i \in Ids
  PROVE  /\ now \in Nat /\ tick \in Nat /\ loop.cur \in Nat /\ missed[i] \in Nat
         /\ Fired \in Int /\ NextVisit(i) \in Int /\ Window(i) \in Nat
         /\ sync[i] # None => sync[i] \in Nat
         /\ announced[i] # None => announced[i] \in Nat
         /\ cache[i] # None => cache[i] \in Entry /\ cache[i].last \in Nat /\ cache[i].lastPkg \in Nat
<1>1. missed[i] \in Nat /\ now \in Nat /\ tick \in Nat /\ loop.cur \in Nat
  BY Constants DEF TypeOK, Time
<1>2. Window(i) \in Nat BY <1>1, Windows DEF Window
<1>3. Fired \in Int /\ NextVisit(i) \in Int BY <1>1, Constants DEF Fired, NextVisit
<1> QED BY <1>1, <1>2, <1>3, Constants DEF TypeOK, Time, Entry

\* The next visit is not long ago, and not more than a period ahead.
LEMMA Visits1 ==
  ASSUME TypeOK, Timely, Visited, NEW i \in Ids
  PROVE  now <= NextVisit(i) + Lag /\ NextVisit(i) <= now + MaxTime
BY Types, Constants DEF Timely, Visited, NextVisit, Doomed, Fired

-----------------------------------------------------------------------------
LEMMA InitKInv == Init => KInv
<1> SUFFICES ASSUME Init PROVE KInv OBVIOUS
<1>1. TypeOK BY Constants DEF Init, TypeOK, Time, Waiting
<1>2. Timely BY Constants DEF Init, Timely, Waiting, Fired
<1>3. Visited BY DEF Init, Visited, Waiting
<1> QED BY <1>1, <1>2, <1>3 DEF Init, KInv

LEMMA ClockKeeps == ASSUME KInv, Clock PROVE KInv'
<1> USE Constants DEF KInv, Clock
<1>1. TypeOK' BY DEF TypeOK, Time
<1>2. Timely' BY Types DEF Timely, Fired, TypeOK, Time
<1>3. Visited' BY DEF Visited
<1>4. \A i \in Ids : cache'[i] # None => Fresh(i)' BY DEF Fresh, NextVisit, Doomed, Fired, Window
<1> QED BY <1>1, <1>2, <1>3, <1>4

\* Sync: a new entry was announced no earlier than its creation time.
LEMMA SyncKeeps == ASSUME KInv, NEW i \in Ids, Sync(i) PROVE KInv'
<1> USE Constants DEF KInv
<1>1. CASE SyncHit(i)
  <2>0. cache[i] \in Entry /\ now \in Time BY <1>1 DEF SyncHit, TypeOK
  <2>1. /\ cache' = [cache EXCEPT ![i] = [last |-> cache[i].last, lastPkg |-> now]]
        /\ [last |-> cache[i].last, lastPkg |-> now] \in Entry
    <3>1. [cache[i] EXCEPT !.lastPkg = now] = [last |-> cache[i].last, lastPkg |-> now]
      BY <2>0 DEF Entry
    <3>2. cache' = [cache EXCEPT ![i] = [cache[i] EXCEPT !.lastPkg = now]]
      BY <1>1 DEF SyncHit
    <3> QED BY <2>0, <3>1, <3>2 DEF Entry
  <2>2. /\ cache'[i].last = cache[i].last /\ cache'[i].lastPkg = now
        /\ cache'[i] # None /\ cache[i] # None /\ sync[i] = None
        /\ \A j \in Ids : j # i => cache'[j] = cache[j]
        /\ UNCHANGED <<now, sync, tick, loop, announced, missed>>
    BY <1>1, <2>1, NoEntry DEF SyncHit, TypeOK
  <2>9. TypeOK' BY <2>1, <2>2 DEF TypeOK
  <2>3. Timely' BY <2>2 DEF Timely, Fired
  <2>4. Visited' BY <2>2 DEF Visited, TypeOK
  <2>5. ASSUME NEW j \in Ids, cache'[j] # None PROVE Fresh(j)'
    <3>1. CASE j = i
      <4>1. now >= NextVisit(i) - MaxTime - Idle BY Visits1, Types
      <4> QED BY <2>2, <3>1, <4>1 DEF Fresh, NextVisit, Doomed, Fired, Window
    <3>2. CASE j # i BY <2>2, <2>5, <3>2 DEF Fresh, NextVisit, Doomed, Fired, Window
    <3> QED BY <3>1, <3>2
  <2> QED BY <2>3, <2>4, <2>5, <2>9
<1>2. CASE SyncMiss(i)
  <2>1. TypeOK' BY <1>2 DEF SyncMiss, TypeOK
  <2>2. Timely' BY <1>2, Types DEF SyncMiss, Timely, Fired, TypeOK
  <2>3. Visited' BY <1>2 DEF SyncMiss, Visited
  <2>4. \A j \in Ids : cache'[j] # None => Fresh(j)'
    BY <1>2 DEF SyncMiss, Fresh, NextVisit, Doomed, Fired, Window
  <2> QED BY <2>1, <2>2, <2>3, <2>4
<1>3. CASE SyncAnnounced(i)
  <2>1. sync[i] \in Time /\ [last |-> sync[i], lastPkg |-> sync[i]] \in Entry /\ now \in Time
    BY <1>3 DEF SyncAnnounced, TypeOK, Entry
  <2>2. /\ cache' \in [Ids -> Entry \cup {None}] /\ sync' \in [Ids -> Time \cup {None}]
        /\ announced' \in [Ids -> Time \cup {None}] /\ missed' \in [Ids -> 0..MaxMissed]
    BY <1>3, <2>1 DEF SyncAnnounced, TypeOK
  <2>3. TypeOK' BY <1>3, <2>2 DEF SyncAnnounced, TypeOK
  <2>4. /\ cache'[i].last = sync[i] /\ cache'[i].lastPkg = sync[i] /\ announced'[i] = now
        /\ missed'[i] = 0 /\ sync'[i] = None /\ cache[i] = None
        /\ sync[i] \in Nat /\ sync[i] <= now /\ now <= sync[i] + Lag
        /\ \A j \in Ids : j # i => /\ cache'[j] = cache[j] /\ announced'[j] = announced[j]
                                   /\ missed'[j] = missed[j] /\ sync'[j] = sync[j]
        /\ UNCHANGED <<now, tick, loop>>
    BY <1>3, Types DEF SyncAnnounced, TypeOK, Timely
  <2>5. Timely' BY <2>4 DEF Timely, Fired
  <2>6. Visited' /\ i \notin loop.sensors BY <2>4 DEF Visited, TypeOK
  <2>7. Fresh(i)'
    <3>1. /\ now <= NextVisit(i) + Lag /\ NextVisit(i) <= now + MaxTime
          /\ now \in Nat /\ NextVisit(i) \in Int
      BY Visits1, Types
    <3>2. NextVisit(i)' = NextVisit(i) /\ Window(i)' = 2 * MaxTime
      BY <2>4, Windows DEF NextVisit, Doomed, Fired, Window
    <3>3. now \notin {None} BY <3>1
    <3> QED BY <2>4, <2>6, <3>1, <3>2, <3>3 DEF Fresh
  <2>8. \A j \in Ids : j # i /\ cache'[j] # None => Fresh(j)'
    BY <2>4 DEF Fresh, NextVisit, Doomed, Fired, Window
  <2> QED BY <2>3, <2>5, <2>6, <2>7, <2>8
<1>4. CASE SyncFails(i)
  <2>1. TypeOK' BY <1>4 DEF SyncFails, TypeOK
  <2>2. Timely' BY <1>4 DEF SyncFails, Timely, Fired, TypeOK
  <2>3. Visited' BY <1>4 DEF SyncFails, Visited
  <2>4. \A j \in Ids : cache'[j] # None => Fresh(j)'
    BY <1>4 DEF SyncFails, Fresh, NextVisit, Doomed, Fired, Window
  <2> QED BY <2>1, <2>2, <2>3, <2>4
<1> QED BY <1>1, <1>2, <1>3, <1>4 DEF Sync

-----------------------------------------------------------------------------
LEMMA StartTickKeeps == ASSUME KInv, StartTick PROVE KInv'
<1> USE Constants DEF KInv
<1>1. PICK ids \in SUBSET Ids :
        /\ {i \in Ids : cache[i] # None} \subseteq ids
        /\ loop' = [Waiting EXCEPT !.pc = "range", !.cur = now, !.todo = ids]
  BY DEF StartTick
<1>2. /\ loop' = [pc |-> "range", cur |-> now, todo |-> ids, sensors |-> {}, key |-> None]
      /\ loop.pc = "wait" /\ now >= tick /\ tick' = tick + MaxTime
      /\ UNCHANGED <<now, cache, sync, announced, missed>>
  BY <1>1 DEF StartTick, Waiting
<1>3. TypeOK' BY <1>2 DEF TypeOK
<1>4. Timely' BY <1>2, Types DEF Timely, Fired, TypeOK, Time
<1>5. Visited' BY <1>2 DEF Visited
<1>6. ASSUME NEW i \in Ids, cache'[i] # None PROVE Fresh(i)'
  <2>1. i \in ids /\ i \notin loop.sensors /\ ~Doomed(i) /\ NextVisit(i) = tick /\ tick \in Nat
    BY <1>1, <1>2, <1>6, Types DEF Visited, NextVisit, Doomed
  <2>2. NextVisit(i)' = NextVisit(i) /\ ~Doomed(i)' /\ Window(i)' = Window(i)
    BY <1>2, <2>1 DEF NextVisit, Doomed, Fired, Window
  <2> QED BY <1>2, <1>6, <2>1, <2>2 DEF Fresh
<1> QED BY <1>3, <1>4, <1>5, <1>6

\* The visit of an id that is neither idle nor due.
LEMMA SkipKeeps == ASSUME KInv, NEW i \in Ids, StartSkip(i) PROVE KInv'
<1> USE Constants DEF KInv
<1>1. /\ loop' = [loop EXCEPT !.todo = @ \ {i}] /\ i \in loop.todo /\ loop.pc = "range"
      /\ cache[i] # None => ~IsIdle(i) /\ ~IsDue(i)
      /\ UNCHANGED <<now, cache, sync, tick, announced, missed>>
  BY DEF StartSkip, Visits
<1>2. TypeOK' BY <1>1 DEF TypeOK
<1>3. Timely' BY <1>1 DEF Timely, Fired, TypeOK
<1>4. Visited' BY <1>1 DEF Visited, TypeOK
<1>5. ASSUME NEW j \in Ids, cache'[j] # None PROVE Fresh(j)'
  <2>1. CASE j # i
    BY <1>1, <1>5, <2>1 DEF Fresh, NextVisit, Doomed, Fired, Window, TypeOK
  <2>2. CASE j = i
    <3>1. /\ NextVisit(i) = Fired /\ NextVisit(i)' = Fired + MaxTime /\ Window(i)' = Window(i)
          /\ i \notin loop.sensors /\ i \notin loop'.sensors /\ ~Doomed(i)
          /\ Fired \in Int /\ Window(i) \in Nat
      BY <1>1, Types DEF NextVisit, Doomed, Fired, Window, Visited, TypeOK
    <3>2. /\ cache[i].last \in Nat /\ cache[i].lastPkg \in Nat /\ loop.cur \in Nat /\ now \in Nat
          /\ loop.cur - cache[i].lastPkg <= Idle /\ loop.cur - cache[i].last <= MaxTime
          /\ Fired <= loop.cur /\ now <= Fired + Lag /\ cache[i].last <= now
          /\ announced[i] \in Nat /\ Fresh(i)
      BY <1>1, <1>5, <2>2, Types DEF IsIdle, IsDue, Timely, Fresh
    <3>3. cache[i].last >= Fired - MaxTime /\ cache[i].last < Fired + MaxTime
          /\ cache[i].lastPkg >= Fired - Idle
      BY <3>1, <3>2
    <3>4. announced[i] >= Fired + MaxTime - Window(i)
          /\ (cache[i].last >= Fired => announced[i] >= Fired + 2 * MaxTime - Window(i))
      BY <3>1, <3>2, <3>3 DEF Fresh
    <3> QED BY <1>1, <2>2, <3>1, <3>2, <3>3, <3>4 DEF Fresh
  <2> QED BY <2>1, <2>2
<1> QED BY <1>2, <1>3, <1>4, <1>5

\* The visit of an id that is due and not idle.
LEMMA DueKeeps == ASSUME KInv, NEW i \in Ids, StartDue(i) PROVE KInv'
<1> USE Constants DEF KInv
<1>0. cache[i] \in Entry /\ loop.cur \in Time BY DEF StartDue, TypeOK
<1>9. cache' = [cache EXCEPT ![i] = [last |-> loop.cur, lastPkg |-> cache[i].lastPkg]]
  <2>1. [cache[i] EXCEPT !.last = loop.cur] = [last |-> loop.cur, lastPkg |-> cache[i].lastPkg]
    BY <1>0 DEF Entry
  <2>2. cache' = [cache EXCEPT ![i] = [cache[i] EXCEPT !.last = loop.cur]] BY DEF StartDue
  <2> QED BY <2>1, <2>2
<1>1. /\ loop' = [loop EXCEPT !.todo = @ \ {i}, !.sensors = @ \cup {i}]
      /\ i \in loop.todo /\ loop.pc = "range"
      /\ cache' = [cache EXCEPT ![i] = [last |-> loop.cur, lastPkg |-> cache[i].lastPkg]]
      /\ [last |-> loop.cur, lastPkg |-> cache[i].lastPkg] \in Entry
      /\ cache[i] # None /\ ~IsIdle(i)
      /\ UNCHANGED <<now, sync, tick, announced, missed>>
  BY <1>0, <1>9 DEF StartDue, Visits, Entry
<1>2. /\ cache'[i] # None /\ cache'[i].last = loop.cur /\ cache'[i].lastPkg = cache[i].lastPkg
      /\ \A j \in Ids : j # i => cache'[j] = cache[j]
  BY <1>1, NoEntry DEF TypeOK
<1>3. TypeOK' BY <1>1 DEF TypeOK
<1>4. Timely' BY <1>1, <1>2 DEF Timely, Fired, TypeOK
<1>5. Visited' BY <1>1, <1>2 DEF Visited, TypeOK
<1>6. ASSUME NEW j \in Ids, cache'[j] # None PROVE Fresh(j)'
  <2>1. CASE j # i
    BY <1>1, <1>2, <1>6, <2>1 DEF Fresh, NextVisit, Doomed, Fired, Window, TypeOK
  <2>2. CASE j = i
    <3>1. /\ NextVisit(i) = Fired /\ NextVisit(i)' = Fired + MaxTime /\ Window(i)' = Window(i)
          /\ i \notin loop.sensors /\ i \in loop'.sensors /\ Fired' = Fired
          /\ Fired \in Int /\ Window(i) \in Nat
      BY <1>1, Types DEF NextVisit, Doomed, Fired, Window, Visited, TypeOK
    <3>2. cache[i].lastPkg >= Fired - Idle
      BY <1>1, <3>1, Types DEF IsIdle, Timely
    <3> QED BY <1>1, <1>2, <2>2, <3>1, <3>2, Types DEF Fresh
  <2> QED BY <2>1, <2>2
<1> QED BY <1>3, <1>4, <1>5, <1>6

\* The visit of an idle id, and its deletion.
LEMMA IdleKeeps == ASSUME KInv, NEW i \in Ids, StartIdle(i) PROVE KInv'
<1> USE Constants DEF KInv
<1>1. /\ loop' = [loop EXCEPT !.pc = "delete", !.key = i, !.todo = @ \ {i}]
      /\ i \in loop.todo /\ loop.pc = "range"
      /\ UNCHANGED <<now, cache, sync, tick, announced, missed>>
  BY DEF StartIdle, Visits
<1>2. TypeOK' BY <1>1 DEF TypeOK
<1>3. Timely' BY <1>1 DEF Timely, Fired, TypeOK
<1>4. Visited' BY <1>1 DEF Visited, TypeOK
<1>5. \A j \in Ids : cache'[j] # None => Fresh(j)'
  BY <1>1 DEF Fresh, NextVisit, Doomed, Fired, Window, TypeOK, Visited
<1> QED BY <1>2, <1>3, <1>4, <1>5

LEMMA DeleteKeeps == ASSUME KInv, StartDelete PROVE KInv'
<1> USE Constants DEF KInv
<1>1. /\ loop.pc = "delete" /\ loop.key \in Ids \ (loop.todo \cup loop.sensors)
      /\ cache' = [cache EXCEPT ![loop.key] = None]
      /\ loop' = [loop EXCEPT !.pc = "range", !.key = None]
      /\ UNCHANGED <<now, sync, tick, announced, missed>>
  BY DEF StartDelete, Visited
<1>2. TypeOK' BY <1>1 DEF TypeOK
<1>3. Timely' BY <1>1 DEF Timely, Fired, TypeOK
<1>4. Visited' BY <1>1 DEF Visited, TypeOK
<1>5. \A j \in Ids : cache'[j] # None => Fresh(j)'
  BY <1>1 DEF Fresh, NextVisit, Doomed, Fired, Window, TypeOK
<1> QED BY <1>2, <1>3, <1>4, <1>5

\* The batch is accepted: its ids are as good as new.
LEMMA AnnouncedKeeps == ASSUME KInv, StartAnnounced PROVE KInv'
<1> USE Constants DEF KInv
<1>1. /\ loop.pc = "range" /\ loop.todo = {} /\ loop' = Waiting
      /\ \A i \in Ids : announced'[i] = (IF i \in loop.sensors THEN now ELSE announced[i])
      /\ \A i \in Ids : missed'[i] = (IF i \in loop.sensors THEN 0 ELSE missed[i])
      /\ UNCHANGED <<now, cache, sync, tick>>
  BY DEF StartAnnounced
<1>2. TypeOK'
  <2>1. announced' \in [Ids -> Time \cup {None}] BY DEF StartAnnounced, TypeOK
  <2>2. missed' \in [Ids -> 0..MaxMissed] BY DEF StartAnnounced, TypeOK
  <2>3. loop' \in [pc : {"wait", "range", "delete"}, cur : Time, todo : SUBSET Ids,
                   sensors : SUBSET Ids, key : Ids \cup {None}]
    BY <1>1 DEF Waiting, Time
  <2> QED BY <1>1, <2>1, <2>2, <2>3 DEF TypeOK
<1>3. Timely' BY <1>1, ClockTypes DEF Timely, Fired, Waiting
<1>4. Visited' BY <1>1 DEF Visited, Waiting
<1>5. ASSUME NEW i \in Ids, cache'[i] # None PROVE Fresh(i)'
  <2>1. /\ NextVisit(i)' = tick /\ NextVisit(i) = tick /\ ~Doomed(i) /\ i \notin loop'.sensors
    BY <1>1 DEF NextVisit, Doomed, Waiting
  <2>2. CASE i \notin loop.sensors
    BY <1>1, <1>5, <2>1, <2>2 DEF Fresh, Window, Fired
  <2>3. CASE i \in loop.sensors
    <3>1. Window(i)' = 2 * MaxTime /\ announced'[i] = now
      BY <1>1, <2>3, Windows DEF Window
    <3>2. /\ now >= tick - MaxTime /\ now <= tick - MaxTime + Lag /\ now \in Nat /\ tick \in Nat
          /\ cache[i].last <= now /\ cache[i].last \in Nat
      BY <1>1, <1>5, Types DEF Timely, Fired
    <3>3. now # None BY <3>2
    <3> QED BY <1>1, <1>5, <2>1, <3>1, <3>2, <3>3 DEF Fresh
  <2> QED BY <2>2, <2>3
<1> QED BY <1>2, <1>3, <1>4, <1>5

\* The batch fails: its ids count as announced, and wait two more periods.
LEMMA FailsKeeps == ASSUME KInv, StartFails PROVE KInv'
<1> USE Constants DEF KInv
<1>1. /\ loop.pc = "range" /\ loop.todo = {} /\ loop' = Waiting
      /\ \A i \in Ids : missed'[i] = IF i \in loop.sensors THEN missed[i] + 1 ELSE missed[i]
      /\ UNCHANGED <<now, cache, sync, tick, announced>>
  BY DEF StartFails
<1>2. TypeOK'
  <2>1. missed' \in [Ids -> 0..MaxMissed]
    <3>1. \A i \in Ids : (IF i \in loop.sensors THEN missed[i] + 1 ELSE missed[i]) \in 0..MaxMissed
      BY DEF StartFails, TypeOK
    <3> QED BY <3>1 DEF StartFails
  <2>2. loop' \in [pc : {"wait", "range", "delete"}, cur : Time, todo : SUBSET Ids,
                   sensors : SUBSET Ids, key : Ids \cup {None}]
    BY <1>1 DEF Waiting, Time
  <2> QED BY <1>1, <2>1, <2>2 DEF TypeOK
<1>3. Timely' BY <1>1, ClockTypes DEF Timely, Fired, Waiting
<1>4. Visited' BY <1>1 DEF Visited, Waiting
<1>5. ASSUME NEW i \in Ids, cache'[i] # None PROVE Fresh(i)'
  <2>1. /\ NextVisit(i)' = tick /\ NextVisit(i) = tick /\ ~Doomed(i) /\ i \notin loop'.sensors
    BY <1>1 DEF NextVisit, Doomed, Waiting
  <2>2. CASE i \notin loop.sensors
    BY <1>1, <1>5, <2>1, <2>2 DEF Fresh, Window, Fired
  <2>3. CASE i \in loop.sensors
    <3>1. Window(i)' = Window(i) + 2 * MaxTime /\ Window(i) \in Nat
      BY <1>1, <2>3, Types, Windows DEF Window
    <3>2. /\ now <= tick - MaxTime + Lag /\ now \in Nat /\ tick \in Nat
          /\ cache[i].last <= now /\ cache[i].last \in Nat
          /\ announced[i] \in Nat /\ announced[i] >= tick - MaxTime - Window(i)
      BY <1>1, <1>5, <2>3, Types DEF Timely, Fired, Fresh
    <3> QED BY <1>1, <1>5, <2>1, <3>1, <3>2 DEF Fresh
  <2> QED BY <2>2, <2>3
<1> QED BY <1>2, <1>3, <1>4, <1>5

-----------------------------------------------------------------------------
\* The invariant behind the properties below.
THEOREM Inductive == Spec => []KInv
<1>1. ASSUME KInv, [Next]_vars PROVE KInv'
  <2>1. CASE UNCHANGED vars
    BY <1>1, <2>1 DEF vars, KInv, TypeOK, Timely, Visited, Fresh, NextVisit, Doomed, Fired, Window
  <2>2. CASE Start
    BY <1>1, <2>2, StartTickKeeps, SkipKeeps, DueKeeps, IdleKeeps, DeleteKeeps, AnnouncedKeeps,
       FailsKeeps DEF Start
  <2> QED BY <1>1, <2>1, <2>2, ClockKeeps, SyncKeeps DEF Next
<1> QED BY <1>1, InitKInv, PTL DEF Spec

\* Every variable keeps its type (goss/server.go).
THEOREM TypeCorrect == Spec => []TypeOK
<1>1. KInv => TypeOK BY DEF KInv
<1> QED BY <1>1, Inductive, PTL

\* What Sync does not announce was announced two periods ago at most, plus two
\* for each batch that failed since (server.go:63-78, 87-92).
THEOREM AnnouncedInTime == Spec => []CachedIsAnnounced
<1>1. ASSUME KInv PROVE CachedIsAnnounced
  <2>1. SUFFICES ASSUME NEW i \in Ids, cache[i] # None
                 PROVE  announced[i] # None /\ now - announced[i] <= Window(i) + Lag
    BY DEF CachedIsAnnounced, Window
  <2>2. /\ Fresh(i) /\ now \in Nat /\ NextVisit(i) \in Int /\ Window(i) \in Nat /\ Fired \in Int
        /\ announced[i] \in Nat /\ now <= NextVisit(i) + Lag
        /\ i \in loop.sensors => now <= Fired + Lag
    BY <1>1, <2>1, Types, Visits1 DEF KInv, Fresh, Timely, Visited
  <2> QED BY <2>2, Constants DEF Fresh
<1> QED BY <1>1, Inductive, PTL

\* Ids without packages are forgotten, although Sync may renew them between the
\* idle test and the Delete (server.go:63-65, 90).
THEOREM IdleForgotten == Spec => []IdleIsForgotten
<1>1. ASSUME KInv PROVE IdleIsForgotten
  <2>1. SUFFICES ASSUME NEW i \in Ids, cache[i] # None
                 PROVE  now - cache[i].lastPkg <= MaxTime + Idle + Lag
    BY DEF IdleIsForgotten
  <2>2. /\ Fresh(i) /\ now \in Nat /\ NextVisit(i) \in Int /\ cache[i].lastPkg \in Nat
        /\ now <= NextVisit(i) + Lag
    BY <1>1, <2>1, Types, Visits1 DEF KInv
  <2> QED BY <2>2, Constants DEF Fresh
<1> QED BY <1>1, Inductive, PTL
=============================================================================
