-------------------------------- MODULE Mask --------------------------------
(***************************************************************************)
(* The masks, on words of W bits: which goroutine counts New accepts       *)
(* (simulate/server.go), the index under which ToHandle finds a package's  *)
(* channel (simulate/handle.go), the key under which Write finds its Conn  *)
(* and the key it sends (grpc/server.go).  This is what lets the other     *)
(* modules say that a pool key has a single writer.  Definitions marked    *)
(* "Bug" are wrong variants; no specification uses them.                   *)
(***************************************************************************)
EXTENDS Integers

CONSTANTS
    W,     \* bits of a word, 64 in the program
    Sent   \* bits of an id that are sent, 48 in the program

ASSUME WidthAssumption == W \in Nat /\ Sent \in 1..(W - 1)

VARIABLES
    server, \* "none", "running", or "refused" by New
    count,  \* config.GoroutineCount, a signed word given by its bit pattern
    mask,   \* grpc.Server.mask
    pkg,    \* the package being handled: id, index, pool key, key sent
    prev    \* the one before it

vars == <<server, count, mask, pkg, prev>>

Pow2[n \in Nat] == IF n = 0 THEN 1 ELSE 2 * Pow2[n - 1]

Words == 0..(Pow2[W] - 1)

\* The bitwise and of the last n bits of x and y, and of two words.
AndBits[n \in Nat] == [x \in Nat |-> [y \in Nat |->
    IF n = 0 THEN 0 ELSE (x % 2) * (y % 2) + 2 * AndBits[n - 1][x \div 2][y \div 2]]]
BitAnd(x, y) == AndBits[W][x][y]

\* A signed word is positive, and w - 1, which wraps around.
Positive(w) == w \in 1..(Pow2[W - 1] - 1)
Minus1(w) == (w + Pow2[W] - 1) % Pow2[W]

Package(id, index, key) == [id |-> id, index |-> index, key |-> key, sent |-> id % Pow2[Sent]]

\* The type invariant.
TypeOK ==
    /\ server \in {"none", "running", "refused"}
    /\ count \in Words /\ mask \in Words
    /\ \A p \in {pkg, prev} : p.id \in Words /\ p.index \in Words /\ p.key \in Words

Init ==
    /\ server = "none" /\ count \in Words /\ mask = 0
    /\ pkg = Package(0, 0, 0) /\ prev = pkg

\* Bug: any positive count is accepted.
AcceptsPositive(w) == Positive(w)

Accepts(w) == Positive(w) /\ BitAnd(w, Minus1(w)) = 0

\* New sets the mask of the grpc service, or returns an error.
New ==
    /\ server = "none" /\ Accepts(count)
    /\ server' = "running"
    /\ mask' = Minus1(count)
    /\ UNCHANGED <<count, pkg, prev>>

NewRefuses ==
    /\ server = "none" /\ ~Accepts(count)
    /\ server' = "refused"
    /\ UNCHANGED <<count, mask, pkg, prev>>

\* Bug: the count is used as the mask.
IndexUnmasked(id) == BitAnd(id, count)

Index(id) == BitAnd(id, Minus1(count))

\* Bug: the pool is keyed by the id that is sent.
PoolKeySent(id) == id % Pow2[Sent]

\* Bug: the mask is added.
PoolKeyAdded(id) == id + mask

PoolKey(id) == BitAnd(id, mask)

\* A package of id goes through ToHandle and Write.
Handle(id) ==
    /\ server = "running"
    /\ pkg' = Package(id, Index(id), PoolKey(id))
    /\ prev' = pkg
    /\ UNCHANGED <<server, count, mask>>

Next == New \/ NewRefuses \/ \E id \in Words : Handle(id)

Spec == Init /\ [][Next]_vars

-----------------------------------------------------------------------------
(* Properties.                                                             *)

\* New accepts a positive power of two and nothing else, on every bit pattern
\* of the count, the negative ones and zero included (simulate/server.go:50-51).
AcceptsPowersOfTwo ==
    /\ server = "running" => \E n \in 0..(W - 2) : count = Pow2[n]
    /\ server = "refused" => \A n \in 0..(W - 2) : count # Pow2[n]

\* Ids spread over exactly count indices, by remainder (handle.go:75).
IndexIsRemainder == server = "running" => pkg.index = pkg.id % count

\* Two packages with the same pool key have the same index, so the same worker:
\* a Conn has a single writer (handle.go:75, grpc/server.go:191).
KeyHasOneWorker == pkg.key = prev.key => pkg.index = prev.index

\* Frames sent under the same key come from the same worker, and so in order,
\* although the key drops the high bits of the id (handle.go:75,
\* grpc/server.go:234-238), for counts no larger than the keys that are sent.
SentKeyHasOneWorker ==
    count <= Pow2[Sent] /\ pkg.sent = prev.sent => pkg.index = prev.index
=============================================================================
