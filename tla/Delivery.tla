------------------------------ MODULE Delivery ------------------------------
(***************************************************************************)
(* What the dispatcher promises, with no channels and goroutines in sight: *)
(* the packages of all sensors of a lane wait in one line, which is served *)
(* from the front; the package in front is delivered or dropped; and the   *)
(* one source of packages stops, for every sensor, while any lane is full. *)
(* Dispatcher implements this (ImplementsDelivery there).                  *)
(***************************************************************************)
EXTENDS Integers, Sequences

CONSTANTS
    Ids,      \* sensor ids
    Lanes,
    Lane,     \* the lane of each id
    Capacity  \* packages of a lane at which the source stops

VARIABLES
    made,     \* per id the number of packages made
    pending,  \* per lane the packages that are neither delivered nor dropped
    written   \* per id the seq of the last package delivered

vars == <<made, pending, written>>

Init ==
    /\ made = [i \in Ids |-> 0]
    /\ pending = [x \in Lanes |-> <<>>]
    /\ written = [i \in Ids |-> 0]

Produce(i) ==
    /\ \A x \in Lanes : Len(pending[x]) < Capacity
    /\ made' = [made EXCEPT ![i] = @ + 1]
    /\ pending' = [pending EXCEPT ![Lane[i]] = Append(@, [id |-> i, seq |-> made[i] + 1])]
    /\ UNCHANGED written

Remove(x) ==
    /\ pending[x] # <<>>
    /\ pending' = [pending EXCEPT ![x] = Tail(@)]
    /\ UNCHANGED made

Deliver(x) ==
    /\ Remove(x)
    /\ written' = [written EXCEPT ![Head(pending[x]).id] = Head(pending[x]).seq]

Drop(x) == Remove(x) /\ UNCHANGED written

Next ==
    \/ \E i \in Ids : Produce(i)
    \/ \E x \in Lanes : Deliver(x) \/ Drop(x)

Spec == Init /\ [][Next]_vars
=============================================================================
