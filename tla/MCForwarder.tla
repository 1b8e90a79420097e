---------------------------- MODULE MCForwarder ----------------------------
(* The instances of Forwarder that TLC checks: symmetry and bounds. *)
EXTENDS Forwarder, TLC

\* Nothing in Forwarder orders or singles out an element of these sets.
Symmetry == Permutations(Keys) \cup Permutations(Conns) \cup Permutations(Streams)
                \cup Permutations(Callers)

\* Bound: explore only what happens before shutdown is requested.
BeforeShutdown == stop.pc = "idle"
=============================================================================
