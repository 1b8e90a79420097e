------------------------------- MODULE MCMask -------------------------------
(* Mask's recursive functions against the operators they stand for.        *)
EXTENDS Mask, Bitwise

ASSUME Pow2IsPower == \A n \in 0..W : Pow2[n] = 2 ^ n

ASSUME AndIsBitwise == \A x, y \in Words : BitAnd(x, y) = x & y
=============================================================================
