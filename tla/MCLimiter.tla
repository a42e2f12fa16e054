------------------------------ MODULE MCLimiter ------------------------------
(* A burst window of 2 in 1 and a rate window of 3 in 3, so that either    *)
(* refuses while the other does not, and the rings turn over.              *)
EXTENDS Limiter, TLC

MCSize == [w \in Windows |-> IF w = "burst" THEN 1 ELSE 3]
MCCap == [w \in Windows |-> IF w = "burst" THEN 2 ELSE 3]

Symmetry == Permutations(Requests)
=============================================================================
