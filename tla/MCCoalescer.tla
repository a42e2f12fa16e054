---------------------------- MODULE MCCoalescer ----------------------------
(* Four events of one key and one of another, so that a key's second      *)
(* window can open while its first is being flushed.                       *)
EXTENDS Coalescer, TLC

CONSTANTS e1, e2, e3, e4, e5, k1, k2

MCEvents == {e1, e2, e3, e4, e5}
MCKeys == {k1, k2}
MCKeyOf == [e \in MCEvents |-> IF e = e5 THEN k2 ELSE k1]
WorkerSymmetry == Permutations(Workers)

(* Events of one key are interchangeable. *)
Symmetry == WorkerSymmetry \cup Permutations({e1, e2, e3, e4})
=============================================================================
