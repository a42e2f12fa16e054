------------------------------- MODULE MCIngest -------------------------------
(* Two events that count, one the catalog drops, and two handlers, so that *)
(* the same event is posted twice at once.                                 *)
EXTENDS Ingest, TLC

CONSTANTS e1, e2, e3

MCEvents == {e1, e2, e3}
MCDropped == {e3}
MCPatience == [e \in MCEvents |-> IF e = e3 THEN 1 ELSE 2]

TwoEvents == {e1, e2}
NoneDropped == {}
Twice == [e \in TwoEvents |-> 2]

AllFaults == FaultKinds
HangupOnly == {"hangup"}
CrashOnly == {"crash"}
Symmetry == Permutations(Handlers) \cup Permutations({e1, e2})
=============================================================================
