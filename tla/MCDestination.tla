---------------------------- MODULE MCDestination ----------------------------
(* Two services, so that a topic can be the wrong one; two handlers and a  *)
(* flusher, so that /connect falls between any two of their steps.         *)
EXTENDS Destination, TLC

NoFaults == {}
AllFaults == FaultKinds
Symmetry == Permutations(Services) \cup Permutations(Chats)
            \cup Permutations(Requests) \cup Permutations(Flushers)
=============================================================================
