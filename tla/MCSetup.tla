------------------------------- MODULE MCSetup -------------------------------
(* Two users, two groups and two codes, one of which is drawn twice.       *)
EXTENDS Setup, TLC

Symmetry == Permutations(Users) \cup Permutations(Groups)
              \cup Permutations(Codes) \cup Permutations(Updates)
=============================================================================
