------------------------------ MODULE MCLinking ------------------------------
(* Two users who want the same identity, two handlers, two codes.          *)
EXTENDS Linking, TLC

Symmetry == Permutations(Users) \cup Permutations(Codes) \cup Permutations(Requests)
=============================================================================
