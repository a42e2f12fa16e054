-------------------------------- MODULE MCMenu --------------------------------
(* Two types and two handlers, so two taps of the same or of different     *)
(* types overlap, each with a drawing of the keyboard.                     *)
EXTENDS Menu, TLC

Symmetry == Permutations(Types) \cup Permutations(Handlers)
=============================================================================
