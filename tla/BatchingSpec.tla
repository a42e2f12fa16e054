---------------------------- MODULE BatchingSpec ----------------------------
(***************************************************************************)
(* What the coalescer promises its callers, without windows, timers or     *)
(* locks: an accepted event waits until it is emitted together with other  *)
(* waiting events of its key, in a batch no larger than allowed, and once  *)
(* emitted it never waits again.                                           *)
(***************************************************************************)
CONSTANTS Events,   \* the events handed to the coalescer
          KeyOf,    \* the (user, service, type) key of each event
          Batches   \* the sets of events small enough for one batch

VARIABLES waiting,  \* accepted, not yet emitted
          out       \* emitted at least once

vars == <<waiting, out>>

Init == waiting = {} /\ out = {}

Accept(e) ==
  /\ e \notin waiting \cup out
  /\ waiting' = waiting \cup {e}
  /\ UNCHANGED out

Emit(S) ==
  /\ S # {}
  /\ \A d, e \in S : KeyOf[d] = KeyOf[e]
  /\ S \in Batches
  /\ waiting' = waiting \ S
  /\ out' = out \cup S

Next == \/ \E e \in Events : Accept(e)
        \/ \E S \in SUBSET waiting : Emit(S)

Spec == Init /\ [][Next]_vars
=============================================================================
