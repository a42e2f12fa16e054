------------------------------ MODULE MessageSpec ------------------------------
(***************************************************************************)
(* What the way from Coalescer.Add to Telegram promises, without timers,   *)
(* rows, queues or retries: an accepted event waits, until it is shown in  *)
(* a message with other waiting events of its key, or lost.  No event is   *)
(* ever in two different messages and what was lost is not shown later;    *)
(* how often the same message is posted is not promised (a repetition is a *)
(* stuttering step).                                                       *)
(***************************************************************************)
EXTENDS Naturals

CONSTANTS Events, KeyOf,
          Batches  \* the sets of events small enough for one message

VARIABLES accepted, \* events that reached Add
          waiting,  \* those that are neither shown nor lost
          group     \* the events each was shown with, {} if it was not

vars == <<accepted, waiting, group>>

Init ==
  /\ accepted = {} /\ waiting = {}
  /\ group = [e \in Events |-> {}]

Accept(e) ==
  /\ e \notin accepted
  /\ accepted' = accepted \cup {e}
  /\ waiting' = waiting \cup {e}
  /\ UNCHANGED group

Show(S) ==
  /\ S # {} /\ S \in Batches
  /\ \A d, e \in S : KeyOf[d] = KeyOf[e]
  /\ waiting' = waiting \ S
  /\ group' = [e \in Events |-> IF e \in S THEN S ELSE group[e]]
  /\ UNCHANGED accepted

Lose(S) ==
  /\ waiting' = waiting \ S
  /\ UNCHANGED <<accepted, group>>

Next ==
  \/ \E e \in Events : Accept(e)
  \/ \E S \in SUBSET waiting : Show(S) \/ Lose(S)

Spec == Init /\ [][Next]_vars
=============================================================================
