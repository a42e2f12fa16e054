------------------------------- MODULE MCGateway -------------------------------
(* Two events of one key, two handlers and a cap of two: a batch is flushed *)
(* by the cap, by its timer, or by both, or the second event opens a batch  *)
(* of its own while the first is on its way.  No more than two flushes can  *)
(* happen, so two rows bound nothing; three attempts let an answer be lost  *)
(* twice.  (Batches over the cap are MCCoalescer's.)                        *)
EXTENDS Gateway

CONSTANTS e1, e2, k1

MCEvents == {e1, e2}
MCKeyOf == [e \in MCEvents |-> k1]
MCFaults == {"crash", "write"}
=============================================================================
