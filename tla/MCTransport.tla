----------------------------- MODULE MCTransport -----------------------------
(* Three deliveries, so that the loop works on one while others queue and  *)
(* flush; three attempts, so that a retry is neither the first nor the     *)
(* last.                                                                   *)
EXTENDS Transport

NoFaults == {}
AllFaults == FaultKinds
RetryOnly == {"retry"}
StopOnly == {"stop"}
CrashOnly == {"crash"}
=============================================================================
