\* Crashes and failing writes anywhere.  All events may be shown or lost, so
\* the system may stop.
SPECIFICATION FairGatewaySpec
CONSTANTS
  e1 = e1
  e2 = e2
  k1 = k1
  Events <- MCEvents
  Keys = {k1}
  KeyOf <- MCKeyOf
  Workers = {w1, w2}
  Cap = 2
  NoBatch = NoBatch
  MaxRows = 2
  QueueCap = 1
  MaxAttempts = 3
  TokenCap = 1
  RetryMax = 1
  Faults <- MCFaults
INVARIANT OneMessagePerCause
PROPERTIES EventuallySettled ImplementsMessageSpec
CHECK_DEADLOCK FALSE
