SPECIFICATION FairSpec
CONSTANTS
  MaxRows = 3
  QueueCap = 3
  MaxAttempts = 3
  TokenCap = 2
  RetryMax = 1
  Faults <- NoFaults
INVARIANT PendingIsHeld
INVARIANT LeftIsRecorded
PROPERTY QueuedIsSettled
CHECK_DEADLOCK FALSE
