SPECIFICATION Spec
CONSTANTS
  MaxRows = 3
  QueueCap = 1
  MaxAttempts = 3
  TokenCap = 2
  RetryMax = 1
  Faults <- NoFaults
INVARIANT PendingIsHeld
CHECK_DEADLOCK FALSE
