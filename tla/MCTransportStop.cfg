SPECIFICATION Spec
CONSTANTS
  MaxRows = 3
  QueueCap = 3
  MaxAttempts = 3
  TokenCap = 2
  RetryMax = 1
  Faults <- StopOnly
INVARIANT StopDrains
CHECK_DEADLOCK FALSE
