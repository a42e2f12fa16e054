SPECIFICATION Spec
CONSTANTS
  MaxRows = 3
  QueueCap = 2
  MaxAttempts = 3
  TokenCap = 1
  RetryMax = 1
  Faults <- AllFaults
INVARIANT AttemptsBounded
INVARIANT SentIsTrue
PROPERTY AckedIsFinal
PROPERTY SentIsFinal
CHECK_DEADLOCK FALSE
