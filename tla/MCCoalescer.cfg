SPECIFICATION FairSpec
CONSTANTS
  e1 = e1
  e2 = e2
  e3 = e3
  e4 = e4
  e5 = e5
  k1 = k1
  k2 = k2
  Events <- MCEvents
  Keys <- MCKeys
  KeyOf <- MCKeyOf
  Workers = {w1, w2}
  Cap = 2
  NoBatch = NoBatch
INVARIANT BatchBound
INVARIANT FullBatchIsTaken
INVARIANT NoEventLost
INVARIANT FlushIsFinal
INVARIANT OneFlushPerCause
PROPERTY EventuallyFlushed
PROPERTY ImplementsPromise
CHECK_DEADLOCK FALSE
