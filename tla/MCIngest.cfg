SPECIFICATION FairSpec
CONSTANTS
  e1 = e1
  e2 = e2
  e3 = e3
  Events <- MCEvents
  Dropped <- MCDropped
  Handlers = {h1, h2}
  Patience <- MCPatience
  Faults <- AllFaults
INVARIANT DeliveredOnce
INVARIANT AnswersAreTrue
INVARIANT Accounted
PROPERTY StoredIsSettled
CHECK_DEADLOCK FALSE
