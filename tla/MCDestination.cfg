SPECIFICATION Spec
CONSTANTS
  Services = {s1, s2}
  NoService = NoService
  Chats = {g1, g2}
  DM = DM
  Requests = {q1, q2}
  Flushers = {f1}
  MaxBinds = 2
  MaxThreads = 2
  MaxLost = 1
  Faults <- AllFaults
INVARIANT OwnTopic
INVARIANT RowsAreCurrent
INVARIANT TopicsBounded
SYMMETRY Symmetry
CHECK_DEADLOCK FALSE
