SPECIFICATION Spec
CONSTANTS
  Services = {s1}
  NoService = NoService
  Chats = {g1, g2}
  DM = DM
  Requests = {q1, q2}
  Flushers = {f1}
  MaxBinds = 2
  MaxThreads = 4
  MaxLost = 1
  Faults <- NoFaults
INVARIANT NoStaleRow
SYMMETRY Symmetry
CHECK_DEADLOCK FALSE
