SPECIFICATION Spec
CONSTANTS
  Size <- MCSize
  Cap <- MCCap
  Requests = {q1, q2}
  MaxTime = 4
INVARIANT PassesFit
