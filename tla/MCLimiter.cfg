\* Two handlers of one service: overlaps of them come before, between and after
\* requests that come one after another.  A request can always arrive.
SPECIFICATION Spec
CONSTANTS
  Size <- MCSize
  Cap <- MCCap
  Requests = {q1, q2}
  MaxTime = 5
SYMMETRY Symmetry
INVARIANTS WithinCaps RingIsExact
