SPECIFICATION Spec
CONSTANTS
  e1 = e1
  e2 = e2
  e3 = e3
  e4 = e4
  e5 = e5
  k1 = k1
  k2 = k2
  Events <- MCEvents
  Keys <- MCKeys
  KeyOf <- MCKeyOf
  Workers = {w1, w2, w3}
  Cap = 2
  NoBatch = NoBatch
SYMMETRY Symmetry
INVARIANT BatchWithinCap
CHECK_DEADLOCK FALSE
