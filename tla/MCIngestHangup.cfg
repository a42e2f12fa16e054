SPECIFICATION Spec
CONSTANTS
  e1 = e1
  e2 = e2
  e3 = e3
  Events <- TwoEvents
  Dropped <- NoneDropped
  Handlers = {h1, h2}
  Patience <- Twice
  Faults <- HangupOnly
PROPERTY UnroutedIsUnlinked
SYMMETRY Symmetry
CHECK_DEADLOCK FALSE
