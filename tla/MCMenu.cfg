\* Every interleaving, failure and crash; every state has a successor.
SPECIFICATION Spec
CONSTANTS
  Types = {t1, t2}
  Handlers = {h1, h2}
  NoRow = NoRow
  NoScreen = NoScreen
  Screen = Screen
SYMMETRY Symmetry
INVARIANTS TogglesAreKept ScreenIsTrue
