SPECIFICATION SetupSpec
CONSTANTS
  Users = {u1, u2}
  Groups = {g1, g2}
  DM = DM
  Codes = {c1, c2}
  Updates = {h1, h2}
  MaxDraws = 3
INVARIANT OnlyVerifiedBind
INVARIANT LastConnectWins
SYMMETRY Symmetry
