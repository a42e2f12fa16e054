SPECIFICATION Spec
CONSTANTS
  Services = {govpn}
  Refs = {admin, r1}
  Users = {u1, u2}
  Codes = {c1, c2}
  Requests = {q1, q2}
  NoUser = NoUser
  AutoService = govpn
  AutoRef = admin
INVARIANT UsedOnce
INVARIANT OwnersSubscribe
PROPERTY NoTakeover
SYMMETRY Symmetry
