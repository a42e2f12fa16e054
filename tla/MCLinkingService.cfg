SPECIFICATION Spec
CONSTANTS
  Services = {govpn, mail}
  Refs = {admin}
  Users = {u1, u2}
  Codes = {c1, c2}
  Requests = {q1, q2}
  NoUser = NoUser
  AutoService = govpn
  AutoRef = admin
PROPERTY OwningService
SYMMETRY Symmetry
