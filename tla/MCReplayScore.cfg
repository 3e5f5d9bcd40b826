CONSTANTS
  c1 = c1
  u1 = u1
  p1 = p1
  Custody = {c1}
  User = {u1}
  Pet = {p1}
  Request = {r1, k1}
  Admin = {k1}
  NoRequest = NoRequest
  Holder <- HolderOfOne
  PetOf <- PetOfOne
  StartScore <- DefaultScore
  MaxFaults = 0
SPECIFICATION ReplaySpec
INVARIANTS
  ReplayKeepsScore
