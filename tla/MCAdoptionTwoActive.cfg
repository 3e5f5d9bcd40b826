CONSTANTS
  a1 = a1
  a2 = a2
  ua = ua
  ub = ub
  shelter = shelter
  p1 = p1
  Adoption = {a1, a2}
  User = {ua, ub, shelter}
  Pet = {p1}
  Request = {r1, r2}
  NoRequest = NoRequest
  NoOwner = NoOwner
  PetOf <- BothOfOnePet
  Adopter <- OneAdopterEach
  StartOwner <- ShelterOwns
  Seeded = {}
  MaxFaults = 0
SPECIFICATION Spec
INVARIANTS
  OneActiveAdoptionPerPet
