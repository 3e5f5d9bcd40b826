CONSTANTS
  a1 = a1
  a2 = a2
  ua = ua
  ub = ub
  shelter = shelter
  p1 = p1
  Adoption = {a1, a2}
  User = {ua, ub, shelter}
  Pet = {p1}
  Request = {r1, r2, r3}
  NoRequest = NoRequest
  NoOwner = NoOwner
  PetOf <- BothOfOnePet
  Adopter <- OneAdopterEach
  StartOwner <- ShelterOwns
  Seeded = {a1}
  MaxFaults = 1
SPECIFICATION FairSpec
INVARIANTS
  TypeOK
  LogAheadOfRows
  OrphansAreFailures
PROPERTIES
  AtomicRelease
  EveryRequestEnds
