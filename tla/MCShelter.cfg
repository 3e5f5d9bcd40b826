CONSTANTS
  a1 = a1
  c1 = c1
  ua = ua
  shelter = shelter
  p1 = p1
  Pet = {p1}
  User = {ua, shelter}
  Lister = {shelter}
  NoOwner = NoOwner
  NoRequest = NoRequest
  Adoption = {a1}
  AdoptionRequest = {r1, r2}
  AdoptionPet <- AdoptedPet
  Adopter <- OneAdopter
  StartOwner <- ShelterOwns
  Seeded = {a1}
  Custody = {c1}
  CustodyRequest = {q1}
  CustodyPet <- KeptPet
  Holder <- OneHolder
  StartScore <- Scores
  Removal = {m1}
  AdoptionFaults = 1
  CustodyFaults = 1
SPECIFICATION FairSpec
INVARIANTS
  TypeOK
  NoRowWithoutPet
  AvailableIsAccepted
PROPERTIES
  ReleaseHandsOver
  ImplementsRegister
  EveryoneEnds
