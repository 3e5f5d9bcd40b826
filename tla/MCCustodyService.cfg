CONSTANTS
  c1 = c1
  c2 = c2
  u1 = u1
  p1 = p1
  Custody = {c1, c2}
  User = {u1, u2}
  u2 = u2
  Pet = {p1}
  Request = {r1, r2}
  NoRequest = NoRequest
  Holder <- HolderOfEach
  PetOf <- PetOfTwo
  StartScore <- LowScores
  MaxFaults = 2
SPECIFICATION FairSpec
INVARIANTS
  TypeOK
  ClosedIsSettled
  EventBacked
  DepositMatchesOutcome
  LogFollowsRow
  ScoreFollowsLog
PROPERTIES
  EveryRequestEnds
  ImplementsContract
