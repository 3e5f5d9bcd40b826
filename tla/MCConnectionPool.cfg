CONSTANTS
  Request = {r1, r2}
  MaxSize = 5
SPECIFICATION FairSpec
INVARIANTS
  TypeOK
  SomeoneCanGo
PROPERTIES
  EveryRequestEnds
