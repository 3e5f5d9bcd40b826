CONSTANTS
  a1 = a1
  a2 = a2
  a3 = a3
  h1 = h1
  h2 = h2
  Aggregate = {a1, a2, a3}
  Key = {h1, h2}
  Hash <- TwoCollide
  Call = {k1, k2, k3}
  NoCall = NoCall
  MaxFaults = 2
SPECIFICATION FairSpec
INVARIANTS
  TypeOK
  Consecutive
PROPERTIES
  HandedOutIsNext
  EveryCallEnds
  ImplementsSerialLedger
