CONSTANTS
  approval = approval
  newCustody = newCustody
  Notice = {approval, newCustody}
  Inside = {approval}
  Slot = {s1, s2}
  NoSlot = NoSlot
  NoNotice = NoNotice
  Attempts = 2
  MaxStalls = 1
  MaxFaults = 3
SPECIFICATION FairSpec
INVARIANTS
  TypeOK
  SendsBounded
PROPERTIES
  EveryJobEnds
