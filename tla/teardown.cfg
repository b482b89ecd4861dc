CONSTANTS
  a = a
  b = b
  NoOne = NoOne
  Machines = {a, b}
  MaxRefusals = 1
SPECIFICATION FairSpec
INVARIANTS
  TypeOK
  NothingStuck
PROPERTIES
  NothingLeft
  OffloadingRecovers
  FindableRemoved
CHECK_DEADLOCK FALSE
