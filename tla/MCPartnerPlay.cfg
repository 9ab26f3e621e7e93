CONSTANTS
  MaxMatch = 2
  Request = {r1}
  StalePlaying = 1
  StaleEnded = 0
SPECIFICATION FairSpec
INVARIANTS
  TypeOK
  BusyIsRecent
PROPERTY BusyEnds
