CONSTANTS
  Request = {r1, r2}
  Sweep = sweep
  CommandFails = TRUE
SPECIFICATION FairSpec
INVARIANTS
  TypeOK
  RunsOnlyVouched
PROPERTY CapPauses
