CONSTANTS
  Deploy = {d1, d2}
  GameArena = {d2}
  Lite = {p1}
  NoDeploy = none
SPECIFICATION FairSpec
INVARIANT TypeOK
PROPERTY ComesToTruth
