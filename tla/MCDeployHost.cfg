CONSTANTS
  Deploy = {d1, d2}
  Request = {r1}
  Pipe = {q1, q2}
  MaxIndex = 1
SPECIFICATION FairSpec
INVARIANTS
  TypeOK
  WalletsDistinct
  ReadyHasWallet
PROPERTIES
  StrandedForGood
  PipelineEnds
