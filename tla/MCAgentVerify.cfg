CONSTANTS
  Handler = {h1}
  TTL = 2
  MaxLatency = 1
  MaxNonce = 1
  MaxTime = 4
SPECIFICATION Spec
SYMMETRY Symmetry
INVARIANTS
  TypeOK
  BoundedStaleness
  UncachedIsLive
  UncheckedIsTransient
