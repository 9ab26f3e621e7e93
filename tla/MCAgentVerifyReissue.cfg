CONSTANTS
  Handler = {h1}
  TTL = 2
  MaxLatency = 1
  MaxNonce = 2
  MaxTime = 2
SPECIFICATION Spec
SYMMETRY Symmetry
INVARIANT ReissueIsVisible
