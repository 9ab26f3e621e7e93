CONSTANTS
  a1 = a1
  a2 = a2
  shop = shop
  n1 = n1
  n2 = n2
  only = only
  plain = plain
  padded = padded
  Agent = {a1, a2}
  Audience = {register, shop}
  Register = register
  Nonce = {n1, n2}
  Text = {only, plain, padded}
  Reads <- ReadsAs
  Signed <- SignedProofs
  Request = {r1, r2}
  MaxAge <- MaxAgeOf
  Skew = 1
  SeenTTL = 5
  SeenLimit = 1
  MaxLatency = 1
  MaxTime = 8
SPECIFICATION Spec
SYMMETRY Symmetry
INVARIANT TypeOK
PROPERTIES
  SingleUseAsWritten
  RefusedOnlyReplays
