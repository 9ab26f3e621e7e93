CONSTANTS
  Account = {o1, o2}
  Agent = {a1, a2}
  NoAddress = zero
  Human = {h1}
  MaxPerHuman = 1
  MaxNonce = 1
  Request = {r1, r2}
  KeepsOperator = TRUE
SPECIFICATION Spec
SYMMETRY Symmetry
INVARIANTS
  TypeOK
  AgentConsented
  AuthoritiesAgree
  CapOfNeverRevoked
PROPERTIES
  RegistrationMonotone
  ImplementsRegister
