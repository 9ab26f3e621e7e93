CONSTANTS
  Account = {o1, o2}
  Agent = {a1}
  Vault = vault
  NoAddress = zero
  MinStake = 2
  Cooldown = 2
  Endowment = 3
  MaxTime = 5
  MaxSignatures = 2
SPECIFICATION Spec
SYMMETRY Symmetry
INVARIANTS
  TypeOK
  PositionSound
  Conserved
  BindingIsEarned
  PendingUnstakeSound
PROPERTIES
  ApprovalsSingleUse
  LockedForCooldownStep
  ImplementsBond
