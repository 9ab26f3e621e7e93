CONSTANTS
  Account = {o1, o2}
  Agent = {a1}
  Vault = vault
  NoAddress = zero
  MinStake = 2
  Cooldown = 2
  Endowment = 4
  MaxTime = 6
SPECIFICATION Spec
PROPERTY LockedForCooldownStep
