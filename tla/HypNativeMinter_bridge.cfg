SPECIFICATION Spec
CONSTANTS
  Accounts = {alice, pool}
  Nobody = Nobody
  Scale = 3
  MaxUint = 9
  RemoteSupply = 3
  MaxNonce = 2
  Genesis = 4
  Total <- MCTotal
INVARIANTS
  TypeOK
  Backed
  LockedIsSupply
  OnlyDust
  Honourable
PROPERTIES
  DustIsNotSpent
CHECK_DEADLOCK FALSE
