SPECIFICATION Spec
CONSTANTS
  a = a
  b = b
  c = c
  cel = cel
  eth = eth
  arb = arb
  lost = lost
  NoDir = NoDir
  NoName = NoName
  NoDomain = NoDomain
  Dirs = {a, b, c}
  Names = {cel, eth, arb, lost}
  DomainIds = {1, 2, 3, 4}
  Registries <- MCRegistries
  Edits <- MCEdits
  MaxEdits = 1
  Targets <- MCTargets
  Requests <- MCRequests
  PageSize = 2
  Igps <- MCIgps
  MaxChanges = 1
CHECK_DEADLOCK FALSE
INVARIANTS
  SweepIsComplete
