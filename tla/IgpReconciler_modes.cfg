SPECIFICATION Spec
CONSTANTS
  p1 = p1
  p2 = p2
  evm = evm
  cosmos = cosmos
  own = own
  d1 = d1
  d2 = d2
  unknown = unknown
  a1 = a1
  a2 = a2
  igpC = igpC
  ops = ops
  other = other
  Alias = Alias
  NoDomain = NoDomain
  NoOrigin = NoOrigin
  NoOracle = NoOracle
  BPS = 10
  U128 = 60
  OverflowChecks = TRUE
  MinBps = 1
  MaxBps = 5
  SafetyBps = 10
  Procs = {p1}
  Origins = {evm, cosmos}
  Domains = {own, d1, d2, unknown}
  Oracles = {a1, a2, igpC}
  Accounts = {ops, other}
  Protocol <- MCProtocol
  DomainOf <- MCDomainOfBoth
  Home <- MCHomeBoth
  CosmosIgp <- MCIgpOfBoth
  Registered = {own, d1, d2}
  Targets <- MCTargetsModes
  Signers <- MCSigners
  Requests <- MCModes
  Quotes <- MCQuotesModes
  Samples = {4, 6}
  Overheads = {1, 2}
  Values = {4, 9}
  Genesis <- MCGenesisBoth
  MaxRuns = 1
  MaxExternal = 0
CHECK_DEADLOCK FALSE
INVARIANTS
  OnlyCleanRunsWrite
  HonestExit
PROPERTIES
  RunsEnd
