SPECIFICATION Spec
CONSTANTS
  p1 = p1
  p2 = p2
  evm = evm
  cosmos = cosmos
  own = own
  d1 = d1
  d2 = d2
  unknown = unknown
  a1 = a1
  a2 = a2
  igpC = igpC
  ops = ops
  other = other
  Alias = Alias
  NoDomain = NoDomain
  NoOrigin = NoOrigin
  NoOracle = NoOracle
  BPS = 10
  U128 = 1000
  OverflowChecks = TRUE
  MinBps = 1
  MaxBps = 5
  SafetyBps = 10
  Procs = {p1}
  Origins = {evm}
  Domains = {own, d1}
  Oracles = {a1, a2}
  Accounts = {ops, other}
  Protocol <- MCProtocol
  DomainOf <- MCDomainOf
  Home <- MCHomeEvm
  CosmosIgp <- MCIgpOfEvm
  Registered = {own, d1}
  Targets <- MCTargetsEvm
  Signers <- MCSigners
  Requests <- MCWrites
  Quotes <- MCQuotesBothWays
  Samples = {4}
  Overheads = {1, 2}
  Values = {4, 9}
  Genesis <- MCGenesisEvm
  MaxRuns = 2
  MaxExternal = 0
CHECK_DEADLOCK FALSE
PROPERTIES
  MaxDeltaPerWrite
