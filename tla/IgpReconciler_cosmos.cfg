SPECIFICATION Spec
CONSTANTS
  p1 = p1
  p2 = p2
  evm = evm
  cosmos = cosmos
  own = own
  d1 = d1
  d2 = d2
  unknown = unknown
  a1 = a1
  a2 = a2
  igpC = igpC
  ops = ops
  other = other
  Alias = Alias
  NoDomain = NoDomain
  NoOrigin = NoOrigin
  NoOracle = NoOracle
  BPS = 10
  U128 = 1000
  OverflowChecks = TRUE
  MinBps = 1
  MaxBps = 5
  SafetyBps = 10
  Procs = {p1}
  Origins = {cosmos}
  Domains = {own, d1, d2}
  Oracles = {igpC}
  Accounts = {ops, other}
  Protocol <- MCProtocol
  DomainOf <- MCDomainOf
  Home <- MCHomeCosmos
  CosmosIgp <- MCIgpOfCosmos
  Registered = {own, d1, d2}
  Targets <- MCTargetsCosmos
  Signers <- MCSigners
  Requests <- MCWritesOne
  Quotes <- MCQuotesCosmos
  Samples = {4}
  Overheads = {1, 2}
  Values = {4, 9}
  Genesis <- MCGenesisCosmos
  MaxRuns = 2
  MaxExternal = 1
CHECK_DEADLOCK FALSE
INVARIANTS
  GatedWrites
  OnlyCleanRunsWrite
  ExecutableMatchesPlan
PROPERTIES
  ImplementsGuarded
