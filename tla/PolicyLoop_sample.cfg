SPECIFICATION Spec
CONSTANTS
  BPS = 10
  U128 = 64
  OverflowChecks = TRUE
  MinBps = 1
  MaxBps = 5
  SafetyBps = 11
  Gas <- MCSampleGas
  Rate <- MCRate
  Samples = {0, 1, 5, 9}
  Quotes <- MCQuotes
  Configs <- MCConfigs
  MaxMoves = 2
INVARIANTS
  TypeOK
  NeverZero
  NoopIsClose
PROPERTIES
  StepBounded
  Settles
