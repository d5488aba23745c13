SPECIFICATION Spec
CONSTANTS
  Assets = {tia, eth}
  tia = tia
  eth = eth
  celestia = celestia
  ethereum = ethereum
  arbitrum = arbitrum
  lost = lost
  Chains = {celestia, ethereum, arbitrum, lost}
  Protocol <- MCProtocol
  AssetOf <- MCAssetOf
  GasPriced = {celestia, ethereum}
  Preparations <- MCPreparations
  Ttl = 1
  StaleAfter = 2
  MaxClock = 4
  NoPrice = NoPrice
  Failure = Failure
CHECK_DEADLOCK FALSE
INVARIANTS
  TypeOK
  RecentlyAsked
  ResponseServesAll
PROPERTIES
  OneRequestPerWindow
