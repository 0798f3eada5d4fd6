SPECIFICATION Spec
CONSTANTS
  Limits <- SomeLimits
  NoEntry = NoEntry
  NoCache = NoCache
  Fallback <- TheFallback
  Units = {1}
  Simulations = {1, 12}
  Needs = {15}
  GasPrice = 1
  MinGasPrices = {0, 10, 11}
  MaxRetries = 1
  NumEndpoints = 2
  MaxChanges = 0
INVARIANTS
  FloorIsOptional
