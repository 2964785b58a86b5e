CONSTANTS
  SyHolders = {h1, h2}
  WAD = 1000
  Scalar = 2
  BRates = {2, 3}
  Deposits = {1, 2, 3}
  SupplyCap = 4
  MaxAmount = 4
  PartialFills = FALSE
  PoolMayFail = TRUE
SPECIFICATION SySpec
PROPERTY WindDownKeepsRate
