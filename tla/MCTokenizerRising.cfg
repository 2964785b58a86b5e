CONSTANTS
  Holders = {h1, h2}
  MaxSupply = 21
  WAD = 2
  MaxI128 = 1000
  NoRate = NoRate
  Rates = {2, 3, 5, 7}
  Amounts = {7}
  SyGrant = 7
  RatesMayFall = FALSE
SPECIFICATION Spec
INVARIANT YieldIsBacked
PROPERTY TransferConservesYield
SYMMETRY Symmetry
