CONSTANTS
  Holders = {h1, h2}
  MaxSupply = 4
  WAD = 2
  MaxI128 = 1000
  NoRate = NoRate
  Rates = {2, 3, 4}
  Amounts = {1, 2}
  SyGrant = 1
  RatesMayFall = TRUE
SPECIFICATION Spec
INVARIANTS
  TypeOK
  FrozenIsLastObservation
  FallbackOnlyWhenUnused
PROPERTIES
  CoverageIsKept
  ExitsAreFair
  BankedYieldIsPaidInFull
  FrozenYieldIsFixed
  ImplementsVault
SYMMETRY Symmetry
