SPECIFICATION WrapperSpec
CONSTANTS
  SyHolders = {s1, s2}
  WAD = 1000
  Scalar = 2
  BRates = {2, 3}
  Deposits = {1, 2, 3}
  SupplyCap = 5
  MaxAmount = 4
  PartialFills = TRUE
  PoolMayFail = TRUE
  Accounts = {a1, a2, a3}
  Wasms = {w1, w2}
  Timelock = 2
  MaxTime = 4
  RenounceGated = {"propose_upgrade", "sweep"}
  None = None
  Holders = {h1, h2}
  Minter = minter
  MaxSupply = 2
  MaxLedger = 1
  Amounts = {0, 1, 2}
INVARIANTS
  TypesHold
  PrincipalFollowsShares
  WindDownExitsOpen
PROPERTIES
  ShortedByOneBTokenOnly
  FullRecoveryKeepsRate
  ImplementsFund
  UpgradeIsAdvertised
  UpgradesEnd
  DebitsAreAuthorised
SYMMETRY Symmetry
