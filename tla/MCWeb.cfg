SPECIFICATION Spec
CONSTANTS
  None = None
  FormAmounts = {0, 2}
  Slippages = {1, 2}
  Markets <- MCMarkets
  Capacity = 1
  Balance = 2
  PartialReads = {"twap"}
  Slots = {1, 2}
  FetchSlots = {1}
  MaxEdits = 2
  MaxMoves = 1
  MaxFaults = 1
  TradeAmounts = {2}
  Tolerances = {0, 50}
  PoolCapacity = 1
  Prices = {1, 2}
  RateTop = 2
  Holdings <- MCHoldings
  MaxClicks = 2
  MaxShifts = 2
  MaxMishaps = 1
  MintAmounts = {1, 2}
  Balances = {0, 2}
  Vaults <- MCVaults
  XlmVault = "xlm"
  Handlers = {1, 2}
  MaxOpenings = 2
  MaxReviews = 2
  MaxReports = 1
  Addresses = {a1, a2}
  Networks = {test, pub}
  TargetNetwork = test
  Operations = {1, 2}
  MaxCalls = 2
  MaxSwitches = 1
  MaxRefreshes = 1
  Callers = {1, 2}
  CacheDuration = 2
  MaxRetries = 2
  MaxClock = 4
  FundTries = 2
  ReadTries = 2
  Shares = {0, 1}
  Tokens = {0, 2}
  Owed = {0, 1}
  SpotPrices = {3}
  QuotesOfPt = {4, 6}
  ShareRates = {2}
  MaxPositionMoves = 1
  Tabs = {tab1, tab2}
  Categories = {"network", "yield"}
  MaxNotifications = 2
  MaxAdded = 3
  MaxDays = 1
INVARIANTS
  MemoryIsFresh
  PassMeansSettled
  CountedOnce
  SpentOnce
  SettlesWithinSlippage
PROPERTIES
  LostToRacesOnly
  Settles
  MintNeverHangs
  PortfolioFollowsWallet
CHECK_DEADLOCK FALSE
