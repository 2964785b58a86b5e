CONSTANTS
  Holders = {h1, h2}
  Treasuries = {t1}
  None = None
  Amounts = {1, 2, 3}
  Rates = {6, 9}
  WAD = 6
  BPS_DENOMINATOR = 2
  FeeBps = 1
  MaxFeeShare = 1
  MINIMUM_LIQUIDITY = 1
  MaxReserve = 5
  MaxCustody = 6
  MaxYt = 1
  MaxLp = 5
  Window = 2
  Maturity = 5
  LnRates = {9, 20}
  MaxTime = 5
  MaxRecordReserve = 3
  MaxRecordLp = 2
  AccountsRate = 9
SPECIFICATION MarketPartsSpec
INVARIANTS
  CustodyCoversReserves
  ExitsOpen
  AverageOfObserved
  TrustedAfterSnap
PROPERTIES
  DonationsStayPut
  LiquidityNeverDilutes
SYMMETRY Symmetry
