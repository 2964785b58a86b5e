CONSTANTS
  Holders = {h1}
  Treasuries = {t1}
  None = None
  Amounts = {1, 2}
  Rates = {8}
  WAD = 8
  BPS_DENOMINATOR = 2
  FeeBps = 0
  MaxFeeShare = 0
  MINIMUM_LIQUIDITY = 1
  MaxReserve = 3
  MaxCustody = 3
  MaxYt = 0
  MaxLp = 2
  Window = 2
  Maturity = 5
  LnRates = {9, 20}
  MaxTime = 5
SPECIFICATION MarketSpec
INVARIANT TrustedMeansAWindow
