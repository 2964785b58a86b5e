SPECIFICATION TradeSpec
CONSTANTS
  None = None
  TradeAmounts = {2}
  Tolerances = {0}
  PoolCapacity = 1
  Prices = {1, 2}
  RateTop = 2
  Holdings <- MCHoldings
  MaxClicks = 1
  MaxShifts = 1
  MaxMishaps = 1
INVARIANT FailedLegStopsTrade
CHECK_DEADLOCK FALSE
