CONSTANTS
  Polls = {p1}
  Kinds = {"activity", "swap", "malformed"}
  Malformed = {"malformed"}
  Tabled = {"activity"}
  Limit = 2
  Lookback = 1
  MaxLedger = 5
  MaxEvents = 2
  MaxFaults = 0
SPECIFICATION FairSpec
PROPERTY EveryEventIndexed
