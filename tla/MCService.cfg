SPECIFICATION ServicesSpec
CONSTANTS
  Polls = {p1, p2}
  Kinds = {"activity", "swap", "malformed"}
  Malformed = {"malformed"}
  Tabled = {"activity"}
  Limit = 1
  Lookback = 1
  MaxLedger = 5
  MaxEvents = 2
  MaxFaults = 1
  Takes = {1}
  Rates <- MCRates
  PageRows = 3
  MinGap = 1
  MaxRows = 3
  MaxTime = 2
  MaxRefusals = 1
  Accounts = {a1, a2}
  Labels = {pt_token}
  Amounts = {1}
  Topics <- MCTopics
  MaxEmitted = 3
INVARIANTS
  NothingSkipped
  RowsTellBalances
  ApySpansMinGap
PROPERTIES
  IndexedUnlessWedged
  GrowsUnlessJumped
CHECK_DEADLOCK FALSE
