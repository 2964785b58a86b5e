CONSTANTS
  Takes = {1, 2}
  Rates = {1, 2, 3}
  PageRows = 2
  MinGap = 1
  MaxRows = 2
  MaxTime = 1
  MaxRefusals = 0
SPECIFICATION SnapSpec
INVARIANT NoJumps
