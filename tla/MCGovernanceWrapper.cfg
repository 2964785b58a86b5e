CONSTANTS
  Accounts = {a1, a2, a3}
  Wasms = {w1, w2}
  Timelock = 2
  MaxTime = 4
  RenounceGated = {"sweep"}
  None = None
SPECIFICATION Spec
PROPERTY UpgradesEnd
