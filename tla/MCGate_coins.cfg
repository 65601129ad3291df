CONSTANTS
  a1 = a1
  a2 = a2
  a3 = a3
  h1 = h1
  h2 = h2
  shirt = shirt
  mug = mug
  k1 = k1
  d1 = d1
  Budget = Budget
  NoKey = NoKey
  NoDeal = NoDeal
  Rows = {a1, a2}
  Variants = {shirt}
  Handlers = {}
  Keys = {}
  Deals = {}
  MaxCaps = 1
  InitStock <- Stock2
  Requests <- RedeemRequests
  CapChoices <- Only5
  FirstCap <- Cap5
  SweepLimit = 2
  InitCoins = 3
  Ops = {}
SPECIFICATION Spec
INVARIANTS
  BalanceNeverNegative
CHECK_DEADLOCK FALSE
