CONSTANTS
  a1 = a1
  a2 = a2
  a3 = a3
  h1 = h1
  h2 = h2
  shirt = shirt
  mug = mug
  k1 = k1
  d1 = d1
  Budget = Budget
  NoKey = NoKey
  NoDeal = NoDeal
  Rows = {a1}
  Variants = {shirt}
  Handlers = {h1, h2}
  Keys = {}
  Deals = {}
  MaxCaps = 3
  InitStock <- Stock2
  Requests <- ShirtRequests
  CapChoices <- Only5
  FirstCap <- Cap5
  SweepLimit = 2
  InitCoins = 0
  Ops = {"set_cap"}
SPECIFICATION Spec
INVARIANTS
  OneActiveCap
CHECK_DEADLOCK FALSE
