CONSTANTS
  a1 = a1
  a2 = a2
  a3 = a3
  h1 = h1
  h2 = h2
  shirt = shirt
  mug = mug
  k1 = k1
  d1 = d1
  Budget = Budget
  NoKey = NoKey
  NoDeal = NoDeal
  Rows = {a1, a2}
  Variants = {shirt}
  Handlers = {h1}
  Keys = {k1}
  Deals = {d1}
  MaxCaps = 2
  InitStock <- Stock3
  Requests <- ThrowRequests
  CapChoices <- Only2
  FirstCap <- Cap2
  SweepLimit = 2
  InitCoins = 0
  Ops = {"throw", "crash", "handler_crash", "escalate", "approve", "reject", "set_cap", "lapse"}
SPECIFICATION Spec
INVARIANTS
  ExecutedWithinCap
  OneArtifactPerKey
PROPERTIES
  ReservationsAreLedger
CHECK_DEADLOCK FALSE
