CONSTANTS
  a1 = a1
  a2 = a2
  a3 = a3
  h1 = h1
  h2 = h2
  shirt = shirt
  mug = mug
  k1 = k1
  d1 = d1
  Budget = Budget
  NoKey = NoKey
  NoDeal = NoDeal
  Rows = {a1, a2}
  Variants = {shirt, mug}
  Handlers = {h1, h2}
  Keys = {k1}
  Deals = {d1}
  MaxCaps = 1
  InitStock <- Stock21
  Requests <- MixedRequests
  CapChoices <- Only3
  FirstCap <- Cap3
  SweepLimit = 2
  InitCoins = 1
  Ops = {"escalate", "approve", "reject", "decline", "lost_reply", "shadow", "agent"}
SPECIFICATION Spec
INVARIANTS
  TypeOK
  LedgerMatchesRows
  AnswersAreTrue
  ResolutionsAreTrue
PROPERTIES
  RowsSettleOnce
  EveryAttemptEnds
CHECK_DEADLOCK FALSE
