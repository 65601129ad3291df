CONSTANTS
  r1 = r1
  r2 = r2
  v1 = v1
  w1 = w1
  m1 = m1
  m2 = m2
  s1 = s1
  s2 = s2
  shirt = shirt
  Budget = Budget
  Rows = {r1, r2}
  Variants = {shirt}
  Signals = {v1, w1}
  Merchants = {m1, m2}
  Sweepers = {s1}
  MaxCaps = 1
  InitStock <- Stock5
  Scenes <- AllScenes
  FirstCaps <- Limit7
  Ops = {"capture", "refund", "partial", "partial_held", "overdue", "decline", "lost_reply", "crash"}
SPECIFICATION Spec
INVARIANTS
  BooksFollowRefunds
  OneHoldPerRow
  HoldsTellTheTruth
  ReleasedOnlyIfRefunded
PROPERTIES
  RefundedStaysFailed
  ExpiredHoldsAreResolved
CHECK_DEADLOCK FALSE
