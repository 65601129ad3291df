CONSTANTS
  n1 = n1
  n2 = n2
  c1 = c1
  c2 = c2
  b1 = b1
  b2 = b2
  q1 = q1
  q2 = q2
  o1 = o1
  o2 = o2
  d1 = d1
  d2 = d2
  w1 = w1
  f1 = f1
  t1 = t1
  k1 = k1
  g1 = g1
  g2 = g2
  Negotiations = {n1}
  Calls = {c1, c2}
  Buys = {b1, b2}
  Offers = {590, 1000}
  CatalogPrices = {500, 1000}
  Floors = {600, 950}
  MAX_BUYER_COUNTERS = 3
  MIN_CONCESSION_STEP_PAISE = 100
  MaxEdits = 1
  MaxCounters = 4
  MaxSales = 3
  Returnable = {q1, q2}
  Buyers = {o1, o2}
  Deciders = {d1, d2}
  ReturnSweeps = {w1}
  Paid = 2
  MaxReturnFaults = 1
  Failures = {f1}
  Ticks = {t1}
  Clicks = {k1}
  Merchants = {}
  Agents = {g1, g2}
  InitAgents = {}
  Amounts = {4999, 5000, 500000}
  MaxFaults = 1
  Ops = {"pay", "deny", "handler_dies"}
SPECIFICATION DesksSpec
INVARIANTS
  NeverBelowFloor
  EverySaleHasACause
  ApprovedMeansRefunded
  RefundedForOneRequest
  RecoveryWithinMeans
  RecoveredMeansPaid
PROPERTIES
  DecisionsStand
  SucceededIsFinal
CHECK_DEADLOCK FALSE
