CONSTANTS
  h1 = h1
  c1 = c1
  c2 = c2
  t1 = t1
  t2 = t2
  m1 = m1
  r1 = r1
  r2 = r2
  l1 = l1
  v1 = v1
  v2 = v2
  w1 = w1
  d1 = d1
  d2 = d2
  Hooks = {h1}
  Calls = {c1, c2}
  CallMixes <- PaidOrTest
  Ticks = {t1, t2}
  Merchants = {m1}
  MAX_DELIVERY_ATTEMPTS = 2
  MaxRetries = 1
  MaxFaults = 1
  Ops = {"2xx", "4xx", "5xx", "timeout", "crash", "throw", "toggle"}
  Requests = {r1, r2}
  VariantOf <- TwoVariants
  Others = {l1}
  Scanners = {w1}
  ScanLimit = 1
  Mailers = {d1}
  MAX_NOTIFICATIONS_PER_CONTACT_PER_DAY = 1
  MAX_NOTIFICATION_ATTEMPTS = 2
  MaxDeaths = 1
  MailOps = {"2xx", "5xx", "unsubscribe", "stock", "day"}
SPECIFICATION Spec
INVARIANTS
  GivenUpAfterAllAttempts
  UnsubscribedIsLeftAlone
PROPERTIES
  QueueIsAtLeastOnce
  RestockIsAnnounced
CHECK_DEADLOCK FALSE
