CONSTANTS
  f1 = f1
  t1 = t1
  t2 = t2
  c1 = c1
  m1 = m1
  g1 = g1
  g2 = g2
  Failures = {f1}
  Ticks = {t1, t2}
  Clicks = {}
  Merchants = {m1}
  Agents = {g1}
  InitAgents = {g1}
  Amounts = {5000}
  MaxFaults = 1
  Ops = {"cancel", "slow", "crash", "throw"}
SPECIFICATION TasksSpec
INVARIANTS
  ClaimsAreExclusive
PROPERTIES
  EndedTasksStayEnded
  EveryTaskEnds
CHECK_DEADLOCK FALSE
