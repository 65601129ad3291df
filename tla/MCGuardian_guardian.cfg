CONSTANTS
  a1 = a1
  a2 = a2
  r1 = r1
  r2 = r2
  s1 = s1
  m1 = m1
  m2 = m2
  Agents = {a1}
  Registered = {}
  Requests = {r1}
  Sweeps = {s1}
  Merchants = {m1, m2}
  Ops = {"rearm", "freeze", "calm"}
SPECIFICATION Spec
INVARIANTS
  FrozenAgentsStayStopped
PROPERTIES
  UnfreezeRestores
  BreachingAgentIsStopped
CHECK_DEADLOCK FALSE
