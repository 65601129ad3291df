CONSTANTS
  s1 = s1
  e1 = e1
  e2 = e2
  e3 = e3
  p1 = p1
  p2 = p2
  Sales = {s1}
  Amount <- SixPaise
  Events = {e1, e2}
  EventMixes <- PaidOrRefused
  Posts = {p1, p2}
  InitSettings <- EvenSplit
  Settings <- EvenOrBuyer
  MaxChanges = 1
  MaxFaults = 1
  Ops = {"browser", "throw", "crash", "lost_answer", "refund"}
SPECIFICATION Spec
INVARIANTS
  NeverOverFunded
PROPERTIES
  EffectsHappenOnce
  CaptureIsCompleted
CHECK_DEADLOCK FALSE
