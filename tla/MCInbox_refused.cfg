CONSTANTS
  s1 = s1
  e1 = e1
  e2 = e2
  e3 = e3
  p1 = p1
  p2 = p2
  Sales = {s1}
  Amount <- SixPaise
  Events = {e1}
  EventMixes <- OnlyRefused
  Posts = {p1}
  InitSettings <- EvenSplit
  Settings <- AlwaysEven
  MaxChanges = 0
  MaxFaults = 0
  Ops = {}
SPECIFICATION Spec
INVARIANTS
  RefusedPaymentIsQueued
CHECK_DEADLOCK FALSE
