CONSTANTS
  poll = poll
  p1 = p1
  p2 = p2
  Poll = poll
  Pushes = {p1}
  Batch = 1
  MaxId = 1
  Faults = {"http"}
SPECIFICATION Spec
INVARIANT InterruptionCostsARedelivery
CHECK_DEADLOCK FALSE
