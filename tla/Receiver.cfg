CONSTANTS
  poll = poll
  p1 = p1
  p2 = p2
  Poll = poll
  Pushes = {p1, p2}
  Batch = 2
  MaxId = 2
  Faults = {"socket", "http", "lookup", "crash"}
SPECIFICATION FairSpec
INVARIANT TypeOK
INVARIANT NothingLost
INVARIANT NoFalseAlarm
PROPERTY EveryRowIsKept
CHECK_DEADLOCK FALSE
