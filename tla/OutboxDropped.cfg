CONSTANTS
  t1 = t1
  t2 = t2
  p1 = p1
  p2 = p2
  c1 = c1
  run = run
  none = none
  None = none
  Texts = {t1}
  Media = {p1}
  Calls = {c1}
  Runner = run
  Barred = {}
  Receipts = {}
  Faults = {}
  MaxFailures = 0
  MaxCrashes = 0
SPECIFICATION Spec
PROPERTY DroppedDoesNotGoOut
