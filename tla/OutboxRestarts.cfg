CONSTANTS
  t1 = t1
  t2 = t2
  p1 = p1
  p2 = p2
  c1 = c1
  run = run
  none = none
  None = none
  Texts = {t1}
  Media = {p1}
  Calls = {c1}
  Runner = run
  Barred = {}
  Receipts = {"read"}
  Faults = {"network", "refusal", "crash"}
  MaxFailures = 1
  MaxCrashes = 1
SPECIFICATION Spec
INVARIANT TypeOK
INVARIANT SentIsTaken
INVARIANT NothingStranded
INVARIANT MediaIsSaved
PROPERTY UploadedOnce
