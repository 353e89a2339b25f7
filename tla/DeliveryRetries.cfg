CONSTANTS
  alice = alice
  bob = bob
  a1 = a1
  b1 = b1
  b2 = b2
  group = group
  m1 = m1
  m2 = m2
  m3 = m3
  h1 = h1
  h2 = h2
  None = None
  Accounts = {alice, bob}
  Devices = {a1, b1}
  Messages = {m1, m2}
  Handlers = {h1, h2}
  Group = group
  Owner <- DirectOwner
  Author <- DirectAuthor
  Target <- DirectTarget
  Keyed = {m1}
  Sealed = {}
  Ephemeral = {}
  Timed = {m2}
  Batch = 1
  MaxId = 3
  Relinked = {}
  Joinable = {}
  Blockable = {}
  Ageing = {m1}
SPECIFICATION Spec
SYMMETRY AnyHandler
INVARIANT TypeOK
INVARIANT LostOnlyIfLate
INVARIANT AtMostOnce
