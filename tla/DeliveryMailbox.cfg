CONSTANTS
  alice = alice
  bob = bob
  a1 = a1
  b1 = b1
  b2 = b2
  group = group
  m1 = m1
  m2 = m2
  m3 = m3
  h1 = h1
  h2 = h2
  None = None
  Accounts = {alice, bob}
  Devices = {a1, b1, b2}
  Messages = {m1, m2, m3}
  Handlers = {h1, h2}
  Group = group
  Owner <- MixedOwner
  Author <- MixedAuthor
  Target <- MixedTarget
  Keyed = {}
  Sealed = {m2}
  Ephemeral = {m3}
  Timed = {}
  Batch = 1
  MaxId = 2
  Relinked = {b2}
  Joinable = {bob}
  Blockable <- BobMayBlock
  Ageing = {m1, m2, m3}
SPECIFICATION Spec
SYMMETRY AnyHandler
INVARIANT AcceptedIsStored
PROPERTY ImplementsMailbox
