CONSTANTS
  k1 = k1
  k2 = k2
  r1 = r1
  r2 = r2
  founder = founder
  amy = amy
  abe = abe
  fan = fan
  ben = ben
  n1 = n1
  n2 = n2
  i1 = i1
  i2 = i2
  Passwords = {"p", "q"}
  None = "null"
  MaxId = 3
  Keys = {k1, k2}
  Me = "me"
  Others = {"other"}
  MaxDevices <- TwoOrOne
  DefaultLimit = 2
  Requests = {r1, r2}
  MaxRequests = 4
  Crew = {founder, amy, abe}
  Creator = founder
  Willing = {amy, abe}
  MaxMembers = 2
  GroupRequests = 4
  Asks = {"ask"}
  Batch = 2
  LowWater = 1
  MaxOneTime = 2
  Lifetime = 1
  Grace = 2
  MaxKeys = 4
  MaxAsks = 2
  MaxDay = 2
  Holders = {fan, ben}
  Numbers = {n1, n2}
  MaxSends = 2
  MaxAttempts = 1
  MaxTexts = 2
  Staff = {"root", "aide"}
  First = "root"
  MaxSessions = 2
  StaffRequests = 3
  Kinds = {"sticker", "channel_avatar", "group_avatar"}
  Items = {i1, i2}
  ItemsPerPack = 1
  Quota = 2
  MaxBlobs = 2
  MediaRequests = 5
SPECIFICATION Spec6
SYMMETRY Symmetric
INVARIANT TypesOK
INVARIANT SessionsStand
INVARIANT LimitsHold
INVARIANT SomebodyIsInCharge
INVARIANT KeysAreWithinReach
INVARIANT NumberIsProved
INVARIANT MediaLivesAsUsed
PROPERTY FactorsChangeByProof
CHECK_DEADLOCK FALSE
