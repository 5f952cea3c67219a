SPECIFICATION GovernanceSpec
CONSTANTS
  GrantIds = {g1, g2}
  Hosts = {i1, i2}
  BlastRadius = 1
  MaxBreaks = 1
  MaxRestores = 1
  LastDay = 4
  Instances = {i1, i2}
  MaxRows = 1
  Retention = 1
  Accounts = {a, b}
  FreezeIds = {1, 2}
  Workers = {w1, w2}
  Users = {u1, u2}
  Roles = {r1}
  Removable = {r1}
  Perms = {p1}
  Requests = {}
  Admins = {a1, a2}
  Crashes = TRUE
  MaxChanges = 3
  NoSnapshot = NoSnapshot
CHECK_DEADLOCK FALSE
INVARIANTS
  PatrolHolds
  AuditHolds
  OwedIsOnTheWay
PROPERTIES
  FreezesHold
  PatrolClears
  EditReachesHolders
