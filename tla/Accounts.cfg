SPECIFICATION AccountsSpec
CONSTANTS
  Users = {u1}
  Handlers = {h1, h2}
  MaxTokens = 3
  MaxMails = 1
  MaxChanges = 3
  MaxMisses = 22
  MaxFailed = 7
  Roles = {r1, r2}
  Invites <- AnyRoles
  Edits = {TRUE, FALSE}
  MaxSecrets = 3
  MaxEnrolmentChanges = 4
  Neighbours = {n1, n2}
  Addresses = {a1, a2}
  MaxRequests = 2
CHECK_DEADLOCK FALSE
SYMMETRY Symmetric
INVARIANTS
  NoAccessWhileInactive
  CutsHold
  LockHolds
  EnrolmentHolds
  AddressHolds
PROPERTIES
  DeadFamilyStaysDead
  FiveFailuresLock
