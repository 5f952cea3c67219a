SPECIFICATION Spec
CONSTANTS
  Users = {u1}
  Roles = {r1}
  Removable = {r1}
  Perms = {p1}
  Requests = {h1}
  Admins = {a1, a2}
  Crashes = TRUE
  MaxChanges = 3
  NoSnapshot = NoSnapshot
SYMMETRY Symmetric
INVARIANTS
  CacheCoherent
  ServedCoherent
PROPERTY KeepsPromise
