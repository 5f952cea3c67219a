SPECIFICATION AccessSpec
CONSTANTS
  Users = {u1, u2, a}
  Admins = {a}
  Handlers = {h1, h2}
  Perms = {"read", "update"}
  MaxShares = 1
  MaxDenials = 1
  Readers = {reader, author}
  Author = author
  Capabilities = {"user-block"}
CHECK_DEADLOCK FALSE
SYMMETRY Symmetric
INVARIANTS
  AccessTypeOK
  NothingOnDeleted
  GrantsAreTheOwners
  ListAgrees
  PathsAgree
  DenyWins
PROPERTY DenyStands
