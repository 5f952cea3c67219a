SPECIFICATION Spec
CONSTANTS
  Users = {u1, u2, u3}
  Roles = {SUPER, r1}
  SuperAdmin = SUPER
  Grantable = {SUPER, r1}
  Perms = {manage, p1}
  Manage = manage
  Handlers = {h1, h2}
  MaxChanges = 3
SYMMETRY Symmetric
CHECK_DEADLOCK FALSE
INVARIANT SuperAdminRemains
