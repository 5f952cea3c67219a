----------------------------- MODULE RoleAdmin -----------------------------
(***************************************************************************)
(* Administration of members and roles (MembersService, RolesService): who *)
(* may do it to whom (dominance, subset of permissions), the edit of a     *)
(* role's permissions, and the last active SUPER_ADMIN.                    *)
(*                                                                         *)
(* A handler serves one request of an administrator: the guard takes a     *)
(* snapshot of the actor's permissions, the service checks the target and  *)
(* the role with queries of their own, and a transaction commits.          *)
(***************************************************************************)
EXTENDS FiniteSets, Integers

CONSTANTS
  Users,
  Roles,
  SuperAdmin,   \* the role of that code
  Grantable,    \* the roles that requests grant
  Perms,
  Manage,       \* the permission the administrative routes ask for
  Handlers,
  MaxChanges    \* bound: requests admitted

ASSUME SuperAdminAssumption == SuperAdmin \in Roles
ASSUME GrantableAssumption == Grantable \subseteq Roles
ASSUME ManageAssumption == Manage \in Perms

VARIABLES
  alone,       \* environment: requests come one at a time
  status,      \* users.status; "none" before the user is created
  holds,       \* user_roles
  rolePerms,   \* role_permissions
  promoted,    \* history: somebody has been made SUPER_ADMIN
  pc, op, actor, aperms, target, role, wanted,   \* the handlers
  changes

dbVars      == <<status, holds, rolePerms, promoted>>
handlerVars == <<pc, op, actor, aperms, target, role, wanted>>
vars == <<alone, dbVars, handlerVars, changes>>

Status == {"none", "ACTIVE", "SUSPENDED", "DELETED"}
Ops    == {"grant", "revoke", "ban", "unban", "delete", "create", "invite", "map"}
OnRole == {"grant", "revoke", "invite", "map"}   \* operations that read a role

PermsOf(u) == UNION {rolePerms[r] : r \in holds[u]}

\* The active holders of SUPER_ADMIN, and those who remain without u.
SuperAdmins  == {u \in Users : SuperAdmin \in holds[u] /\ status[u] = "ACTIVE"}

\* Mutant of Remaining: the target counts himself.
RemainingWithTarget(u) == SuperAdmins

Remaining(u) == SuperAdmins \ {u}

Init ==
  /\ alone \in BOOLEAN
  /\ status \in [Users -> {"none", "ACTIVE"}]
  /\ holds \in [Users -> {{}, {SuperAdmin}} \union {{r} : r \in Roles}]
  /\ \A u \in Users : status[u] = "none" => holds[u] = {}
  /\ SuperAdmins # {}
  /\ rolePerms \in [Roles -> SUBSET Perms]
  /\ promoted = FALSE
  /\ pc = [h \in Handlers |-> "idle"]
  /\ op = [h \in Handlers |-> "map"]
  /\ actor \in [Handlers -> Users]
  /\ aperms = [h \in Handlers |-> {}]
  /\ target = actor
  /\ role \in [Handlers -> {SuperAdmin}]
  /\ wanted = [h \in Handlers |-> {}]
  /\ changes = 0

Goto(h, step) == pc' = [pc EXCEPT ![h] = step]

End(h) ==
  /\ Goto(h, "idle")
  /\ op' = [op EXCEPT ![h] = "map"]
  /\ actor' = actor
  /\ target' = [target EXCEPT ![h] = actor[h]]
  /\ aperms' = [aperms EXCEPT ![h] = {}]
  /\ role' = [role EXCEPT ![h] = SuperAdmin]
  /\ wanted' = [wanted EXCEPT ![h] = {}]

-----------------------------------------------------------------------------
(* Checks before the transaction                                           *)

\* checkDominance: not oneself, everything the target has and something more.
Dominates(a, ps, u) == a # u /\ PermsOf(u) \subseteq ps /\ PermsOf(u) # ps

\* The guard admits the actor by the route's permission; the operations on an
\* existing member then ask for dominance over him, and those that show his
\* detail, for a member who is not deleted.
Admit(h, a, o, u, r, ps) ==
  /\ pc[h] = "idle"
  /\ alone => \A g \in Handlers : pc[g] = "idle"
  /\ changes < MaxChanges
  /\ changes' = changes + 1
  /\ status[a] = "ACTIVE"
  /\ Manage \in PermsOf(a)
  /\ \/ o \in {"grant", "revoke"} /\ status[u] # "none" /\ Dominates(a, PermsOf(a), u)
     \/ /\ o \in {"ban", "unban", "delete"}
        /\ status[u] \notin {"none", "DELETED"}
        /\ Dominates(a, PermsOf(a), u)
     \/ o \in {"create", "invite"} /\ status[u] = "none"
     \/ o = "map"
  /\ Goto(h, IF o \in OnRole THEN "role" ELSE "commit")
  /\ op' = [op EXCEPT ![h] = o]
  /\ actor' = [actor EXCEPT ![h] = a]
  /\ aperms' = [aperms EXCEPT ![h] = PermsOf(a)]
  /\ target' = [target EXCEPT ![h] = u]
  /\ role' = [role EXCEPT ![h] = r]
  /\ wanted' = [wanted EXCEPT ![h] = ps]
  /\ UNCHANGED dbVars

\* Mutant of RoleAllowed: no comparison with the actor's permissions.
RoleAlwaysAllowed(h) == TRUE

\* The role is read: checkRoleSubset for a grant or a revocation (or a new
\* member's role), and for a mapping, that what it adds is the actor's own.
RoleAllowed(h) ==
  IF op[h] = "map" THEN wanted[h] \ rolePerms[role[h]] \subseteq aperms[h]
                   ELSE rolePerms[role[h]] \subseteq aperms[h]

CheckRole(h) ==
  /\ pc[h] = "role"
  /\ \/ /\ RoleAllowed(h)
        /\ Goto(h, "commit")
        /\ UNCHANGED <<op, actor, aperms, target, role, wanted>>
     \/ ~RoleAllowed(h) /\ End(h)
  /\ UNCHANGED <<dbVars, changes>>

-----------------------------------------------------------------------------
(* Transactions                                                            *)

Commit(h, o) == pc[h] = "commit" /\ op[h] = o

Grant(h) ==
  /\ Commit(h, "grant")
  /\ holds' = [holds EXCEPT ![target[h]] = @ \union {role[h]}]
  /\ promoted' = (promoted \/ role[h] = SuperAdmin)
  /\ End(h)
  /\ UNCHANGED <<status, rolePerms, changes>>

\* MembersService.create, without a role or with one; the address may have been
\* taken meanwhile.
Create(h) ==
  /\ Commit(h, "create") \/ Commit(h, "invite")
  /\ \/ /\ status[target[h]] = "none"
        /\ status' = [status EXCEPT ![target[h]] = "ACTIVE"]
        /\ holds' = [holds EXCEPT ![target[h]] = IF op[h] = "invite" THEN {role[h]} ELSE {}]
        /\ promoted' = (promoted \/ (op[h] = "invite" /\ role[h] = SuperAdmin))
     \/ status[target[h]] # "none" /\ UNCHANGED <<status, holds, promoted>>
  /\ End(h)
  /\ UNCHANGED <<rolePerms, changes>>

Unban(h) ==
  /\ Commit(h, "unban")
  /\ status' = [status EXCEPT ![target[h]] = "ACTIVE"]
  /\ End(h)
  /\ UNCHANGED <<holds, rolePerms, promoted, changes>>

\* setPermissions replaces the mapping by what was asked for.
ReplaceMapping(h) ==
  /\ Commit(h, "map")
  /\ rolePerms' = [rolePerms EXCEPT ![role[h]] = wanted[h]]
  /\ End(h)
  /\ UNCHANGED <<status, holds, promoted, changes>>

\* What a ban, a deletion or a revocation does to the target.
Demote(h) ==
  /\ status' = [status EXCEPT ![target[h]] =
       IF op[h] = "ban" THEN "SUSPENDED" ELSE IF op[h] = "delete" THEN "DELETED" ELSE @]
  /\ holds' = [holds EXCEPT ![target[h]] = IF op[h] = "revoke" THEN @ \ {role[h]} ELSE @]
  /\ End(h)
  /\ UNCHANGED <<rolePerms, promoted, changes>>

\* Every demotion first calls ensureRemains, a revocation only for SUPER_ADMIN.
Demotion(h) ==
  /\ pc[h] = "commit"
  /\ \/ op[h] \in {"ban", "delete"}
     \/ op[h] = "revoke" /\ role[h] = SuperAdmin

\* The target is a SUPER_ADMIN: the rows of the active ones are locked and
\* counted, and the change commits under the lock.
GuardedDemotion(h) ==
  /\ Demotion(h)
  /\ SuperAdmin \in holds[target[h]]
  /\ Remaining(target[h]) # {}
  /\ Demote(h)

LastSuperAdmin(h) ==
  /\ Demotion(h)
  /\ SuperAdmin \in holds[target[h]]
  /\ Remaining(target[h]) = {}
  /\ End(h)
  /\ UNCHANGED <<dbVars, changes>>

\* He is not: ensureRemains returns without a lock, and the transaction goes on.
NotSuperAdmin(h) ==
  /\ Demotion(h)
  /\ SuperAdmin \notin holds[target[h]]
  /\ Goto(h, "unguarded")
  /\ UNCHANGED <<dbVars, op, actor, aperms, target, role, wanted, changes>>

UnguardedDemotion(h) ==
  /\ \/ pc[h] = "unguarded"
     \/ Commit(h, "revoke") /\ role[h] # SuperAdmin
  /\ Demote(h)

-----------------------------------------------------------------------------
HandlerStep(h) ==
  \/ CheckRole(h)
  \/ Grant(h)
  \/ Create(h)
  \/ Unban(h)
  \/ ReplaceMapping(h)
  \/ GuardedDemotion(h)
  \/ LastSuperAdmin(h)
  \/ NotSuperAdmin(h)
  \/ UnguardedDemotion(h)

Requests(h) ==
  \E a \in Users :
    \/ \E u \in Users, o \in {"ban", "unban", "delete", "create"} : Admit(h, a, o, u, SuperAdmin, {})
    \/ \E u \in Users, r \in Grantable, o \in {"grant", "invite"} : Admit(h, a, o, u, r, {})
    \/ \E u \in Users, r \in Roles : Admit(h, a, "revoke", u, r, {})
    \/ \E r \in Roles, ps \in SUBSET Perms : Admit(h, a, "map", a, r, ps)

Step == \E h \in Handlers : Requests(h) \/ HandlerStep(h)

Next == Step /\ UNCHANGED alone

Spec == Init /\ [][Next]_vars

-----------------------------------------------------------------------------
(* Properties                                                              *)

TypeOK ==
  /\ alone \in BOOLEAN
  /\ status \in [Users -> Status]
  /\ holds \in [Users -> SUBSET Roles]
  /\ rolePerms \in [Roles -> SUBSET Perms]
  /\ promoted \in BOOLEAN
  /\ pc \in [Handlers -> {"idle", "role", "commit", "unguarded"}]
  /\ op \in [Handlers -> Ops]
  /\ actor \in [Handlers -> Users]
  /\ aperms \in [Handlers -> SUBSET Perms]
  /\ target \in [Handlers -> Users]
  /\ role \in [Handlers -> Roles]
  /\ wanted \in [Handlers -> SUBSET Perms]
  /\ changes \in Nat

\* RI-1: the tenant keeps an active SUPER_ADMIN through every revocation,
\* suspension and deletion (super-admin-guard.service 7).
SuperAdminRemains == SuperAdmins # {}

\* It is so while requests come one at a time; and when they overlap, as long
\* as nobody is made SUPER_ADMIN: a demotion that found its target without the
\* role takes no lock, and would not see him become the last one.
RemainsUnlessPromoted == alone \/ ~promoted => SuperAdminRemains

\* Administration, one request at a time, only passes permissions on: one that
\* no member has is not acquired by any sequence of grants, invitations and
\* mapping edits (members 218, roles.service 193).
PowerOfAll == UNION {PermsOf(u) : u \in {v \in Users : status[v] # "none"}}
NoPowerFromNothing == [][alone => PowerOfAll' \subseteq PowerOfAll]_vars
=============================================================================
