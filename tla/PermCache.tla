----------------------------- MODULE PermCache -----------------------------
(***************************************************************************)
(* The permission snapshot cache of apps/api: how a request obtains the    *)
(* snapshot (status, roles, permissions) of its subject, and how a change  *)
(* of roles, of status or of a role's permissions reaches it.              *)
(*                                                                         *)
(* The authority is users.perm_version (pv).  A request reads it first,    *)
(* then the Redis entry perm:{user}, and rebuilds the snapshot with one    *)
(* query per table when the entry is absent or carries another pv.  Every  *)
(* query outside a transaction is a step of its own (READ COMMITTED); a    *)
(* transaction is one step, at its commit.  Redis may fail at each call.   *)
(***************************************************************************)
EXTENDS Integers, FiniteSets

CONSTANTS
  Users,        \* subjects whose snapshots are cached
  Roles,        \* rows of roles that exist initially
  Removable,    \* the roles with is_system = false
  Perms,        \* permission codes
  Requests,     \* request handlers running AuthGuard.canActivate
  Admins,       \* request handlers running an administrative change
  Crashes,      \* whether the API process may die inside a handler
  MaxChanges,   \* bound: administrative changes started
  NoSnapshot    \* the absence of a cache entry or of a snapshot in hand

Status     == {"ACTIVE", "SUSPENDED"}
Assignment == {"none", "permanent", "timed", "expired"}
Snapshot   == [pv : Nat, status : Status, roles : SUBSET Roles, perms : SUBSET Perms]

ASSUME SnapshotAssumption == NoSnapshot \notin Snapshot
ASSUME RemovableAssumption == Removable \subseteq Roles
ASSUME CrashesAssumption == Crashes \in BOOLEAN

VARIABLES
  pv,          \* users.perm_version
  status,      \* users.status
  assign,      \* user_roles: none | permanent | timed | expired
  rolePerms,   \* role_permissions
  roles,       \* the roles not deleted
  cache,       \* Redis, key perm:{user}
  rpc, subject, claim, seen, snap, again,   \* the request handlers
  apc, arole, aids,                         \* the administrative handlers
  changes,     \* number of changes started
  owed,        \* history: users whose rights changed since their last pv bump
  dropped      \* history: those of them whom a crash or a role's removal left unbumped

dbVars      == <<pv, status, assign, rolePerms, roles>>
requestVars == <<rpc, subject, claim, seen, snap, again>>
adminVars   == <<apc, arole, aids>>
vars == <<dbVars, cache, requestVars, adminVars, changes, owed, dropped>>

RequestPc  == {"idle", "get", "user", "rows", "mapping", "set", "served"}
InHand     == {"rows", "mapping", "set", "served"}  \* a snapshot is in hand
AdminPc    == {"idle", "remove", "mapped", "bump", "flush"}

Assigned(u) == {r \in Roles : assign[u][r] # "none"}
Expired(u)  == {r \in Roles : assign[u][r] = "expired"}
Holders(r)  == {u \in Users : assign[u][r] # "none"}
PermsOf(rs) == UNION {rolePerms[r] : r \in rs}

Init ==
  /\ pv = [u \in Users |-> 1]
  /\ status = [u \in Users |-> "ACTIVE"]
  /\ assign \in [Users -> [Roles -> {"none", "permanent", "timed"}]]
  /\ rolePerms \in [Roles -> SUBSET Perms]
  /\ roles = Roles
  /\ cache = [u \in Users |-> NoSnapshot]
  /\ rpc = [h \in Requests |-> "idle"]
  /\ subject \in [Requests -> Users]
  /\ claim = [h \in Requests |-> 1]
  /\ seen = [h \in Requests |-> 1]
  /\ snap = [h \in Requests |-> NoSnapshot]
  /\ again = [h \in Requests |-> FALSE]
  /\ apc = [a \in Admins |-> "idle"]
  /\ arole \in [Admins -> Roles]
  /\ aids = [a \in Admins |-> {}]
  /\ changes = 0
  /\ owed = {}
  /\ dropped = {}

-----------------------------------------------------------------------------
(* AuthGuard.canActivate and SnapshotService                               *)

\* The token is valid and carries the pv at its issue; forUser reads the
\* authoritative pv.
ReadPv(h, u, c) ==
  /\ rpc[h] = "idle"
  /\ c \in 1..pv[u]
  /\ rpc' = [rpc EXCEPT ![h] = "get"]
  /\ subject' = [subject EXCEPT ![h] = u]
  /\ claim' = [claim EXCEPT ![h] = c]
  /\ seen' = [seen EXCEPT ![h] = pv[u]]
  /\ UNCHANGED <<dbVars, cache, snap, again, adminVars, changes, owed, dropped>>

\* The handler is done, whatever it answers.
End(h) ==
  /\ rpc' = [rpc EXCEPT ![h] = "idle"]
  /\ claim' = [claim EXCEPT ![h] = 1]
  /\ seen' = [seen EXCEPT ![h] = 1]
  /\ snap' = [snap EXCEPT ![h] = NoSnapshot]
  /\ again' = [again EXCEPT ![h] = FALSE]

\* What the guard does with a snapshot: serve the request if its pv is the
\* token's, else rebuild once more from the database, else 401.
Decide(h, s) ==
  \/ /\ s.pv = claim[h]
     /\ rpc' = [rpc EXCEPT ![h] = "served"]
     /\ snap' = [snap EXCEPT ![h] = s]
     /\ UNCHANGED <<claim, seen, again>>
  \/ /\ s.pv # claim[h]
     /\ ~again[h]
     /\ rpc' = [rpc EXCEPT ![h] = "user"]
     /\ snap' = [snap EXCEPT ![h] = NoSnapshot]
     /\ again' = [again EXCEPT ![h] = TRUE]
     /\ UNCHANGED <<claim, seen>>
  \/ /\ s.pv # claim[h]
     /\ again[h]
     /\ End(h)

\* Mutant of GetCache: a hit is used without comparing its pv.
GetCacheAnyPv(h) ==
  /\ rpc[h] = "get"
  /\ \/ cache[subject[h]] # NoSnapshot /\ Decide(h, cache[subject[h]])
     \/ /\ cache[subject[h]] = NoSnapshot
        /\ rpc' = [rpc EXCEPT ![h] = "user"]
        /\ UNCHANGED <<claim, seen, snap, again>>
  /\ UNCHANGED <<dbVars, cache, subject, adminVars, changes, owed, dropped>>

\* cache.get: a hit is used only when its pv is the pv just read.  A Redis
\* failure (raw = NoSnapshot) is a miss.
GetCache(h) ==
  /\ rpc[h] = "get"
  /\ \E raw \in {cache[subject[h]], NoSnapshot} :
       \/ /\ raw # NoSnapshot
          /\ raw.pv = seen[h]
          /\ Decide(h, raw)
       \/ /\ raw # NoSnapshot => raw.pv # seen[h]
          /\ rpc' = [rpc EXCEPT ![h] = "user"]
          /\ UNCHANGED <<claim, seen, snap, again>>
  /\ UNCHANGED <<dbVars, cache, subject, adminVars, changes, owed, dropped>>

\* rebuildFromDb, first query: the users row.
ReadUser(h) ==
  /\ rpc[h] = "user"
  /\ rpc' = [rpc EXCEPT ![h] = "rows"]
  /\ snap' = [snap EXCEPT ![h] = [pv     |-> pv[subject[h]],
                                  status |-> status[subject[h]],
                                  roles  |-> {},
                                  perms  |-> {}]]
  /\ UNCHANGED <<dbVars, cache, subject, claim, seen, again, adminVars, changes, owed, dropped>>

\* Second query: the user_roles rows, expired ones included.
ReadUserRoles(h) ==
  /\ rpc[h] = "rows"
  /\ rpc' = [rpc EXCEPT ![h] = "mapping"]
  /\ snap' = [snap EXCEPT ![h].roles = Assigned(subject[h])]
  /\ UNCHANGED <<dbVars, cache, subject, claim, seen, again, adminVars, changes, owed, dropped>>

\* Mutant of Built: expired roles are dropped, their permissions are not.
BuiltWithExpired(h) ==
  [snap[h] EXCEPT !.roles = @ \ Expired(subject[h]), !.perms = PermsOf(snap[h].roles)]

\* Last queries: the roles and role_permissions of those rows; expired rows
\* are then dropped by the clock and the union is taken.
Built(h) ==
  LET kept == snap[h].roles \ Expired(subject[h])
  IN  [pv |-> snap[h].pv, status |-> snap[h].status, roles |-> kept, perms |-> PermsOf(kept)]

\* A rebuild of forUser goes on to cache.set, the guard's own does not.
BuildSnapshot(h) ==
  /\ rpc[h] = "mapping"
  /\ \/ /\ ~again[h]
        /\ rpc' = [rpc EXCEPT ![h] = "set"]
        /\ snap' = [snap EXCEPT ![h] = Built(h)]
        /\ UNCHANGED <<claim, seen, again>>
     \/ again[h] /\ Decide(h, Built(h))
  /\ UNCHANGED <<dbVars, cache, subject, adminVars, changes, owed, dropped>>

\* A role deleted under the rebuild: the required relation is missing and the
\* query throws.
RebuildError(h) ==
  /\ rpc[h] = "mapping"
  /\ ~(snap[h].roles \subseteq roles)
  /\ End(h)
  /\ UNCHANGED <<dbVars, cache, subject, adminVars, changes, owed, dropped>>

\* cache.set with the pv read at the start of the rebuild; the write may fail.
SetCache(h) ==
  /\ rpc[h] = "set"
  /\ cache' \in {cache, [cache EXCEPT ![subject[h]] = snap[h]]}
  /\ Decide(h, snap[h])
  /\ UNCHANGED <<dbVars, subject, adminVars, changes, owed, dropped>>

\* The served request ends.
Finish(h) ==
  /\ rpc[h] = "served"
  /\ End(h)
  /\ UNCHANGED <<dbVars, cache, subject, adminVars, changes, owed, dropped>>

\* TTL (300 s), eviction or a Redis restart.
CacheExpire(u) ==
  /\ cache[u] # NoSnapshot
  /\ cache' = [cache EXCEPT ![u] = NoSnapshot]
  /\ UNCHANGED <<dbVars, requestVars, adminVars, changes, owed, dropped>>

-----------------------------------------------------------------------------
(* Administrative changes                                                  *)

\* Commit a change of user u together with pv + 1 (bumpInTx), then flush.
CommitWithBump(a, u) ==
  /\ apc[a] = "idle"
  /\ changes < MaxChanges
  /\ changes' = changes + 1
  /\ pv' = [pv EXCEPT ![u] = @ + 1]
  /\ owed' = owed \ {u}
  /\ dropped' = dropped \ {u}
  /\ apc' = [apc EXCEPT ![a] = "flush"]
  /\ aids' = [aids EXCEPT ![a] = {u}]
  /\ UNCHANGED <<rolePerms, roles, cache, requestVars, arole>>

\* RoleGrantService.grant: an upsert whose update part is empty, so an existing
\* row keeps its expiry; pv grows all the same.
GrantRole(a, u, r, kind) ==
  /\ r \in roles
  /\ assign' = [assign EXCEPT ![u][r] = IF @ = "none" THEN kind ELSE @]
  /\ CommitWithBump(a, u)
  /\ UNCHANGED status

\* RoleGrantService.revoke: deleteMany, no error when there is no row.
RevokeRole(a, u, r) ==
  /\ assign' = [assign EXCEPT ![u][r] = "none"]
  /\ CommitWithBump(a, u)
  /\ UNCHANGED status

\* Mutant of SetStatus: the entry is flushed, pv does not move.
SetStatusNoBump(a, u, s) ==
  /\ apc[a] = "idle"
  /\ changes < MaxChanges
  /\ changes' = changes + 1
  /\ status' = [status EXCEPT ![u] = s]
  /\ apc' = [apc EXCEPT ![a] = "flush"]
  /\ aids' = [aids EXCEPT ![a] = {u}]
  /\ UNCHANGED <<pv, assign, rolePerms, roles, cache, requestVars, arole, owed, dropped>>

\* MembersService.setBanned: the new status, whatever the old one was.
SetStatus(a, u, s) ==
  /\ status' = [status EXCEPT ![u] = s]
  /\ CommitWithBump(a, u)
  /\ UNCHANGED assign

\* The clock passes user_roles.expires_at; no code runs.
RoleExpires(u, r) ==
  /\ assign[u][r] = "timed"
  /\ assign' = [assign EXCEPT ![u][r] = "expired"]
  /\ UNCHANGED <<pv, status, rolePerms, roles, cache, requestVars, adminVars, changes, owed, dropped>>

\* The handler is going to bump user u: he is on its list, or a holder it has yet to read.
Carries(a, u) ==
  \/ apc[a] = "mapped" /\ u \in Holders(arole[a])
  \/ apc[a] = "bump" /\ u \in aids[a]

\* setPermissions: the transaction replaces the mapping and commits before any
\* pv has moved.
CommitMapping(a, r, ps) ==
  /\ apc[a] = "idle"
  /\ changes < MaxChanges
  /\ r \in roles
  /\ changes' = changes + 1
  /\ rolePerms' = [rolePerms EXCEPT ![r] = ps]
  /\ owed' = owed \union Holders(r)
  /\ apc' = [apc EXCEPT ![a] = "mapped"]
  /\ arole' = [arole EXCEPT ![a] = r]
  /\ UNCHANGED <<pv, status, assign, roles, cache, requestVars, aids, dropped>>

\* Mutant of ReadHolders: only the assignments in force are looked at.
ReadHoldersInForce(a) ==
  /\ apc[a] = "mapped"
  /\ LET found == {u \in Holders(arole[a]) : arole[a] \notin Expired(u)}
     IN /\ aids' = [aids EXCEPT ![a] = found]
        /\ apc' = [apc EXCEPT ![a] = IF found = {} THEN "idle" ELSE "bump"]
  /\ UNCHANGED <<dbVars, cache, requestVars, arole, changes, owed, dropped>>

\* invalidateRoleHolders: read the holders (none: nothing to bump or flush) ...
ReadHolders(a) ==
  /\ apc[a] = "mapped"
  /\ aids' = [aids EXCEPT ![a] = Holders(arole[a])]
  /\ apc' = [apc EXCEPT ![a] = IF Holders(arole[a]) = {} THEN "idle" ELSE "bump"]
  /\ UNCHANGED <<dbVars, cache, requestVars, arole, changes, owed, dropped>>

\* Mutant of BumpHolders: on to the flush without the bump.
BumpNobody(a) ==
  /\ apc[a] = "bump"
  /\ apc' = [apc EXCEPT ![a] = "flush"]
  /\ UNCHANGED <<dbVars, cache, requestVars, arole, aids, changes, owed, dropped>>

\* ... then bump them all in one updateMany ...
BumpHolders(a) ==
  /\ apc[a] = "bump"
  /\ pv' = [u \in Users |-> IF u \in aids[a] THEN pv[u] + 1 ELSE pv[u]]
  /\ owed' = owed \ aids[a]
  /\ dropped' = dropped \ aids[a]
  /\ apc' = [apc EXCEPT ![a] = "flush"]
  /\ UNCHANGED <<status, assign, rolePerms, roles, cache, requestVars, arole, aids, changes>>

\* ... and delete their entries: one DEL of all keys, which may fail.
FlushCache(a) ==
  /\ apc[a] = "flush"
  /\ cache' \in {cache, [u \in Users |-> IF u \in aids[a] THEN NoSnapshot ELSE cache[u]]}
  /\ apc' = [apc EXCEPT ![a] = "idle"]
  /\ aids' = [aids EXCEPT ![a] = {}]
  /\ UNCHANGED <<dbVars, requestVars, arole, changes, owed, dropped>>

\* RolesService.remove: the system flag and the holders are checked ...
CheckRemove(a, r) ==
  /\ apc[a] = "idle"
  /\ changes < MaxChanges
  /\ r \in roles \cap Removable
  /\ Holders(r) = {}
  /\ changes' = changes + 1
  /\ apc' = [apc EXCEPT ![a] = "remove"]
  /\ arole' = [arole EXCEPT ![a] = r]
  /\ UNCHANGED <<dbVars, cache, requestVars, aids, owed, dropped>>

\* ... and the row is deleted in a later transaction; user_roles and
\* role_permissions rows go with it (ON DELETE CASCADE), no pv moves.
RemoveRole(a) ==
  /\ apc[a] = "remove"
  /\ LET r == arole[a]
     IN \/ /\ r \in roles
           /\ roles' = roles \ {r}
           /\ assign' = [u \in Users |-> [assign[u] EXCEPT ![r] = "none"]]
           /\ rolePerms' = [rolePerms EXCEPT ![r] = {}]
           /\ owed' = owed \union Holders(r)
           /\ dropped' = dropped \union Holders(r)
        \/ r \notin roles /\ UNCHANGED <<roles, assign, rolePerms, owed, dropped>>
  /\ apc' = [apc EXCEPT ![a] = "idle"]
  /\ UNCHANGED <<pv, status, cache, requestVars, arole, aids, changes>>

\* The process dies between two steps of an administrative handler; nothing
\* resumes it, and whom it alone was going to bump is not bumped.
CrashAdmin(a) ==
  /\ Crashes
  /\ apc[a] # "idle"
  /\ apc' = [apc EXCEPT ![a] = "idle"]
  /\ aids' = [aids EXCEPT ![a] = {}]
  /\ dropped' = dropped \union
       {u \in owed : Carries(a, u) /\ \A b \in Admins \ {a} : ~Carries(b, u)}
  /\ UNCHANGED <<dbVars, cache, requestVars, arole, changes, owed>>

-----------------------------------------------------------------------------
RequestStep(h) ==
  \/ GetCache(h)
  \/ ReadUser(h)
  \/ ReadUserRoles(h)
  \/ BuildSnapshot(h)
  \/ RebuildError(h)
  \/ SetCache(h)
  \/ Finish(h)

AdminStep(a) ==
  \/ ReadHolders(a)
  \/ BumpHolders(a)
  \/ FlushCache(a)
  \/ RemoveRole(a)

AdminStart(a) ==
  \/ \E u \in Users, r \in Roles, kind \in {"permanent", "timed"} : GrantRole(a, u, r, kind)
  \/ \E u \in Users, r \in Roles : RevokeRole(a, u, r)
  \/ \E u \in Users, s \in Status : SetStatus(a, u, s)
  \/ \E r \in Roles, ps \in SUBSET Perms : CommitMapping(a, r, ps)
  \/ \E r \in Roles : CheckRemove(a, r)

Next ==
  \/ \E h \in Requests, u \in Users, c \in 1..(MaxChanges + 1) : ReadPv(h, u, c)
  \/ \E h \in Requests : RequestStep(h)
  \/ \E u \in Users : CacheExpire(u)
  \/ \E u \in Users, r \in Roles : RoleExpires(u, r)
  \/ \E a \in Admins : AdminStart(a) \/ AdminStep(a) \/ CrashAdmin(a)

Spec == Init /\ [][Next]_vars

\* An administrative handler that has started goes on to its end: node's event
\* loop resumes every awaited call, and each call returns or fails.
Fairness == \A a \in Admins : WF_vars(AdminStep(a))

-----------------------------------------------------------------------------
(* Properties                                                              *)

DbTypeOK ==
  /\ pv \in [Users -> Nat]
  /\ status \in [Users -> Status]
  /\ assign \in [Users -> [Roles -> Assignment]]
  /\ rolePerms \in [Roles -> SUBSET Perms]
  /\ roles \in SUBSET Roles
  /\ owed \in SUBSET Users
  /\ dropped \in SUBSET owed

RequestTypeOK ==
  /\ rpc \in [Requests -> RequestPc]
  /\ subject \in [Requests -> Users]
  /\ claim \in [Requests -> Nat]
  /\ seen \in [Requests -> Nat]
  /\ snap \in [Requests -> Snapshot \union {NoSnapshot}]
  /\ again \in [Requests -> BOOLEAN]
  /\ \A h \in Requests : rpc[h] \in InHand => snap[h] \in Snapshot

AdminTypeOK ==
  /\ apc \in [Admins -> AdminPc]
  /\ arole \in [Admins -> Roles]
  /\ aids \in [Admins -> SUBSET Users]
  /\ changes \in Nat

TypeOK ==
  /\ DbTypeOK
  /\ RequestTypeOK
  /\ AdminTypeOK
  /\ cache \in [Users -> Snapshot \union {NoSnapshot}]

\* A snapshot agrees with the database: same status, every role in force and
\* none that is not assigned, and exactly the permissions those roles map to.
\* (A role may expire after the snapshot was built; nothing bumps pv then.)
Fresh(u, s) ==
  /\ s.status = status[u]
  /\ Assigned(u) \ Expired(u) \subseteq s.roles
  /\ s.roles \subseteq Assigned(u)
  /\ s.perms = PermsOf(s.roles)

\* The pv backstop of snapshot.service: whatever was lost, delayed or written
\* late, a cache entry that a request may still use (its pv is the user's pv)
\* is the user's state, unless a change of u's rights has yet to bump pv.
CacheCoherent ==
  \A u \in Users :
    (cache[u] # NoSnapshot /\ cache[u].pv = pv[u] /\ u \notin owed) => Fresh(u, cache[u])

\* The same of the snapshot a request is being served with, cached or rebuilt:
\* as long as pv has not moved the guard let through the user's real rights.
ServedCoherent ==
  \A h \in Requests :
    (rpc[h] = "served" /\ snap[h].pv = pv[subject[h]] /\ subject[h] \notin owed)
      => Fresh(subject[h], snap[h])

\* Every holder whose rights a mapping edit has changed is still on the list of
\* a handler that is going to bump him (roles.service 235-236), unless the one
\* that was died on its way or his role was removed under it.
OwedIsOnTheWay == \A u \in owed \ dropped : \E a \in Admins : Carries(a, u)

\* Every mapping edit reaches every holder, but for those: pv moves for each.
EditReachesHolders ==
  \A u \in Users : (u \in owed) ~> (u \notin owed \/ u \in dropped)

-----------------------------------------------------------------------------
(* The inductive invariant and the refinement                              *)

\* No snapshot carries a pv that was never the user's, and what a request has
\* in hand was read after it started.
Versions ==
  /\ \A u \in Users : cache[u] # NoSnapshot => cache[u].pv <= pv[u]
  /\ \A h \in Requests : rpc[h] # "idle" => seen[h] <= pv[subject[h]]
  /\ \A h \in Requests : rpc[h] \in InHand => snap[h].pv \in seen[h]..pv[subject[h]]

\* A rebuild in progress whose pv has not been overtaken holds the current
\* status and rows, and the finished snapshot is the current one: pv is read
\* first, so a change between two of its queries shows in pv.
InHandCoherent ==
  \A h \in Requests :
    LET u == subject[h] IN
    (rpc[h] \in InHand /\ snap[h].pv = pv[u] /\ u \notin owed) =>
      /\ snap[h].status = status[u]
      /\ rpc[h] = "mapping" => snap[h].roles = Assigned(u)
      /\ rpc[h] \in {"set", "served"} => Fresh(u, snap[h])

IInv == TypeOK /\ Versions /\ InHandCoherent /\ CacheCoherent

Promise == INSTANCE PermPromise WITH
  version <- pv,
  stage   <- [h \in Requests |-> IF rpc[h] = "idle" THEN "idle"
                                 ELSE IF rpc[h] = "served" THEN "answered" ELSE "running"],
  who     <- subject,
  floor   <- seen,
  used    <- [h \in Requests |-> IF rpc[h] = "served" THEN snap[h].pv ELSE 0]

\* Requests are served as PermPromise says, whatever Redis does.
KeepsPromise == Promise!Spec
=============================================================================
