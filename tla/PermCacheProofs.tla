-------------------------- MODULE PermCacheProofs --------------------------
(***************************************************************************)
(* Proofs about PermCache for any users, roles, permissions, number of     *)
(* request and administrative handlers, with or without crashes.           *)
(***************************************************************************)
EXTENDS PermCache, TLAPS

LEMMA InitTypeOK == Init => TypeOK
  BY DEF Init, InHand, TypeOK, DbTypeOK, RequestTypeOK, AdminTypeOK, RequestPc, AdminPc, Status, Assignment

(* The type invariant, action by action.                                   *)

LEMMA EndType ==
  ASSUME RequestTypeOK, NEW h \in Requests, End(h), UNCHANGED subject
  PROVE  RequestTypeOK'
  BY DEF RequestTypeOK, End, RequestPc, InHand

LEMMA DecideType ==
  ASSUME RequestTypeOK, NEW h \in Requests, NEW s \in Snapshot, Decide(h, s), UNCHANGED subject
  PROVE  RequestTypeOK'
<1>1. CASE End(h)
  BY <1>1, EndType
<1>2. CASE s.pv = claim[h] /\ ~End(h)
  BY <1>2 DEF RequestTypeOK, Decide, RequestPc, InHand
<1>3. CASE s.pv # claim[h] /\ ~End(h)
  BY <1>3 DEF RequestTypeOK, Decide, RequestPc, InHand
<1> QED
  BY <1>1, <1>2, <1>3

LEMMA GetCacheType ==
  ASSUME NEW h \in Requests, TypeOK, GetCache(h)
  PROVE  TypeOK'
<1>1. RequestTypeOK'
  <2>1. PICK raw \in {cache[subject[h]], NoSnapshot} :
          \/ raw # NoSnapshot /\ raw.pv = seen[h] /\ Decide(h, raw)
          \/ /\ rpc' = [rpc EXCEPT ![h] = "user"]
             /\ UNCHANGED <<claim, seen, snap, again>>
    BY DEF GetCache
  <2>2. UNCHANGED subject
    BY DEF GetCache
  <2>3. CASE raw # NoSnapshot /\ Decide(h, raw)
    <3>1. raw \in Snapshot
      BY <2>3 DEF TypeOK, RequestTypeOK, InHand
    <3> QED
      BY <2>2, <2>3, <3>1, DecideType DEF TypeOK
  <2>4. CASE rpc' = [rpc EXCEPT ![h] = "user"] /\ UNCHANGED <<claim, seen, snap, again>>
    BY <2>2, <2>4 DEF TypeOK, RequestTypeOK, RequestPc, InHand
  <2> QED
    BY <2>1, <2>3, <2>4
<1> QED
  BY <1>1 DEF GetCache, TypeOK, DbTypeOK, AdminTypeOK, dbVars, adminVars

LEMMA ReadUserType ==
  ASSUME NEW h \in Requests, TypeOK, ReadUser(h)
  PROVE  TypeOK'
<1>1. [pv |-> pv[subject[h]], status |-> status[subject[h]], roles |-> {}, perms |-> {}] \in Snapshot
  BY DEF TypeOK, DbTypeOK, RequestTypeOK, Snapshot, InHand
<1> QED
  BY <1>1 DEF ReadUser, TypeOK, DbTypeOK, RequestTypeOK, AdminTypeOK, RequestPc, dbVars, adminVars, InHand

LEMMA ReadUserRolesType ==
  ASSUME NEW h \in Requests, TypeOK, ReadUserRoles(h)
  PROVE  TypeOK'
<1>1. [snap[h] EXCEPT !.roles = Assigned(subject[h])] \in Snapshot
  BY DEF ReadUserRoles, TypeOK, RequestTypeOK, Snapshot, Assigned, InHand
<1>2. snap' = [snap EXCEPT ![h] = [snap[h] EXCEPT !.roles = Assigned(subject[h])]]
  BY DEF ReadUserRoles, TypeOK, RequestTypeOK, InHand
<1> QED
  BY <1>1, <1>2 DEF ReadUserRoles, TypeOK, DbTypeOK, RequestTypeOK, AdminTypeOK, RequestPc, dbVars, adminVars, InHand

LEMMA BuiltType ==
  ASSUME NEW h \in Requests, TypeOK, rpc[h] = "mapping"
  PROVE  Built(h) \in Snapshot
<1>1. snap[h] \in Snapshot
  BY DEF TypeOK, RequestTypeOK, InHand
<1>2. \A rs \in SUBSET Roles : PermsOf(rs) \in SUBSET Perms
  BY DEF TypeOK, DbTypeOK, PermsOf
<1>3. /\ snap[h].pv \in Nat
      /\ snap[h].status \in Status
      /\ snap[h].roles \ Expired(subject[h]) \in SUBSET Roles
  BY <1>1 DEF Snapshot
<1> QED
  BY <1>2, <1>3 DEF Built, Snapshot

LEMMA BuildSnapshotType ==
  ASSUME NEW h \in Requests, TypeOK, BuildSnapshot(h)
  PROVE  TypeOK'
<1>1. Built(h) \in Snapshot
  BY BuiltType DEF BuildSnapshot
<1>2. RequestTypeOK'
  <2>1. CASE /\ rpc' = [rpc EXCEPT ![h] = "set"]
             /\ snap' = [snap EXCEPT ![h] = Built(h)]
             /\ UNCHANGED <<claim, seen, again>>
    BY <1>1, <2>1 DEF BuildSnapshot, TypeOK, RequestTypeOK, RequestPc, InHand
  <2>2. CASE Decide(h, Built(h))
    BY <1>1, <2>2, DecideType DEF BuildSnapshot, TypeOK
  <2> QED
    BY <2>1, <2>2 DEF BuildSnapshot
<1> QED
  BY <1>2 DEF BuildSnapshot, TypeOK, DbTypeOK, AdminTypeOK, dbVars, adminVars

LEMMA SetCacheType ==
  ASSUME NEW h \in Requests, TypeOK, SetCache(h)
  PROVE  TypeOK'
<1>1. snap[h] \in Snapshot
  BY DEF SetCache, TypeOK, RequestTypeOK, InHand
<1>2. RequestTypeOK'
  BY <1>1, DecideType DEF SetCache, TypeOK
<1>3. cache' \in [Users -> Snapshot \union {NoSnapshot}]
  BY <1>1 DEF SetCache, TypeOK
<1> QED
  BY <1>2, <1>3 DEF SetCache, TypeOK, DbTypeOK, AdminTypeOK, dbVars, adminVars

LEMMA ReadPvType ==
  ASSUME NEW h \in Requests, NEW u \in Users, NEW c \in Nat, TypeOK, ReadPv(h, u, c)
  PROVE  TypeOK'
  BY DEF ReadPv, TypeOK, DbTypeOK, RequestTypeOK, AdminTypeOK, RequestPc, dbVars, adminVars, InHand

LEMMA EndStepType ==
  ASSUME NEW h \in Requests, TypeOK, RebuildError(h) \/ Finish(h)
  PROVE  TypeOK'
<1>1. RequestTypeOK'
  BY EndType DEF RebuildError, Finish, TypeOK
<1> QED
  BY <1>1 DEF RebuildError, Finish, TypeOK, DbTypeOK, AdminTypeOK, dbVars, adminVars

LEMMA CacheExpireType ==
  ASSUME NEW u \in Users, TypeOK, CacheExpire(u)
  PROVE  TypeOK'
  BY DEF CacheExpire, TypeOK, DbTypeOK, RequestTypeOK, AdminTypeOK, dbVars, requestVars, adminVars, InHand

LEMMA AdminStartType ==
  ASSUME NEW a \in Admins, TypeOK, AdminStart(a)
  PROVE  TypeOK'
<1>1. ASSUME NEW u \in Users, CommitWithBump(a, u),
             assign' \in [Users -> [Roles -> Assignment]], status' \in [Users -> Status]
      PROVE  TypeOK'
  BY <1>1 DEF CommitWithBump, TypeOK, DbTypeOK, RequestTypeOK, AdminTypeOK, AdminPc, requestVars, InHand
<1>2. ASSUME NEW u \in Users, NEW r \in Roles, NEW kind \in {"permanent", "timed"},
             GrantRole(a, u, r, kind)
      PROVE  TypeOK'
  <2>1. assign' \in [Users -> [Roles -> Assignment]] /\ status' \in [Users -> Status]
    BY <1>2 DEF GrantRole, TypeOK, DbTypeOK, Assignment
  <2> QED
    BY <1>1, <1>2, <2>1 DEF GrantRole
<1>3. ASSUME NEW u \in Users, NEW r \in Roles, RevokeRole(a, u, r)
      PROVE  TypeOK'
  <2>1. assign' \in [Users -> [Roles -> Assignment]] /\ status' \in [Users -> Status]
    BY <1>3 DEF RevokeRole, TypeOK, DbTypeOK, Assignment
  <2> QED
    BY <1>1, <1>3, <2>1 DEF RevokeRole
<1>4. ASSUME NEW u \in Users, NEW s \in Status, SetStatus(a, u, s)
      PROVE  TypeOK'
  <2>1. assign' \in [Users -> [Roles -> Assignment]] /\ status' \in [Users -> Status]
    BY <1>4 DEF SetStatus, TypeOK, DbTypeOK
  <2> QED
    BY <1>1, <1>4, <2>1 DEF SetStatus
<1>5. ASSUME NEW r \in Roles, NEW ps \in SUBSET Perms, CommitMapping(a, r, ps)
      PROVE  TypeOK'
  BY <1>5 DEF CommitMapping, Holders, TypeOK, DbTypeOK, RequestTypeOK, AdminTypeOK, AdminPc, requestVars, InHand
<1>6. ASSUME NEW r \in Roles, CheckRemove(a, r)
      PROVE  TypeOK'
  BY <1>6 DEF CheckRemove, TypeOK, DbTypeOK, RequestTypeOK, AdminTypeOK, AdminPc, dbVars, requestVars, InHand
<1> QED
  BY <1>2, <1>3, <1>4, <1>5, <1>6 DEF AdminStart

LEMMA AdminStepType ==
  ASSUME NEW a \in Admins, TypeOK, AdminStep(a) \/ CrashAdmin(a)
  PROVE  TypeOK'
<1>1. CASE ReadHolders(a)
  BY <1>1 DEF ReadHolders, Holders, TypeOK, DbTypeOK, RequestTypeOK, AdminTypeOK, AdminPc, dbVars, requestVars, InHand
<1>2. CASE BumpHolders(a)
  BY <1>2 DEF BumpHolders, TypeOK, DbTypeOK, RequestTypeOK, AdminTypeOK, AdminPc, requestVars, InHand
<1>3. CASE FlushCache(a)
  BY <1>3 DEF FlushCache, TypeOK, DbTypeOK, RequestTypeOK, AdminTypeOK, AdminPc, dbVars, requestVars, InHand
<1>4. CASE RemoveRole(a)
  <2>1. DbTypeOK'
    <3>1. arole[a] \in Roles /\ Holders(arole[a]) \subseteq Users
      BY DEF TypeOK, AdminTypeOK, Holders
    <3>2. CASE /\ roles' = roles \ {arole[a]}
               /\ assign' = [u \in Users |-> [assign[u] EXCEPT ![arole[a]] = "none"]]
               /\ rolePerms' = [rolePerms EXCEPT ![arole[a]] = {}]
               /\ owed' = owed \union Holders(arole[a])
      <4>1. \A u \in Users : [assign[u] EXCEPT ![arole[a]] = "none"] \in [Roles -> Assignment]
        BY DEF TypeOK, DbTypeOK, Assignment
      <4> QED
        BY <1>4, <3>1, <3>2, <4>1 DEF RemoveRole, TypeOK, DbTypeOK
    <3>3. CASE UNCHANGED <<roles, assign, rolePerms, owed>>
      BY <1>4, <3>3 DEF RemoveRole, TypeOK, DbTypeOK
    <3> QED
      BY <1>4, <3>2, <3>3 DEF RemoveRole
  <2> QED
    BY <1>4, <2>1 DEF RemoveRole, TypeOK, RequestTypeOK, AdminTypeOK, AdminPc, requestVars, InHand
<1>5. CASE CrashAdmin(a)
  BY <1>5 DEF CrashAdmin, TypeOK, DbTypeOK, RequestTypeOK, AdminTypeOK, AdminPc, dbVars, requestVars, InHand
<1> QED
  BY <1>1, <1>2, <1>3, <1>4, <1>5 DEF AdminStep

LEMMA RoleExpiresType ==
  ASSUME NEW u \in Users, NEW r \in Roles, TypeOK, RoleExpires(u, r)
  PROVE  TypeOK'
  BY DEF RoleExpires, TypeOK, DbTypeOK, RequestTypeOK, AdminTypeOK, Assignment, requestVars, adminVars, InHand

LEMMA StutterType == TypeOK /\ UNCHANGED vars => TypeOK'
  BY DEF TypeOK, DbTypeOK, RequestTypeOK, AdminTypeOK, vars, dbVars, requestVars, adminVars, InHand

LEMMA NextType == TypeOK /\ [Next]_vars => TypeOK'
<1> SUFFICES ASSUME TypeOK, [Next]_vars PROVE TypeOK'
  OBVIOUS
<1>1. ASSUME NEW h \in Requests, NEW u \in Users, NEW c \in 1..(MaxChanges + 1), ReadPv(h, u, c)
      PROVE  TypeOK'
  <2>1. c \in Nat
    BY <1>1 DEF ReadPv, TypeOK, DbTypeOK
  <2> QED
    BY <1>1, <2>1, ReadPvType
<1>2. ASSUME NEW h \in Requests, RequestStep(h)
      PROVE  TypeOK'
  BY <1>2, GetCacheType, ReadUserType, ReadUserRolesType, BuildSnapshotType, EndStepType, SetCacheType
     DEF RequestStep
<1> QED
  BY <1>1, <1>2, CacheExpireType, RoleExpiresType, AdminStartType, AdminStepType, StutterType DEF Next

\* Type correctness: TypeOK holds in every reachable state.
THEOREM TypeCorrect == Spec => []TypeOK
  BY InitTypeOK, NextType, PTL DEF Spec

-----------------------------------------------------------------------------
(* The coherence of snapshots.                                             *)

LEMMA InitIInv == Init => IInv
<1> SUFFICES ASSUME Init PROVE IInv
  OBVIOUS
<1>1. TypeOK
  BY InitTypeOK
<1>2. Versions /\ InHandCoherent /\ CacheCoherent
  BY DEF Init, InHand, Versions, InHandCoherent, CacheCoherent
<1> QED
  BY <1>1, <1>2 DEF IInv

\* What a change of the database must respect: pv of a user grows, or the user
\* is owed a bump, or nothing that his snapshot shows has changed.
Respects(u) ==
  /\ pv'[u] >= pv[u]
  /\ (pv'[u] = pv[u] /\ u \notin owed') =>
       /\ u \notin owed
       /\ status'[u] = status[u]
       /\ Assigned(u)' = Assigned(u)
       /\ Expired(u) \subseteq Expired(u)'
       /\ \A r \in Assigned(u) : rolePerms'[r] = rolePerms[r]

LEMMA FreshStays ==
  ASSUME NEW u \in Users, NEW s, Fresh(u, s), Respects(u), pv'[u] = pv[u], u \notin owed'
  PROVE  Fresh(u, s)'
<1>1. /\ status'[u] = status[u]
      /\ Assigned(u)' = Assigned(u)
      /\ Expired(u) \subseteq Expired(u)'
      /\ \A r \in Assigned(u) : rolePerms'[r] = rolePerms[r]
  BY DEF Respects
<1>2. s.roles \subseteq Assigned(u)
  BY DEF Fresh
<1>3. PermsOf(s.roles)' = PermsOf(s.roles)
  BY <1>1, <1>2 DEF PermsOf
<1> QED
  BY <1>1, <1>2, <1>3 DEF Fresh

\* An administrative step preserves the invariant when it respects every user.
LEMMA DatabaseStep ==
  ASSUME IInv, TypeOK', UNCHANGED <<rpc, subject, seen, snap>>, \A u \in Users : Respects(u),
         \A u \in Users : cache'[u] = cache[u] \/ cache'[u] = NoSnapshot
  PROVE  IInv'
<1>1. ASSUME NEW u \in Users, cache'[u] # NoSnapshot
      PROVE  /\ cache'[u].pv <= pv'[u]
             /\ cache'[u].pv = pv'[u] => pv'[u] = pv[u]
             /\ cache'[u] = cache[u]
  <2>1. cache[u] \in Snapshot /\ cache[u].pv \in Nat /\ pv[u] \in Nat /\ pv'[u] \in Nat
    BY <1>1 DEF IInv, TypeOK, DbTypeOK, Snapshot
  <2> QED
    BY <1>1, <2>1 DEF IInv, Versions, Respects
<1>2. ASSUME NEW h \in Requests
      PROVE  /\ subject[h] \in Users
             /\ seen[h] \in Nat
             /\ pv[subject[h]] \in Nat
             /\ pv'[subject[h]] \in Nat
             /\ pv'[subject[h]] >= pv[subject[h]]
  BY DEF IInv, TypeOK, DbTypeOK, RequestTypeOK, Respects, InHand
<1>3. Versions'
  <2>1. ASSUME NEW h \in Requests, rpc[h] \in InHand
        PROVE  snap[h].pv \in seen[h]..pv'[subject[h]]
    BY <1>2, <2>1 DEF IInv, Versions
  <2>2. ASSUME NEW h \in Requests, rpc[h] # "idle"
        PROVE  seen[h] <= pv'[subject[h]]
    BY <1>2, <2>2 DEF IInv, Versions
  <2> QED
    BY <1>1, <2>1, <2>2 DEF Versions
<1>4. InHandCoherent'
  <2> SUFFICES ASSUME NEW h \in Requests, rpc[h] \in InHand,
                      snap[h].pv = pv'[subject[h]], subject[h] \notin owed'
               PROVE  /\ snap[h].status = status'[subject[h]]
                      /\ rpc[h] = "mapping" => snap[h].roles = Assigned(subject[h])'
                      /\ rpc[h] \in {"set", "served"} => Fresh(subject[h], snap[h])'
    BY DEF InHandCoherent
  <2>2. snap[h].pv <= pv[subject[h]] /\ pv'[subject[h]] = pv[subject[h]]
    BY <1>2 DEF IInv, Versions, Respects
  <2>3. Respects(subject[h]) /\ subject[h] \notin owed
    BY <1>2, <2>2 DEF Respects
  <2>4. /\ snap[h].status = status[subject[h]]
        /\ rpc[h] = "mapping" => snap[h].roles = Assigned(subject[h])
        /\ rpc[h] \in {"set", "served"} => Fresh(subject[h], snap[h])
    BY <2>2, <2>3 DEF IInv, InHandCoherent
  <2>5. rpc[h] \in {"set", "served"} => Fresh(subject[h], snap[h])'
    <3>0. PICK u \in Users : u = subject[h]
      BY <1>2
    <3>1. PICK s : s = snap[h]
      OBVIOUS
    <3>2. rpc[h] \in {"set", "served"} => Fresh(u, s)'
      BY <2>2, <2>3, <2>4, <3>0, <3>1, FreshStays
    <3> QED
      BY <3>0, <3>1, <3>2
  <2> QED
    BY <2>2, <2>3, <2>4, <2>5 DEF Respects
<1>5. CacheCoherent'
  <2> SUFFICES ASSUME NEW u \in Users, cache'[u] # NoSnapshot, cache'[u].pv = pv'[u], u \notin owed'
               PROVE  Fresh(u, cache[u])'
    BY DEF CacheCoherent
  <2>1. pv'[u] = pv[u] /\ cache'[u] = cache[u] /\ u \notin owed
    BY <1>1 DEF Respects
  <2>2. PICK s : s = cache[u]
    OBVIOUS
  <2>3. Fresh(u, s)
    BY <2>1, <2>2 DEF IInv, CacheCoherent
  <2>4. Fresh(u, s)'
    BY <2>1, <2>3, FreshStays
  <2> QED
    BY <2>1, <2>2, <2>4
<1> QED
  BY <1>3, <1>4, <1>5 DEF IInv

-----------------------------------------------------------------------------
(* Steps of a request change only its own part of the state and, in         *)
(* SetCache, one cache entry.                                               *)

\* A snapshot of user u that may be used: no newer than u, and current unless
\* overtaken or owed.
Usable(u, s) ==
  /\ s.pv <= pv[u]
  /\ s.pv = pv[u] /\ u \notin owed => Fresh(u, s)

HandOK(h) ==
  LET u == subject[h] IN
  /\ rpc[h] # "idle" => seen[h] <= pv[u]
  /\ rpc[h] \in InHand => snap[h].pv \in seen[h]..pv[u]
  /\ (rpc[h] \in InHand /\ snap[h].pv = pv[u] /\ u \notin owed) =>
       /\ snap[h].status = status[u]
       /\ rpc[h] = "mapping" => snap[h].roles = Assigned(u)
       /\ rpc[h] \in {"set", "served"} => Fresh(u, snap[h])

LEMMA IInvParts ==
  IInv <=> /\ TypeOK
           /\ \A h \in Requests : HandOK(h)
           /\ \A u \in Users : cache[u] # NoSnapshot => Usable(u, cache[u])
  BY DEF IInv, Versions, InHandCoherent, CacheCoherent, HandOK, Usable

LEMMA FreshSame ==
  ASSUME UNCHANGED dbVars, NEW u, NEW s
  PROVE  Fresh(u, s)' <=> Fresh(u, s)
  BY DEF Fresh, Assigned, Expired, PermsOf, dbVars

LEMMA HandSame ==
  ASSUME NEW h \in Requests, HandOK(h), UNCHANGED <<dbVars, owed>>,
         rpc'[h] = rpc[h], subject'[h] = subject[h], seen'[h] = seen[h], snap'[h] = snap[h]
  PROVE  HandOK(h)'
<1>1. PICK u : u = subject[h]
  OBVIOUS
<1>2. PICK s : s = snap[h]
  OBVIOUS
<1>3. (Fresh(u, s)' <=> Fresh(u, s)) /\ (Assigned(u)' = Assigned(u))
  BY FreshSame DEF Assigned, dbVars
<1> QED
  BY <1>1, <1>2, <1>3 DEF HandOK, dbVars

\* What a step of request h may touch.
OthersSame(h) ==
  \A g \in Requests \ {h} :
    rpc'[g] = rpc[g] /\ subject'[g] = subject[g] /\ seen'[g] = seen[g] /\ snap'[g] = snap[g]

CacheFrom(h) ==
  \A u \in Users :
    \/ cache'[u] = cache[u]
    \/ cache'[u] = snap[h] /\ Usable(u, snap[h])

LEMMA RequestFrame ==
  ASSUME NEW h \in Requests, IInv, TypeOK', UNCHANGED dbVars, UNCHANGED owed,
         HandOK(h)', OthersSame(h), CacheFrom(h)
  PROVE  IInv'
<1>1. \A g \in Requests : HandOK(g)'
  BY HandSame, IInvParts DEF OthersSame
<1>2. ASSUME NEW u \in Users, cache'[u] # NoSnapshot
      PROVE  Usable(u, cache[u])'
  <2>1. PICK s : s = cache'[u]
    OBVIOUS
  <2>2. Usable(u, s)
    BY <1>2, <2>1, IInvParts DEF CacheFrom
  <2>3. Usable(u, s)'
    BY <2>2, FreshSame DEF Usable, dbVars
  <2> QED
    BY <2>1, <2>3
<1> QED
  BY <1>1, <1>2 DEF IInv, Versions, InHandCoherent, CacheCoherent, HandOK, Usable

LEMMA DecideHand ==
  ASSUME NEW h \in Requests, NEW s \in Snapshot, TypeOK, Decide(h, s),
         UNCHANGED <<dbVars, owed, subject>>,
         s.pv >= seen[h], Usable(subject[h], s)
  PROVE  HandOK(h)' /\ OthersSame(h)
<1>1. PICK u \in Users : u = subject[h]
  BY DEF TypeOK, RequestTypeOK
<1>2. s.pv \in Nat /\ seen[h] \in Nat /\ pv[u] \in Nat
  BY <1>1 DEF Snapshot, TypeOK, RequestTypeOK, DbTypeOK
<1>3. CASE s.pv = claim[h] /\ rpc' = [rpc EXCEPT ![h] = "served"] /\ snap' = [snap EXCEPT ![h] = s]
           /\ UNCHANGED <<claim, seen, again>>
  <2>1. s.pv = pv[u] /\ u \notin owed => Fresh(u, s)' /\ s.status = status[u]
    BY <1>1, FreshSame DEF Usable, Fresh
  <2>2. rpc'[h] = "served" /\ snap'[h] = s /\ seen'[h] = seen[h] /\ subject'[h] = u
    BY <1>1, <1>3 DEF TypeOK, RequestTypeOK
  <2>3. s.pv \in seen[h]..pv[u]
    BY <1>1, <1>2 DEF Usable
  <2> QED
    BY <1>1, <1>2, <1>3, <2>1, <2>2, <2>3 DEF OthersSame, HandOK, InHand, dbVars, TypeOK, RequestTypeOK
<1>4. CASE rpc' = [rpc EXCEPT ![h] = "user"] /\ snap' = [snap EXCEPT ![h] = NoSnapshot]
           /\ UNCHANGED <<claim, seen>>
  BY <1>1, <1>2, <1>4 DEF OthersSame, HandOK, InHand, dbVars, Usable, TypeOK, RequestTypeOK
<1>5. CASE End(h)
  BY <1>5 DEF OthersSame, End, HandOK, InHand, TypeOK, RequestTypeOK
<1> QED
  BY <1>3, <1>4, <1>5 DEF Decide

LEMMA ReadPvStep ==
  ASSUME NEW h \in Requests, NEW u \in Users, NEW c \in Nat, IInv, TypeOK', ReadPv(h, u, c)
  PROVE  IInv'
<1>1. HandOK(h)'
  BY DEF ReadPv, HandOK, InHand, IInv, TypeOK, DbTypeOK, RequestTypeOK, dbVars
<1>2. OthersSame(h) /\ CacheFrom(h) /\ UNCHANGED dbVars /\ UNCHANGED owed
  BY DEF ReadPv, OthersSame, CacheFrom, dbVars, IInv, TypeOK, RequestTypeOK
<1> QED
  BY <1>1, <1>2, RequestFrame

LEMMA GetCacheStep ==
  ASSUME NEW h \in Requests, IInv, TypeOK', GetCache(h)
  PROVE  IInv'
<1>1. subject[h] \in Users /\ seen[h] \in Nat /\ pv[subject[h]] \in Nat /\ seen[h] <= pv[subject[h]]
  BY DEF GetCache, IInv, TypeOK, DbTypeOK, RequestTypeOK, Versions
<1>2. CASE /\ cache[subject[h]] # NoSnapshot
           /\ cache[subject[h]].pv = seen[h]
           /\ Decide(h, cache[subject[h]])
  <2>1. cache[subject[h]] \in Snapshot /\ Usable(subject[h], cache[subject[h]])
    BY <1>1, <1>2, IInvParts DEF IInv, TypeOK
  <2>2. cache[subject[h]].pv >= seen[h] /\ UNCHANGED <<dbVars, owed, subject, cache>>
    BY <1>1, <1>2 DEF GetCache
  <2>3. HandOK(h)' /\ OthersSame(h)
    BY <1>2, <2>1, <2>2, DecideHand DEF IInv
  <2>4. CacheFrom(h) /\ UNCHANGED dbVars /\ UNCHANGED owed
    BY <2>2 DEF CacheFrom, dbVars
  <2> QED
    BY <2>3, <2>4, RequestFrame
<1>3. CASE rpc' = [rpc EXCEPT ![h] = "user"] /\ UNCHANGED <<claim, seen, snap, again>>
  <2>1. HandOK(h)'
    BY <1>1, <1>3 DEF GetCache, HandOK, InHand, IInv, TypeOK, RequestTypeOK, dbVars
  <2>2. OthersSame(h) /\ CacheFrom(h) /\ UNCHANGED dbVars /\ UNCHANGED owed
    BY <1>3 DEF GetCache, OthersSame, CacheFrom, dbVars, IInv, TypeOK, RequestTypeOK
  <2> QED
    BY <2>1, <2>2, RequestFrame
<1> QED
  BY <1>2, <1>3 DEF GetCache

LEMMA ReadUserStep ==
  ASSUME NEW h \in Requests, IInv, TypeOK', ReadUser(h)
  PROVE  IInv'
<1>1. subject[h] \in Users /\ seen[h] \in Nat /\ pv[subject[h]] \in Nat /\ seen[h] <= pv[subject[h]]
  BY DEF ReadUser, IInv, TypeOK, DbTypeOK, RequestTypeOK, Versions
<1>2. rpc'[h] = "rows" /\ snap'[h].pv = pv[subject[h]] /\ snap'[h].status = status[subject[h]]
  BY DEF ReadUser, IInv, TypeOK, RequestTypeOK
<1>3. HandOK(h)'
  BY <1>1, <1>2 DEF ReadUser, HandOK, dbVars
<1>4. OthersSame(h) /\ CacheFrom(h) /\ UNCHANGED dbVars /\ UNCHANGED owed
  BY DEF ReadUser, OthersSame, CacheFrom, dbVars, IInv, TypeOK, RequestTypeOK
<1> QED
  BY <1>3, <1>4, RequestFrame

LEMMA ReadUserRolesStep ==
  ASSUME NEW h \in Requests, IInv, TypeOK', ReadUserRoles(h)
  PROVE  IInv'
<1>1. snap[h] \in Snapshot /\ HandOK(h)
  BY IInvParts DEF ReadUserRoles, IInv, TypeOK, RequestTypeOK, InHand
<1>2. /\ rpc'[h] = "mapping" /\ snap'[h].pv = snap[h].pv
      /\ snap'[h].status = snap[h].status /\ snap'[h].roles = Assigned(subject[h])
  BY <1>1 DEF ReadUserRoles, IInv, TypeOK, RequestTypeOK, Snapshot
<1>3. HandOK(h)'
  BY <1>1, <1>2 DEF ReadUserRoles, HandOK, InHand, Assigned, dbVars
<1>4. OthersSame(h) /\ CacheFrom(h) /\ UNCHANGED dbVars /\ UNCHANGED owed
  BY DEF ReadUserRoles, OthersSame, CacheFrom, dbVars, IInv, TypeOK, RequestTypeOK
<1> QED
  BY <1>3, <1>4, RequestFrame

LEMMA BuildSnapshotStep ==
  ASSUME NEW h \in Requests, IInv, TypeOK', BuildSnapshot(h)
  PROVE  IInv'
<1>1. /\ Built(h) \in Snapshot /\ HandOK(h) /\ subject[h] \in Users
      /\ UNCHANGED <<dbVars, owed, subject, cache>>
  BY BuiltType, IInvParts DEF BuildSnapshot, IInv, TypeOK, RequestTypeOK
<1>2. /\ Built(h).pv = snap[h].pv
      /\ Built(h).status = snap[h].status
      /\ Built(h).roles = snap[h].roles \ Expired(subject[h])
      /\ Built(h).perms = PermsOf(Built(h).roles)
  BY DEF Built
<1>3. Built(h).pv \in seen[h]..pv[subject[h]]
  BY <1>1, <1>2 DEF BuildSnapshot, HandOK, InHand
<1>4. Usable(subject[h], Built(h))
  BY <1>1, <1>2, <1>3 DEF BuildSnapshot, Usable, HandOK, InHand, Fresh
<1>5. CASE /\ rpc' = [rpc EXCEPT ![h] = "set"]
           /\ snap' = [snap EXCEPT ![h] = Built(h)]
           /\ UNCHANGED <<claim, seen, again>>
  <2>1. PICK s \in Snapshot : s = Built(h)
    BY <1>1
  <2>2. PICK u \in Users : u = subject[h]
    BY <1>1
  <2>3. rpc'[h] = "set" /\ snap'[h] = s /\ subject'[h] = u /\ seen'[h] = seen[h]
    BY <1>1, <1>5, <2>1, <2>2 DEF IInv, TypeOK, RequestTypeOK
  <2>4. s.pv = pv[u] /\ u \notin owed => Fresh(u, s)' /\ s.status = status[u]
    BY <1>1, <1>4, <2>1, <2>2, FreshSame DEF Usable, Fresh
  <2>5. HandOK(h)'
    BY <1>1, <1>3, <2>1, <2>2, <2>3, <2>4 DEF HandOK, dbVars, BuildSnapshot
  <2>6. OthersSame(h) /\ CacheFrom(h) /\ UNCHANGED dbVars /\ UNCHANGED owed
    BY <1>1, <1>5 DEF OthersSame, CacheFrom, dbVars, IInv, TypeOK, RequestTypeOK
  <2> QED
    BY <2>5, <2>6, RequestFrame
<1>6. CASE Decide(h, Built(h))
  <2>1. Built(h).pv >= seen[h]
    BY <1>1, <1>3 DEF IInv, TypeOK, RequestTypeOK, DbTypeOK
  <2>2. HandOK(h)' /\ OthersSame(h)
    BY <1>1, <1>4, <1>6, <2>1, DecideHand DEF IInv
  <2>3. CacheFrom(h) /\ UNCHANGED dbVars /\ UNCHANGED owed
    BY <1>1 DEF CacheFrom, dbVars
  <2> QED
    BY <2>2, <2>3, RequestFrame
<1> QED
  BY <1>5, <1>6 DEF BuildSnapshot

LEMMA SetCacheStep ==
  ASSUME NEW h \in Requests, IInv, TypeOK', SetCache(h)
  PROVE  IInv'
<1>1. /\ snap[h] \in Snapshot /\ HandOK(h) /\ subject[h] \in Users
      /\ UNCHANGED <<dbVars, owed, subject>> /\ rpc[h] = "set" /\ Decide(h, snap[h])
  BY IInvParts DEF SetCache, IInv, TypeOK, RequestTypeOK, InHand
<1>2. snap[h].pv \in seen[h]..pv[subject[h]]
  BY <1>1 DEF HandOK, InHand
<1>3. Usable(subject[h], snap[h])
  BY <1>1, <1>2 DEF HandOK, InHand, Usable
<1>4. snap[h].pv >= seen[h]
  BY <1>1, <1>2 DEF IInv, TypeOK, RequestTypeOK, DbTypeOK
<1>5. HandOK(h)' /\ OthersSame(h)
  BY <1>1, <1>3, <1>4, DecideHand DEF IInv
<1>6. CacheFrom(h) /\ UNCHANGED dbVars /\ UNCHANGED owed
  BY <1>1, <1>3 DEF SetCache, CacheFrom, dbVars, IInv, TypeOK
<1> QED
  BY <1>5, <1>6, RequestFrame

LEMMA EndStep ==
  ASSUME NEW h \in Requests, IInv, TypeOK', RebuildError(h) \/ Finish(h)
  PROVE  IInv'
<1>1. HandOK(h)'
  BY DEF RebuildError, Finish, End, HandOK, InHand, IInv, TypeOK, RequestTypeOK
<1>2. OthersSame(h) /\ CacheFrom(h) /\ UNCHANGED dbVars /\ UNCHANGED owed
  BY DEF RebuildError, Finish, End, OthersSame, CacheFrom, dbVars, IInv, TypeOK, RequestTypeOK
<1> QED
  BY <1>1, <1>2, RequestFrame

-----------------------------------------------------------------------------
(* Steps of the administrative handlers, of the clock and of Redis.         *)

CacheShrinks == \A u \in Users : cache'[u] = cache[u] \/ cache'[u] = NoSnapshot

LEMMA QuietRespects ==
  ASSUME TypeOK, UNCHANGED dbVars, UNCHANGED owed
  PROVE  \A u \in Users : Respects(u)
  BY DEF Respects, TypeOK, DbTypeOK, Assigned, Expired, dbVars

LEMMA QuietStep ==
  ASSUME IInv, TypeOK', UNCHANGED dbVars, UNCHANGED owed, UNCHANGED requestVars, CacheShrinks
  PROVE  IInv'
  BY QuietRespects, DatabaseStep DEF CacheShrinks, requestVars, IInv

LEMMA CacheExpireStep ==
  ASSUME NEW u \in Users, IInv, TypeOK', CacheExpire(u)
  PROVE  IInv'
<1>1. CacheShrinks
  BY DEF CacheExpire, CacheShrinks, IInv, TypeOK
<1> QED
  BY <1>1, QuietStep DEF CacheExpire

LEMMA RoleExpiresStep ==
  ASSUME NEW u \in Users, NEW r \in Roles, IInv, TypeOK', RoleExpires(u, r)
  PROVE  IInv'
<1>1. ASSUME NEW v \in Users
      PROVE  Respects(v)
  BY DEF RoleExpires, Respects, Assigned, Expired, IInv, TypeOK, DbTypeOK
<1> QED
  BY <1>1, DatabaseStep DEF RoleExpires, requestVars

LEMMA CommitRespects ==
  ASSUME NEW a \in Admins, NEW u \in Users, TypeOK, CommitWithBump(a, u),
         \A v \in Users \ {u} : assign'[v] = assign[v] /\ status'[v] = status[v]
  PROVE  \A v \in Users : Respects(v)
  BY DEF CommitWithBump, Respects, Assigned, Expired, TypeOK, DbTypeOK

LEMMA AdminStartStep ==
  ASSUME NEW a \in Admins, IInv, TypeOK', AdminStart(a)
  PROVE  IInv'
<1>1. ASSUME NEW u \in Users, CommitWithBump(a, u),
             \A v \in Users \ {u} : assign'[v] = assign[v] /\ status'[v] = status[v]
      PROVE  IInv'
  <2>1. \A v \in Users : Respects(v)
    BY <1>1, CommitRespects DEF IInv
  <2> QED
    BY <1>1, <2>1, DatabaseStep DEF CommitWithBump, requestVars
<1>2. ASSUME NEW u \in Users, NEW r \in Roles, NEW kind \in {"permanent", "timed"},
             GrantRole(a, u, r, kind)
      PROVE  IInv'
  <2>1. \A v \in Users \ {u} : assign'[v] = assign[v] /\ status'[v] = status[v]
    BY <1>2 DEF GrantRole, IInv, TypeOK, DbTypeOK
  <2> QED
    BY <1>1, <1>2, <2>1 DEF GrantRole
<1>3. ASSUME NEW u \in Users, NEW r \in Roles, RevokeRole(a, u, r)
      PROVE  IInv'
  <2>1. \A v \in Users \ {u} : assign'[v] = assign[v] /\ status'[v] = status[v]
    BY <1>3 DEF RevokeRole, IInv, TypeOK, DbTypeOK
  <2> QED
    BY <1>1, <1>3, <2>1 DEF RevokeRole
<1>4. ASSUME NEW u \in Users, NEW s \in Status, SetStatus(a, u, s)
      PROVE  IInv'
  <2>1. \A v \in Users \ {u} : assign'[v] = assign[v] /\ status'[v] = status[v]
    BY <1>4 DEF SetStatus, IInv, TypeOK, DbTypeOK
  <2> QED
    BY <1>1, <1>4, <2>1 DEF SetStatus
<1>5. ASSUME NEW r \in Roles, NEW ps \in SUBSET Perms, CommitMapping(a, r, ps)
      PROVE  IInv'
  <2>1. ASSUME NEW v \in Users
        PROVE  Respects(v)
    BY <1>5 DEF CommitMapping, Holders, Respects, Assigned, Expired, IInv, TypeOK, DbTypeOK
  <2> QED
    BY <1>5, <2>1, DatabaseStep DEF CommitMapping, requestVars
<1>6. ASSUME NEW r \in Roles, CheckRemove(a, r)
      PROVE  IInv'
  <2>1. CacheShrinks
    BY <1>6 DEF CheckRemove, CacheShrinks
  <2> QED
    BY <1>6, <2>1, QuietStep DEF CheckRemove
<1> QED
  BY <1>2, <1>3, <1>4, <1>5, <1>6 DEF AdminStart

LEMMA AdminStepStep ==
  ASSUME NEW a \in Admins, IInv, TypeOK', AdminStep(a) \/ CrashAdmin(a)
  PROVE  IInv'
<1>1. CASE ReadHolders(a) \/ FlushCache(a) \/ CrashAdmin(a)
  <2>1. CacheShrinks
    BY <1>1 DEF ReadHolders, FlushCache, CrashAdmin, CacheShrinks, IInv, TypeOK
  <2> QED
    BY <1>1, <2>1, QuietStep DEF ReadHolders, FlushCache, CrashAdmin
<1>2. CASE BumpHolders(a)
  <2>1. ASSUME NEW v \in Users
        PROVE  Respects(v)
    BY <1>2 DEF BumpHolders, Respects, Assigned, Expired, IInv, TypeOK, DbTypeOK
  <2> QED
    BY <1>2, <2>1, DatabaseStep DEF BumpHolders, requestVars
<1>3. CASE RemoveRole(a)
  <2>1. ASSUME NEW v \in Users
        PROVE  Respects(v)
    <3>1. CASE UNCHANGED <<roles, assign, rolePerms, owed>>
      BY <1>3, <3>1 DEF RemoveRole, Respects, Assigned, Expired, IInv, TypeOK, DbTypeOK
    <3>2. CASE /\ assign' = [u \in Users |-> [assign[u] EXCEPT ![arole[a]] = "none"]]
               /\ rolePerms' = [rolePerms EXCEPT ![arole[a]] = {}]
               /\ owed' = owed \union Holders(arole[a])
      <4>1. arole[a] \in Roles /\ pv'[v] = pv[v] /\ pv[v] \in Nat /\ status'[v] = status[v]
        BY <1>3 DEF RemoveRole, IInv, TypeOK, AdminTypeOK, DbTypeOK
      <4>2. v \notin owed' => v \notin owed /\ assign[v][arole[a]] = "none"
        BY <3>2 DEF Holders
      <4>3. v \notin owed' => \A r \in Roles : assign'[v][r] = assign[v][r]
        BY <3>2, <4>1, <4>2 DEF IInv, TypeOK, DbTypeOK
      <4>4. v \notin owed' => Assigned(v)' = Assigned(v) /\ Expired(v)' = Expired(v)
        BY <4>3 DEF Assigned, Expired
      <4>5. v \notin owed' => \A r \in Assigned(v) : rolePerms'[r] = rolePerms[r]
        BY <3>2, <4>2 DEF Assigned, IInv, TypeOK, DbTypeOK
      <4> QED
        BY <4>1, <4>2, <4>4, <4>5 DEF Respects
    <3> QED
      BY <1>3, <3>1, <3>2 DEF RemoveRole
  <2> QED
    BY <1>3, <2>1, DatabaseStep DEF RemoveRole, requestVars
<1> QED
  BY <1>1, <1>2, <1>3 DEF AdminStep

LEMMA NextIInv == IInv /\ [Next]_vars => IInv'
<1> SUFFICES ASSUME IInv, [Next]_vars PROVE IInv'
  OBVIOUS
<1>1. TypeOK'
  BY NextType DEF IInv
<1>2. ASSUME NEW h \in Requests, NEW u \in Users, NEW c \in 1..(MaxChanges + 1), ReadPv(h, u, c)
      PROVE  IInv'
  <2>1. c \in Nat
    BY <1>2 DEF ReadPv, IInv, TypeOK, DbTypeOK
  <2> QED
    BY <1>1, <1>2, <2>1, ReadPvStep
<1>3. ASSUME NEW h \in Requests, RequestStep(h)
      PROVE  IInv'
  BY <1>1, <1>3, GetCacheStep, ReadUserStep, ReadUserRolesStep, BuildSnapshotStep, EndStep, SetCacheStep
     DEF RequestStep
<1>4. CASE UNCHANGED vars
  <2>1. CacheShrinks
    BY <1>4 DEF CacheShrinks, vars
  <2> QED
    BY <1>1, <1>4, <2>1, QuietStep DEF vars
<1> QED
  BY <1>1, <1>2, <1>3, <1>4, CacheExpireStep, RoleExpiresStep, AdminStartStep, AdminStepStep DEF Next

\* The inductive invariant.
THEOREM Invariant == Spec => []IInv
  BY InitIInv, NextIInv, PTL DEF Spec

\* The pv backstop of permission-cache.service 22-23: in every reachable state
\* an entry that carries the user's pv is the user's state, unless a change of
\* his rights has yet to bump pv.
THEOREM CacheIsCoherent == Spec => []CacheCoherent
<1>1. IInv => CacheCoherent
  BY DEF IInv
<1> QED
  BY <1>1, Invariant, PTL

\* AuthGuard hands the handler a snapshot that is the subject's state, or was
\* until pv moved during the request.
THEOREM ServedIsCoherent == Spec => []ServedCoherent
<1>1. IInv => ServedCoherent
  BY DEF IInv, InHandCoherent, InHand, ServedCoherent
<1> QED
  BY <1>1, Invariant, PTL

-----------------------------------------------------------------------------
(* PermCache implements PermPromise.                                        *)

Stage == [h \in Requests |-> IF rpc[h] = "idle" THEN "idle"
                             ELSE IF rpc[h] = "served" THEN "answered" ELSE "running"]
Used  == [h \in Requests |-> IF rpc[h] = "served" THEN snap[h].pv ELSE 0]

LEMMA InitPromise == Init => Promise!Init
  BY DEF Init, Promise!Init

LEMMA StutterPromise ==
  ASSUME UNCHANGED <<pv, rpc, subject, seen, snap>>
  PROVE  UNCHANGED Promise!vars
  BY DEF Promise!vars

\* The end of a request is Done.
LEMMA EndPromise ==
  ASSUME NEW h \in Requests, RequestTypeOK, rpc[h] # "idle", End(h), UNCHANGED <<pv, subject>>
  PROVE  Promise!Done(h)
<1>1. Stage' = [Stage EXCEPT ![h] = "idle"]
  BY DEF Stage, End, RequestTypeOK
<1>2. Used' = [Used EXCEPT ![h] = 0]
  BY DEF Used, End, RequestTypeOK
<1>3. Stage[h] # "idle"
  BY DEF Stage, RequestTypeOK
<1> QED
  BY <1>1, <1>2, <1>3 DEF Promise!Done, End, Stage, Used

\* A step from one running stage to another is invisible.
LEMMA RunningPromise ==
  ASSUME NEW h \in Requests, RequestTypeOK, RequestTypeOK', rpc[h] \notin {"idle", "served"},
         rpc'[h] \notin {"idle", "served"}, OthersSame(h), UNCHANGED <<pv, subject, seen>>
  PROVE  UNCHANGED Promise!vars
<1>1. Stage' = Stage
  BY DEF Stage, OthersSame, RequestTypeOK
<1>2. Used' = Used
  BY DEF Used, OthersSame, RequestTypeOK
<1> QED
  BY <1>1, <1>2 DEF Promise!vars, Stage, Used

LEMMA DecidePromise ==
  ASSUME NEW h \in Requests, NEW s, RequestTypeOK, RequestTypeOK', Decide(h, s), OthersSame(h),
         rpc[h] \notin {"idle", "served"}, UNCHANGED <<pv, subject>>,
         s.pv \in seen[h]..pv[subject[h]]
  PROVE  Promise!Answer(h) \/ Promise!Done(h) \/ UNCHANGED Promise!vars
<1>1. CASE rpc' = [rpc EXCEPT ![h] = "served"] /\ snap' = [snap EXCEPT ![h] = s] /\ UNCHANGED seen
  <2>1. Stage' = [Stage EXCEPT ![h] = "answered"]
    BY <1>1 DEF Stage, RequestTypeOK
  <2>2. Used' = [Used EXCEPT ![h] = s.pv]
    BY <1>1 DEF Used, RequestTypeOK
  <2>3. Stage[h] = "running"
    BY DEF Stage
  <2> QED
    BY <1>1, <2>1, <2>2, <2>3 DEF Promise!Answer, Stage, Used
<1>2. CASE rpc' = [rpc EXCEPT ![h] = "user"] /\ UNCHANGED seen
  <2>1. rpc'[h] \notin {"idle", "served"}
    BY <1>2 DEF RequestTypeOK
  <2> QED
    BY <1>2, <2>1, RunningPromise
<1>3. CASE End(h)
  BY <1>3, EndPromise
<1> QED
  BY <1>1, <1>2, <1>3 DEF Decide

\* Decide leaves the other requests alone.
LEMMA DecideOthers ==
  ASSUME NEW h \in Requests, NEW s, RequestTypeOK, Decide(h, s), UNCHANGED subject
  PROVE  OthersSame(h)
  BY DEF Decide, End, OthersSame, RequestTypeOK

LEMMA RequestPromise ==
  ASSUME NEW h \in Requests, IInv, IInv', RequestStep(h)
  PROVE  Promise!Answer(h) \/ Promise!Done(h) \/ UNCHANGED Promise!vars
<1>1. /\ RequestTypeOK /\ RequestTypeOK' /\ UNCHANGED <<pv, subject>> /\ subject[h] \in Users
      /\ HandOK(h)
  BY IInvParts DEF IInv, TypeOK, RequestTypeOK, RequestStep, GetCache, ReadUser, ReadUserRoles, BuildSnapshot,
     RebuildError, SetCache, Finish, dbVars
<1>2. CASE GetCache(h)
  <2>1. CASE /\ cache[subject[h]] # NoSnapshot
             /\ cache[subject[h]].pv = seen[h]
             /\ Decide(h, cache[subject[h]])
    <3>1. cache[subject[h]].pv \in seen[h]..pv[subject[h]]
      BY <1>1, <1>2, <2>1 DEF GetCache, HandOK, IInv, TypeOK, DbTypeOK, RequestTypeOK
    <3>2. rpc[h] \notin {"idle", "served"}
      BY <1>2 DEF GetCache
    <3> QED
      BY <1>1, <2>1, <3>1, <3>2, DecideOthers, DecidePromise
  <2>2. CASE rpc' = [rpc EXCEPT ![h] = "user"] /\ UNCHANGED <<claim, seen, snap, again>>
    <3>1. OthersSame(h) /\ rpc[h] \notin {"idle", "served"} /\ rpc'[h] \notin {"idle", "served"}
      BY <1>1, <1>2, <2>2 DEF GetCache, OthersSame, RequestTypeOK
    <3> QED
      BY <1>1, <2>2, <3>1, RunningPromise
  <2> QED
    BY <1>2, <2>1, <2>2 DEF GetCache
<1>3. CASE ReadUser(h) \/ ReadUserRoles(h)
  <2>1. /\ OthersSame(h) /\ rpc[h] \notin {"idle", "served"} /\ rpc'[h] \notin {"idle", "served"}
        /\ UNCHANGED seen
    BY <1>1, <1>3 DEF ReadUser, ReadUserRoles, OthersSame, RequestTypeOK
  <2> QED
    BY <1>1, <2>1, RunningPromise
<1>4. CASE BuildSnapshot(h)
  <2>1. CASE /\ rpc' = [rpc EXCEPT ![h] = "set"]
             /\ snap' = [snap EXCEPT ![h] = Built(h)]
             /\ UNCHANGED <<claim, seen, again>>
    <3>1. OthersSame(h) /\ rpc[h] \notin {"idle", "served"} /\ rpc'[h] \notin {"idle", "served"}
      BY <1>1, <1>4, <2>1 DEF BuildSnapshot, OthersSame, RequestTypeOK
    <3> QED
      BY <1>1, <2>1, <3>1, RunningPromise
  <2>2. CASE Decide(h, Built(h))
    <3>1. Built(h).pv \in seen[h]..pv[subject[h]] /\ rpc[h] \notin {"idle", "served"}
      BY <1>1, <1>4 DEF BuildSnapshot, Built, HandOK, InHand
    <3> QED
      BY <1>1, <2>2, <3>1, DecideOthers, DecidePromise
  <2> QED
    BY <1>4, <2>1, <2>2 DEF BuildSnapshot
<1>5. CASE SetCache(h)
  <2>1. snap[h].pv \in seen[h]..pv[subject[h]] /\ rpc[h] \notin {"idle", "served"} /\ Decide(h, snap[h])
    BY <1>1, <1>5 DEF SetCache, HandOK, InHand
  <2> QED
    BY <1>1, <2>1, DecideOthers, DecidePromise
<1>6. CASE RebuildError(h) \/ Finish(h)
  BY <1>1, <1>6, EndPromise DEF RebuildError, Finish
<1> QED
  BY <1>2, <1>3, <1>4, <1>5, <1>6 DEF RequestStep

LEMMA AdminPromise ==
  ASSUME NEW a \in Admins, IInv, AdminStart(a) \/ AdminStep(a) \/ CrashAdmin(a)
  PROVE  Promise!Next \/ UNCHANGED Promise!vars
<1>1. ASSUME NEW us \in SUBSET Users, pv' = [u \in Users |-> IF u \in us THEN pv[u] + 1 ELSE pv[u]],
             UNCHANGED <<rpc, subject, seen, snap>>
      PROVE  Promise!Next
  BY <1>1 DEF Promise!Next, Promise!Advance
<1>2. ASSUME NEW u \in Users, CommitWithBump(a, u)
      PROVE  Promise!Next
  <2>1. pv' = [v \in Users |-> IF v \in {u} THEN pv[v] + 1 ELSE pv[v]]
    BY <1>2 DEF CommitWithBump, IInv, TypeOK, DbTypeOK
  <2>2. UNCHANGED <<rpc, subject, seen, snap>> /\ {u} \in SUBSET Users
    BY <1>2 DEF CommitWithBump, requestVars
  <2> QED
    BY <1>1, <2>1, <2>2
<1>3. CASE BumpHolders(a)
  <2>1. aids[a] \in SUBSET Users
    BY DEF IInv, TypeOK, AdminTypeOK
  <2> QED
    BY <1>1, <1>3, <2>1 DEF BumpHolders, requestVars
<1>4. CASE \/ \E r \in Roles, ps \in SUBSET Perms : CommitMapping(a, r, ps)
           \/ \E r \in Roles : CheckRemove(a, r)
           \/ ReadHolders(a) \/ FlushCache(a) \/ RemoveRole(a) \/ CrashAdmin(a)
  <2>1. UNCHANGED <<pv, rpc, subject, seen, snap>>
    BY <1>4 DEF CommitMapping, CheckRemove, ReadHolders, FlushCache, RemoveRole, CrashAdmin, dbVars, requestVars
  <2> QED
    BY <2>1, StutterPromise
<1> QED
  BY <1>2, <1>3, <1>4 DEF AdminStart, AdminStep, GrantRole, RevokeRole, SetStatus

\* Whatever Redis loses and however handlers interleave, each request is
\* answered under a version of its subject's rights that was in force between
\* its start and its answer.
THEOREM ImplementsPromise == Spec => KeepsPromise
<1>1. IInv /\ IInv' /\ [Next]_vars => [Promise!Next]_(Promise!vars)
  <2> SUFFICES ASSUME IInv, IInv', [Next]_vars
               PROVE  Promise!Next \/ UNCHANGED Promise!vars
    OBVIOUS
  <2>1. ASSUME NEW h \in Requests, NEW u \in Users, NEW c \in 1..(MaxChanges + 1), ReadPv(h, u, c)
        PROVE  Promise!Start(h, u)
    <3>1. RequestTypeOK /\ DbTypeOK
      BY DEF IInv, TypeOK
    <3>2. Stage' = [Stage EXCEPT ![h] = "running"] /\ Stage[h] = "idle"
      BY <2>1, <3>1 DEF ReadPv, Stage, RequestTypeOK
    <3>3. Used' = Used
      BY <2>1, <3>1 DEF ReadPv, Used, RequestTypeOK
    <3> QED
      BY <2>1, <3>2, <3>3 DEF ReadPv, Promise!Start, Stage, Used, dbVars
  <2>2. ASSUME NEW h \in Requests, RequestStep(h)
        PROVE  Promise!Next \/ UNCHANGED Promise!vars
    BY <2>2, RequestPromise DEF Promise!Next
  <2>3. CASE \/ \E u \in Users : CacheExpire(u)
             \/ \E u \in Users, r \in Roles : RoleExpires(u, r)
             \/ UNCHANGED vars
    <3>1. UNCHANGED <<pv, rpc, subject, seen, snap>>
      BY <2>3 DEF CacheExpire, RoleExpires, vars, dbVars, requestVars
    <3> QED
      BY <3>1, StutterPromise
  <2> QED
    BY <2>1, <2>2, <2>3, AdminPromise DEF Next, Promise!Next
<1> QED
  BY <1>1, Invariant, InitPromise, PTL DEF Spec, KeepsPromise, Promise!Spec
=============================================================================
