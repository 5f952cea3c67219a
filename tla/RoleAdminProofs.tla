-------------------------- MODULE RoleAdminProofs --------------------------
(***************************************************************************)
(* Proofs about RoleAdmin for any users, roles, permissions, number of     *)
(* concurrent requests and bounds.                                         *)
(***************************************************************************)
EXTENDS RoleAdmin, TLAPS

Serving(h) == pc[h] # "idle"

\* Where requests come one at a time, a handler works alone.
OneAtATime == alone => \A g, h \in Handlers : Serving(g) /\ Serving(h) => g = h

\* A target that was found without SUPER_ADMIN has not become one since.
StillNone ==
  \A h \in Handlers :
    pc[h] = "unguarded" /\ (alone \/ ~promoted) => SuperAdmin \notin holds[target[h]]

\* A member who is suspended, reinstated or deleted is there.
TargetsExist ==
  \A h \in Handlers :
    Serving(h) /\ op[h] \in {"ban", "unban", "delete"} => status[target[h]] # "none"

\* What an actor was seen to have, and what was compared with it, is still so.
Compared(h) ==
  /\ op[h] \in {"grant", "invite"} => rolePerms[role[h]] \subseteq aperms[h]
  /\ op[h] = "map" => wanted[h] \ rolePerms[role[h]] \subseteq aperms[h]

PowersStand ==
  alone => \A h \in Handlers : /\ Serving(h) => aperms[h] \subseteq PowerOfAll
                               /\ pc[h] = "commit" => Compared(h)

\* The inductive invariant: a demotion without a lock is harmless as long as its
\* target is still none, and a change of power as long as the comparison stands.
IInv ==
  /\ TypeOK
  /\ RemainsUnlessPromoted
  /\ OneAtATime
  /\ StillNone
  /\ TargetsExist
  /\ PowersStand

-----------------------------------------------------------------------------
(* What a step of a handler does to the handlers.                          *)

LEMMA EndType ==
  ASSUME TypeOK, NEW h \in Handlers, End(h)
  PROVE  /\ pc' \in [Handlers -> {"idle", "role", "commit", "unguarded"}]
         /\ op' \in [Handlers -> Ops]
         /\ actor' \in [Handlers -> Users]
         /\ aperms' \in [Handlers -> SUBSET Perms]
         /\ target' \in [Handlers -> Users]
         /\ role' \in [Handlers -> Roles]
         /\ wanted' \in [Handlers -> SUBSET Perms]
  BY SuperAdminAssumption DEF End, Goto, TypeOK, Ops

LEMMA PermsOfType ==
  ASSUME TypeOK, NEW u \in Users
  PROVE  PermsOf(u) \subseteq Perms
  BY DEF PermsOf, TypeOK

LEMMA AdmitType ==
  ASSUME TypeOK, NEW h \in Handlers, NEW a \in Users, NEW o \in Ops, NEW u \in Users,
         NEW r \in Roles, NEW ps \in SUBSET Perms, Admit(h, a, o, u, r, ps), UNCHANGED alone
  PROVE  TypeOK'
<1>1. PermsOf(a) \in SUBSET Perms
  BY PermsOfType
<1>2. changes' \in Nat
  BY DEF Admit, TypeOK
<1>3. UNCHANGED <<status, holds, rolePerms, promoted>>
  BY DEF Admit, dbVars
<1>4. /\ pc' \in [Handlers -> {"idle", "role", "commit", "unguarded"}]
      /\ op' \in [Handlers -> Ops]
      /\ actor' \in [Handlers -> Users]
  BY DEF Admit, Goto, TypeOK
<1>5. /\ aperms' \in [Handlers -> SUBSET Perms]
      /\ target' \in [Handlers -> Users]
      /\ role' \in [Handlers -> Roles]
      /\ wanted' \in [Handlers -> SUBSET Perms]
  BY <1>1 DEF Admit, TypeOK
<1> QED
  BY <1>2, <1>3, <1>4, <1>5 DEF TypeOK

(* Every request is an admission of one of these.                          *)
LEMMA RequestIsAdmission ==
  ASSUME NEW h \in Handlers, Requests(h), TypeOK
  PROVE  \E a \in Users, o \in Ops, u \in Users, r \in Roles, ps \in SUBSET Perms :
           Admit(h, a, o, u, r, ps)
<1>1. PICK a \in Users :
        \/ \E u \in Users, o \in {"ban", "unban", "delete", "create"} :
             Admit(h, a, o, u, SuperAdmin, {})
        \/ \E u \in Users, r \in Grantable, o \in {"grant", "invite"} : Admit(h, a, o, u, r, {})
        \/ \E u \in Users, r \in Roles : Admit(h, a, "revoke", u, r, {})
        \/ \E r \in Roles, ps \in SUBSET Perms : Admit(h, a, "map", a, r, ps)
  BY DEF Requests
<1> {} \in SUBSET Perms
  OBVIOUS
<1>2. CASE \E u \in Users, o \in {"ban", "unban", "delete", "create"} :
             Admit(h, a, o, u, SuperAdmin, {})
  BY <1>2, SuperAdminAssumption DEF Ops
<1>3. CASE \E u \in Users, r \in Grantable, o \in {"grant", "invite"} : Admit(h, a, o, u, r, {})
  BY <1>3, GrantableAssumption DEF Ops
<1>4. CASE \E u \in Users, r \in Roles : Admit(h, a, "revoke", u, r, {})
  BY <1>4 DEF Ops
<1>5. CASE \E r \in Roles, ps \in SUBSET Perms : Admit(h, a, "map", a, r, ps)
  BY <1>5 DEF Ops
<1> QED
  BY <1>1, <1>2, <1>3, <1>4, <1>5

LEMMA DemoteType ==
  ASSUME TypeOK, NEW h \in Handlers, Demote(h), UNCHANGED alone
  PROVE  TypeOK'
<1>1. End(h) /\ UNCHANGED <<rolePerms, promoted, changes>>
  BY DEF Demote
<1>2. target[h] \in Users
  BY DEF TypeOK
<1>3. status' \in [Users -> Status]
  BY <1>2 DEF Demote, TypeOK, Status
<1>4. holds' \in [Users -> SUBSET Roles]
  BY <1>2 DEF Demote, TypeOK
<1> QED
  BY <1>1, <1>3, <1>4, EndType DEF TypeOK

LEMMA TypeKept ==
  ASSUME TypeOK, Next
  PROVE  TypeOK'
<1> UNCHANGED alone
  BY DEF Next
<1>1. PICK h \in Handlers : Requests(h) \/ HandlerStep(h)
  BY DEF Next, Step
<1> target[h] \in Users /\ role[h] \in Roles /\ wanted[h] \in SUBSET Perms
  BY DEF TypeOK
<1>2. CASE Requests(h)
  BY <1>2, RequestIsAdmission, AdmitType
<1>3. CASE CheckRole(h)
  <2>1. UNCHANGED <<status, holds, rolePerms, promoted, changes>>
    BY <1>3 DEF CheckRole, dbVars
  <2>2. CASE End(h)
    BY <2>1, <2>2, EndType DEF TypeOK
  <2>3. CASE Goto(h, "commit") /\ UNCHANGED <<op, actor, aperms, target, role, wanted>>
    BY <2>1, <2>3 DEF TypeOK, Goto
  <2> QED
    BY <1>3, <2>2, <2>3 DEF CheckRole
<1>4. CASE Grant(h)
  <2>1. holds' \in [Users -> SUBSET Roles]
    BY <1>4 DEF Grant, TypeOK
  <2>2. promoted' \in BOOLEAN
    BY <1>4 DEF Grant
  <2> QED
    BY <1>4, <2>1, <2>2, EndType DEF Grant, TypeOK
<1>5. CASE Create(h)
  <2>1. holds' \in [Users -> SUBSET Roles] /\ status' \in [Users -> Status]
    BY <1>5 DEF Create, TypeOK, Status
  <2>2. promoted' \in BOOLEAN
    BY <1>5 DEF Create, TypeOK
  <2> QED
    BY <1>5, <2>1, <2>2, EndType DEF Create, TypeOK
<1>6. CASE Unban(h)
  <2>1. status' \in [Users -> Status]
    BY <1>6 DEF Unban, TypeOK, Status
  <2> QED
    BY <1>6, <2>1, EndType DEF Unban, TypeOK
<1>7. CASE ReplaceMapping(h)
  <2>1. rolePerms' \in [Roles -> SUBSET Perms]
    BY <1>7 DEF ReplaceMapping, TypeOK
  <2> QED
    BY <1>7, <2>1, EndType DEF ReplaceMapping, TypeOK
<1>8. CASE GuardedDemotion(h) \/ UnguardedDemotion(h)
  BY <1>8, DemoteType DEF GuardedDemotion, UnguardedDemotion
<1>9. CASE LastSuperAdmin(h)
  BY <1>9, EndType DEF LastSuperAdmin, TypeOK, dbVars
<1>10. CASE NotSuperAdmin(h)
  BY <1>10 DEF NotSuperAdmin, TypeOK, Goto, dbVars
<1> QED
  BY <1>1, <1>2, <1>3, <1>4, <1>5, <1>6, <1>7, <1>8, <1>9, <1>10 DEF HandlerStep

(* The other handlers do not move, and h is not idle but for an admission. *)
LEMMA OthersRest ==
  ASSUME TypeOK, NEW h \in Handlers, Requests(h) \/ HandlerStep(h), NEW g \in Handlers, g # h
  PROVE  /\ pc'[g] = pc[g] /\ op'[g] = op[g] /\ target'[g] = target[g] /\ role'[g] = role[g]
         /\ aperms'[g] = aperms[g] /\ wanted'[g] = wanted[g]
<1>1. CASE Requests(h)
  BY <1>1, RequestIsAdmission DEF Admit, Goto, TypeOK
<1>2. CASE End(h)
  BY <1>2 DEF End, Goto, TypeOK
<1>3. CASE CheckRole(h) \/ NotSuperAdmin(h)
  BY <1>2, <1>3 DEF CheckRole, NotSuperAdmin, Goto, TypeOK
<1> QED
  BY <1>1, <1>2, <1>3 DEF HandlerStep, Grant, Create, Unban, ReplaceMapping, GuardedDemotion,
     LastSuperAdmin, UnguardedDemotion, Demote

LEMMA OnlyAdmittedStart ==
  ASSUME TypeOK, NEW h \in Handlers, HandlerStep(h)
  PROVE  Serving(h)
  BY DEF HandlerStep, CheckRole, Grant, Create, Unban, ReplaceMapping, GuardedDemotion,
     LastSuperAdmin, NotSuperAdmin, UnguardedDemotion, Demotion, Commit, Serving

LEMMA OneAtATimeKept ==
  ASSUME TypeOK, OneAtATime, Next
  PROVE  OneAtATime'
<1> UNCHANGED alone
  BY DEF Next
<1>1. PICK h \in Handlers : Requests(h) \/ HandlerStep(h)
  BY DEF Next, Step
<1> SUFFICES ASSUME alone, NEW g \in Handlers, Serving(g)', g # h
             PROVE  FALSE
  BY DEF OneAtATime
<1>2. Serving(g)
  BY <1>1, OthersRest DEF Serving
<1>3. CASE Requests(h)
  BY <1>2, <1>3, RequestIsAdmission DEF Admit, Serving
<1>4. CASE HandlerStep(h)
  BY <1>2, <1>4, OnlyAdmittedStart DEF OneAtATime
<1> QED
  BY <1>1, <1>3, <1>4

(* Somebody becomes a SUPER_ADMIN in two ways, and both are put down.      *)
LEMMA HoldersOnlyByPromotion ==
  ASSUME TypeOK, NEW h \in Handlers, Requests(h) \/ HandlerStep(h), NEW u \in Users,
         SuperAdmin \in holds'[u], SuperAdmin \notin holds[u]
  PROVE  promoted' /\ Serving(h)
<1>1. CASE Grant(h)
  BY <1>1 DEF Grant, TypeOK, Commit, Serving
<1>2. CASE Create(h)
  <2>1. Serving(h) /\ target[h] \in Users
    BY <1>2 DEF Create, TypeOK, Commit, Serving
  <2>2. holds' = [holds EXCEPT ![target[h]] = IF op[h] = "invite" THEN {role[h]} ELSE {}]
    BY <1>2 DEF Create
  <2>3. op[h] = "invite" /\ role[h] = SuperAdmin
    BY <2>1, <2>2 DEF TypeOK
  <2> QED
    BY <1>2, <2>1, <2>3 DEF Create
<1>3. CASE Demote(h)
  BY <1>3 DEF Demote, TypeOK
<1>4. CASE UNCHANGED holds
  BY <1>4
<1>5. CASE Requests(h)
  BY <1>4, <1>5, RequestIsAdmission DEF Admit, dbVars
<1> QED
  BY <1>1, <1>2, <1>3, <1>4, <1>5 DEF HandlerStep, CheckRole, Unban, ReplaceMapping,
     GuardedDemotion, LastSuperAdmin, NotSuperAdmin, UnguardedDemotion, dbVars

LEMMA PromotedStays ==
  ASSUME TypeOK, NEW h \in Handlers, Requests(h) \/ HandlerStep(h), promoted
  PROVE  promoted'
<1>1. CASE Requests(h)
  BY <1>1, RequestIsAdmission DEF Admit, dbVars
<1> QED
  BY <1>1 DEF HandlerStep, CheckRole, Grant, Create, Unban, ReplaceMapping, GuardedDemotion,
     LastSuperAdmin, NotSuperAdmin, UnguardedDemotion, Demote, dbVars

(* A handler comes to its unguarded commit only from the look at the rows. *)
LEMMA UnguardedIsNew ==
  ASSUME TypeOK, NEW h \in Handlers, Requests(h) \/ HandlerStep(h), pc'[h] = "unguarded"
  PROVE  NotSuperAdmin(h)
<1>1. CASE Requests(h)
  BY <1>1, RequestIsAdmission DEF Admit, Goto, TypeOK
<1>2. CASE End(h)
  BY <1>2 DEF End, Goto, TypeOK
<1>3. CASE CheckRole(h)
  BY <1>2, <1>3 DEF CheckRole, Goto, TypeOK
<1> QED
  BY <1>1, <1>2, <1>3 DEF HandlerStep, Grant, Create, Unban, ReplaceMapping, GuardedDemotion,
     LastSuperAdmin, UnguardedDemotion, Demote

LEMMA StillNoneKept ==
  ASSUME TypeOK, OneAtATime, StillNone, Next
  PROVE  StillNone'
<1> UNCHANGED alone
  BY DEF Next
<1>1. PICK h \in Handlers : Requests(h) \/ HandlerStep(h)
  BY DEF Next, Step
<1> SUFFICES ASSUME NEW g \in Handlers, pc'[g] = "unguarded", alone \/ ~promoted'
             PROVE  SuperAdmin \notin holds'[target'[g]]
  BY DEF StillNone
<1>2. CASE g = h
  BY <1>1, <1>2, UnguardedIsNew DEF NotSuperAdmin, dbVars
<1>3. CASE g # h
  <2>1. pc[g] = "unguarded" /\ target'[g] = target[g] /\ target[g] \in Users
    BY <1>1, <1>3, OthersRest DEF TypeOK
  <2>2. SuperAdmin \notin holds[target[g]]
    BY <1>1, <2>1, PromotedStays DEF StillNone
  <2>3. Serving(g)
    BY <2>1 DEF Serving
  <2>4. ~(alone /\ Serving(h))
    BY <1>3, <2>3 DEF OneAtATime
  <2> QED
    BY <1>1, <2>1, <2>2, <2>4, HoldersOnlyByPromotion
<1> QED
  BY <1>2, <1>3

(* The lock and the count keep one; without the lock, the target is none.  *)
LEMMA RemainsKept ==
  ASSUME TypeOK, StillNone, RemainsUnlessPromoted, Next
  PROVE  RemainsUnlessPromoted'
<1> UNCHANGED alone
  BY DEF Next
<1>1. PICK h \in Handlers : Requests(h) \/ HandlerStep(h)
  BY DEF Next, Step
<1> SUFFICES ASSUME alone \/ ~promoted'
             PROVE  SuperAdmins' # {}
  BY DEF RemainsUnlessPromoted, SuperAdminRemains
<1>2. alone \/ ~promoted
  BY <1>1, PromotedStays
<1>3. PICK s \in SuperAdmins : TRUE
  BY <1>2 DEF RemainsUnlessPromoted, SuperAdminRemains
<1>4. s \in Users /\ SuperAdmin \in holds[s] /\ status[s] = "ACTIVE"
  BY <1>3 DEF SuperAdmins
<1> target[h] \in Users
  BY DEF TypeOK
<1>5. CASE GuardedDemotion(h)
  <2>1. PICK t \in Remaining(target[h]) : TRUE
    BY <1>5 DEF GuardedDemotion
  <2>2. t \in Users /\ t # target[h] /\ SuperAdmin \in holds[t] /\ status[t] = "ACTIVE"
    BY <2>1 DEF Remaining, SuperAdmins
  <2>3. SuperAdmin \in holds'[t] /\ status'[t] = "ACTIVE"
    BY <1>5, <2>2 DEF GuardedDemotion, Demote, TypeOK
  <2> QED
    BY <2>2, <2>3 DEF SuperAdmins
<1>6. CASE UnguardedDemotion(h)
  <2>1. CASE pc[h] = "unguarded"
    <3>1. s # target[h]
      BY <1>2, <1>4, <2>1 DEF StillNone
    <3>2. SuperAdmin \in holds'[s] /\ status'[s] = "ACTIVE"
      BY <1>4, <1>6, <3>1 DEF UnguardedDemotion, Demote, TypeOK
    <3> QED
      BY <1>4, <3>2 DEF SuperAdmins
  <2>2. CASE Commit(h, "revoke") /\ role[h] # SuperAdmin
    <3>1. SuperAdmin \in holds'[s] /\ status'[s] = "ACTIVE"
      BY <1>4, <1>6, <2>2 DEF UnguardedDemotion, Demote, TypeOK, Commit
    <3> QED
      BY <1>4, <3>1 DEF SuperAdmins
  <2> QED
    BY <1>6, <2>1, <2>2 DEF UnguardedDemotion
<1>7. CASE Grant(h) \/ Create(h) \/ Unban(h) \/ ReplaceMapping(h) \/ UNCHANGED <<holds, status>>
  <2>1. SuperAdmin \in holds'[s] /\ status'[s] = "ACTIVE"
    BY <1>4, <1>7 DEF Grant, Create, Unban, ReplaceMapping, TypeOK
  <2> QED
    BY <1>4, <2>1 DEF SuperAdmins
<1>8. CASE Requests(h)
  BY <1>7, <1>8, RequestIsAdmission DEF Admit, dbVars
<1> QED
  BY <1>1, <1>5, <1>6, <1>7, <1>8 DEF HandlerStep, CheckRole, LastSuperAdmin, NotSuperAdmin, dbVars

(* Nobody goes back to not being there.                                    *)
LEMMA NobodyVanishes ==
  ASSUME TypeOK, NEW h \in Handlers, Requests(h) \/ HandlerStep(h), NEW u \in Users,
         status[u] # "none"
  PROVE  status'[u] # "none"
<1>1. CASE Create(h)
  BY <1>1 DEF Create, TypeOK
<1>2. CASE Unban(h)
  BY <1>2 DEF Unban, TypeOK
<1>3. CASE Demote(h)
  BY <1>3 DEF Demote, TypeOK
<1>4. CASE Requests(h)
  BY <1>4, RequestIsAdmission DEF Admit, dbVars
<1> QED
  BY <1>1, <1>2, <1>3, <1>4 DEF HandlerStep, CheckRole, Grant, ReplaceMapping, GuardedDemotion,
     LastSuperAdmin, NotSuperAdmin, UnguardedDemotion, dbVars

(* What a handler works on stays the same from its admission to its end.   *)
LEMMA SameRequest ==
  ASSUME TypeOK, NEW h \in Handlers, HandlerStep(h), Serving(h)'
  PROVE  /\ Serving(h)
         /\ CheckRole(h) \/ NotSuperAdmin(h)
         /\ UNCHANGED <<op, actor, aperms, target, role, wanted>>
         /\ CheckRole(h) => RoleAllowed(h) /\ pc' = [pc EXCEPT ![h] = "commit"]
         /\ UNCHANGED <<status, holds, rolePerms, promoted>>
<1>1. ~End(h)
  BY DEF End, Goto, TypeOK, Serving
<1> QED
  BY <1>1 DEF HandlerStep, CheckRole, Grant, Create, Unban, ReplaceMapping, GuardedDemotion,
     LastSuperAdmin, NotSuperAdmin, UnguardedDemotion, Demote, Demotion, Commit, dbVars, Goto,
     Serving

LEMMA TargetsExistKept ==
  ASSUME TypeOK, TargetsExist, Next
  PROVE  TargetsExist'
<1>1. PICK h \in Handlers : Requests(h) \/ HandlerStep(h)
  BY DEF Next, Step
<1> SUFFICES ASSUME NEW g \in Handlers, Serving(g)', op'[g] \in {"ban", "unban", "delete"}
             PROVE  status'[target'[g]] # "none"
  BY DEF TargetsExist
<1>2. CASE g # h
  <2>1. Serving(g) /\ op[g] = op'[g] /\ target[g] = target'[g] /\ target[g] \in Users
    BY <1>1, <1>2, OthersRest DEF Serving, TypeOK
  <2> QED
    BY <1>1, <2>1, NobodyVanishes DEF TargetsExist
<1>3. CASE g = h /\ HandlerStep(h)
  <2> Serving(h)'
    BY <1>3 DEF Serving
  <2>1. Serving(h) /\ UNCHANGED <<op, target, status>>
    BY <1>3, SameRequest
  <2> QED
    BY <1>3, <2>1 DEF TargetsExist
<1>4. CASE g = h /\ Requests(h)
  <2>1. PICK a \in Users, o \in Ops, u \in Users, r \in Roles, ps \in SUBSET Perms :
          Admit(h, a, o, u, r, ps)
    BY <1>4, RequestIsAdmission
  <2>2. op'[h] = o /\ target'[h] = u /\ UNCHANGED status
    BY <2>1 DEF Admit, TypeOK, dbVars
  <2>3. status[u] # "none"
    BY <1>4, <2>1, <2>2 DEF Admit
  <2> QED
    BY <1>4, <2>2, <2>3
<1> QED
  BY <1>1, <1>2, <1>3, <1>4

LEMMA PowersStandKept ==
  ASSUME TypeOK, OneAtATime, PowersStand, Next
  PROVE  PowersStand'
<1> UNCHANGED alone
  BY DEF Next
<1>1. PICK h \in Handlers : Requests(h) \/ HandlerStep(h)
  BY DEF Next, Step
<1> SUFFICES ASSUME alone, NEW g \in Handlers, Serving(g)'
             PROVE  aperms'[g] \subseteq PowerOfAll' /\ (pc'[g] = "commit" => Compared(g)')
  BY DEF PowersStand, Serving
<1>2. OneAtATime'
  BY OneAtATimeKept
<1>3. CASE HandlerStep(h)
  <2>1. Serving(h)
    BY <1>3, OnlyAdmittedStart
  <2>2. g = h
    BY <1>3, <2>1, OthersRest DEF OneAtATime, Serving
  <2>3. UNCHANGED PowerOfAll /\ aperms[h] \subseteq PowerOfAll
    BY <1>3, <2>1, <2>2, SameRequest DEF PowerOfAll, PermsOf, PowersStand
  <2>4. CASE CheckRole(h)
    <3>1. RoleAllowed(h) /\ UNCHANGED <<op, aperms, role, wanted, rolePerms>>
      BY <1>3, <2>2, <2>4, SameRequest
    <3>2. Compared(h)'
      BY <3>1 DEF RoleAllowed, Compared
    <3> QED
      BY <2>2, <2>3, <3>1, <3>2
  <2>5. CASE NotSuperAdmin(h)
    <3>1. pc'[h] = "unguarded" /\ UNCHANGED aperms
      BY <2>5 DEF NotSuperAdmin, Goto, TypeOK
    <3> QED
      BY <2>2, <2>3, <3>1
  <2> QED
    BY <1>3, <2>2, <2>4, <2>5, SameRequest
<1>4. CASE Requests(h)
  <2>1. PICK a \in Users, o \in Ops, u \in Users, r \in Roles, ps \in SUBSET Perms :
          Admit(h, a, o, u, r, ps)
    BY <1>4, RequestIsAdmission
  <2>2. /\ pc'[h] = (IF o \in OnRole THEN "role" ELSE "commit")
        /\ op'[h] = o /\ aperms'[h] = PermsOf(a)
        /\ UNCHANGED <<status, holds, rolePerms>>
    BY <2>1 DEF Admit, Goto, TypeOK, dbVars
  <2>3. Serving(h)'
    BY <2>2 DEF Serving
  <2>4. g = h
    BY <1>2, <2>3 DEF OneAtATime
  <2>5. PermsOf(a) \subseteq PowerOfAll /\ UNCHANGED PowerOfAll
    BY <2>1, <2>2 DEF PowerOfAll, PermsOf, Admit
  <2>6. pc'[h] = "commit" => Compared(h)'
    BY <2>2 DEF Compared, OnRole
  <2> QED
    BY <2>2, <2>4, <2>5, <2>6
<1> QED
  BY <1>1, <1>3, <1>4

-----------------------------------------------------------------------------
LEMMA InitHolds ==
  ASSUME Init
  PROVE  IInv
<1>1. TypeOK
  <2>1. holds \in [Users -> SUBSET Roles] /\ status \in [Users -> Status]
    BY SuperAdminAssumption DEF Init, Status
  <2> QED
    BY <2>1, SuperAdminAssumption DEF Init, TypeOK, Ops
<1> QED
  BY <1>1 DEF Init, IInv, RemainsUnlessPromoted, SuperAdminRemains, OneAtATime, Serving, StillNone,
     TargetsExist, PowersStand

LEMMA StepKeeps ==
  ASSUME IInv, [Next]_vars
  PROVE  IInv'
<1>1. CASE Next
  BY <1>1, TypeKept, RemainsKept, OneAtATimeKept, StillNoneKept, TargetsExistKept, PowersStandKept
     DEF IInv
<1>2. CASE UNCHANGED vars
  BY <1>2 DEF IInv, vars, dbVars, handlerVars, TypeOK, RemainsUnlessPromoted, SuperAdminRemains,
     SuperAdmins, OneAtATime, Serving, StillNone, TargetsExist, PowersStand, Compared, PowerOfAll,
     PermsOf
<1> QED
  BY <1>1, <1>2

\* The strengthening of the invariants below is one.
THEOREM Invariant == Spec => []IInv
<1>1. Init => IInv
  BY InitHolds
<1>2. IInv /\ [Next]_vars => IInv'
  BY StepKeeps
<1> QED
  BY <1>1, <1>2, PTL DEF Spec

\* RI-1 holds whatever members and roles there are, while requests come one at a time,
\* and when they overlap, as long as nobody is made SUPER_ADMIN.
THEOREM SuperAdminsRemain == Spec => []RemainsUnlessPromoted
<1>1. IInv => RemainsUnlessPromoted
  BY DEF IInv
<1> QED
  BY <1>1, Invariant, PTL

(* A permission that somebody has after a step was somebody's before it.   *)
LEMMA PowerIsPassedOn ==
  ASSUME IInv, alone, Next
  PROVE  PowerOfAll' \subseteq PowerOfAll
<1> TypeOK /\ TargetsExist /\ PowersStand
  BY DEF IInv
<1>1. PICK h \in Handlers : Requests(h) \/ HandlerStep(h)
  BY DEF Next, Step
<1> target[h] \in Users /\ role[h] \in Roles /\ wanted[h] \in SUBSET Perms
  BY DEF TypeOK
<1> SUFFICES ASSUME NEW u \in Users, status'[u] # "none", NEW r \in holds'[u],
                    NEW p \in rolePerms'[r]
             PROVE  p \in PowerOfAll
  BY DEF PowerOfAll, PermsOf
<1>2. ASSUME NEW v \in Users, status[v] # "none", NEW q \in holds[v], p \in rolePerms[q]
      PROVE  p \in PowerOfAll
  BY <1>2 DEF PowerOfAll, PermsOf
<1>3. aperms[h] \subseteq PowerOfAll \/ ~Serving(h)
  BY DEF PowersStand
<1>4. CASE UNCHANGED <<status, holds, rolePerms>>
  BY <1>2, <1>4
<1>5. CASE Grant(h)
  <2>1. Serving(h) /\ rolePerms[role[h]] \subseteq aperms[h]
    BY <1>5 DEF Grant, Commit, Serving, PowersStand, Compared
  <2>2. r \in holds[u] \/ r = role[h]
    BY <1>5 DEF Grant, TypeOK
  <2>3. UNCHANGED <<status, rolePerms>>
    BY <1>5 DEF Grant
  <2> QED
    BY <1>2, <1>3, <2>1, <2>2, <2>3
<1>6. CASE Create(h) /\ UNCHANGED <<status, holds>>
  BY <1>2, <1>6 DEF Create
<1>7. CASE Create(h) /\ ~UNCHANGED <<status, holds>>
  <2>1. /\ status' = [status EXCEPT ![target[h]] = "ACTIVE"]
        /\ holds' = [holds EXCEPT ![target[h]] = IF op[h] = "invite" THEN {role[h]} ELSE {}]
        /\ UNCHANGED rolePerms
    BY <1>7 DEF Create
  <2>2. CASE u = target[h]
    <3>1. op[h] = "invite" /\ r = role[h]
      BY <2>1, <2>2 DEF TypeOK
    <3>2. Serving(h) /\ rolePerms[role[h]] \subseteq aperms[h]
      BY <1>7, <3>1 DEF Create, Commit, Serving, PowersStand, Compared
    <3> QED
      BY <1>3, <2>1, <3>1, <3>2
  <2>3. CASE u # target[h]
    BY <1>2, <2>1, <2>3 DEF TypeOK
  <2> QED
    BY <2>2, <2>3
<1>8. CASE Unban(h)
  <2>1. status[target[h]] # "none"
    BY <1>8 DEF Unban, Commit, Serving, TargetsExist
  <2>2. status[u] # "none" /\ UNCHANGED <<holds, rolePerms>>
    BY <1>8, <2>1 DEF Unban, TypeOK
  <2> QED
    BY <1>2, <2>2
<1>9. CASE ReplaceMapping(h)
  <2>1. Serving(h) /\ wanted[h] \ rolePerms[role[h]] \subseteq aperms[h]
    BY <1>9 DEF ReplaceMapping, Commit, Serving, PowersStand, Compared
  <2>2. UNCHANGED <<status, holds>> /\ rolePerms' = [rolePerms EXCEPT ![role[h]] = wanted[h]]
    BY <1>9 DEF ReplaceMapping
  <2>3. r \in holds[u] /\ r \in Roles
    BY <2>2 DEF TypeOK
  <2>4. p \in rolePerms[r] \/ p \in aperms[h]
    BY <2>1, <2>2, <2>3 DEF TypeOK
  <2> QED
    BY <1>2, <1>3, <2>1, <2>2, <2>3, <2>4
<1>10. CASE Demote(h) /\ Serving(h)
  <2>1. r \in holds[u] /\ UNCHANGED rolePerms
    BY <1>10 DEF Demote, TypeOK
  <2>2. status[u] # "none"
    BY <1>10 DEF Demote, TypeOK, TargetsExist
  <2> QED
    BY <1>2, <2>1, <2>2
<1>11. CASE Requests(h)
  BY <1>4, <1>11, RequestIsAdmission DEF Admit, dbVars
<1>12. CASE HandlerStep(h)
  <2> Serving(h)
    BY <1>12, OnlyAdmittedStart
  <2> QED
    BY <1>4, <1>5, <1>6, <1>7, <1>8, <1>9, <1>10, <1>12 DEF HandlerStep, CheckRole, GuardedDemotion,
       LastSuperAdmin, NotSuperAdmin, UnguardedDemotion, dbVars
<1> QED
  BY <1>1, <1>11, <1>12

\* One request at a time, no grant, invitation or edit of a mapping gives anybody a
\* permission that no member had, however many administrators and roles there are.
THEOREM PowerComesFromPower == Spec => NoPowerFromNothing
<1>1. IInv /\ [Next]_vars => [alone => PowerOfAll' \subseteq PowerOfAll]_vars
  BY PowerIsPassedOn
<1> QED
  BY <1>1, Invariant, PTL DEF Spec, NoPowerFromNothing

=============================================================================
