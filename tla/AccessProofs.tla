---------------------------- MODULE AccessProofs ----------------------------
(***************************************************************************)
(* Proofs about the access to one resource: the grants on a file or a      *)
(* domain (ResourceGrants), for any users, administrators, handlers,       *)
(* whitelist and bounds, and the paths to a board and its posts (Boards),  *)
(* for any users and capabilities.                                         *)
(***************************************************************************)
EXTENDS MCAccess, TLAPS

(* Who may share: nobody gets the right to share from a grant, as the      *)
(* whitelist does not hold it.                                             *)
LEMMA SharersAreEntitled ==
  ASSUME TypeOK, NEW u \in Users, NEW ps \in SUBSET Perms, NEW life \in Lives,
         MayShare(u), Shareable(u, ps, life)
  PROVE  \/ u = owner
         \/ kind = "file" /\ u \in Admins /\ ps = {"read"} /\ life = "term"
<1> SUFFICES ASSUME u # owner
             PROVE  u \in Admins
  BY DEF Shareable
<1>1. ~Granted(Subject(u), "share", "ALLOW", grants)
  BY PermsAssumption DEF Granted, TypeOK, Grant
<1>2. ~Granted(Subject(u), "share.all", "ALLOW", grants)
  BY PermsAssumption DEF Granted, TypeOK, Grant, AdminPerms
<1>3. ~ByRole(Subject(u), "share", Resource)
  BY DEF ByRole, Subject, Resource, OwnPerms
<1>4. ByRole(Subject(u), "share.all", Resource) => u \in Admins
  <2>1. "share.all" \in AdminPerms /\ "share.all" \notin OwnPerms
    BY PermsAssumption DEF AdminPerms, OwnPerms
  <2> QED
    BY <2>1 DEF ByRole, Subject, Resource
<1> QED
  BY <1>1, <1>2, <1>3, <1>4 DEF MayShare, May, Can

-----------------------------------------------------------------------------
(* What holds of the handlers when one of them starts.                     *)
LEMMA AskKeeps ==
  ASSUME IInv, UNCHANGED alone, NEW h \in Handlers,
         NEW step \in {"share", "revoke", "delete", "accept"}, NEW r \in Request,
         Ask(h, step, r),
         step = "share" => r \in Share /\ (alone \/ kind = "file" => OwnersShare(r)),
         step = "revoke" => r \in Revoke,
         step = "accept" => r \in Accept /\ kind = "domain"
  PROVE  IInv'
<1> UNCHANGED <<alone, kind, suspended, owner, deleted, alive, grants, created>>
  BY DEF Ask, rowVars
<1>1. /\ pc' = [pc EXCEPT ![h] = step]
      /\ req' = [req EXCEPT ![h] = r]
  BY DEF Ask
<1>2. HandlersTyped /\ OneAtATime /\ OnlyDomainsMove /\ SharesAreEntitled
  BY DEF IInv, TypeOK
<1>3. HandlersTyped'
  BY <1>1, <1>2 DEF HandlersTyped
<1>4. TypeOK'
  BY <1>3 DEF IInv, TypeOK
<1>5. NothingOnDeleted' /\ GrantsAreTheOwners'
  BY DEF IInv, NothingOnDeleted, GrantsAreTheOwners, OwnersGrant
<1>6. OneAtATime'
  BY <1>1, <1>2 DEF OneAtATime, HandlersTyped, Ask
<1>7. OnlyDomainsMove'
  BY <1>1, <1>2 DEF OnlyDomainsMove, HandlersTyped
<1>8. SharesAreEntitled'
  <2> SUFFICES ASSUME alone \/ kind = "file", NEW g \in Handlers, pc'[g] = "share"
               PROVE  OwnersShare(req'[g])
    BY DEF SharesAreEntitled, OwnersShare
  <2>1. CASE g = h
    BY <1>1, <1>2, <2>1 DEF HandlersTyped
  <2>2. CASE g # h
    BY <1>1, <1>2, <2>2 DEF HandlersTyped, SharesAreEntitled
  <2> QED
    BY <2>1, <2>2
<1> QED
  BY <1>4, <1>5, <1>6, <1>7, <1>8 DEF IInv

(* What holds of the handlers when one of them ends, the resource staying  *)
(* with its owner or no other request being there to notice.               *)
LEMMA EndKeeps ==
  ASSUME IInv, UNCHANGED <<alone, kind>>, NEW h \in Handlers, pc[h] # "idle", End(h),
         UNCHANGED owner \/ kind = "domain"
  PROVE  HandlersTyped' /\ OneAtATime' /\ OnlyDomainsMove' /\ SharesAreEntitled'
<1>1. /\ pc' = [pc EXCEPT ![h] = "idle"]
      /\ req' = [req EXCEPT ![h] = NoRequest]
  BY DEF End
<1>2. HandlersTyped /\ OneAtATime /\ OnlyDomainsMove /\ SharesAreEntitled
  BY DEF IInv, TypeOK
<1>3. HandlersTyped'
  BY <1>1, <1>2 DEF HandlersTyped, Request
<1>4. OneAtATime'
  BY <1>1, <1>2 DEF OneAtATime, HandlersTyped
<1>5. OnlyDomainsMove'
  BY <1>1, <1>2 DEF OnlyDomainsMove, HandlersTyped
<1>6. SharesAreEntitled'
  <2> SUFFICES ASSUME alone \/ kind = "file", NEW g \in Handlers, pc'[g] = "share"
               PROVE  OwnersShare(req[g])'
    BY DEF SharesAreEntitled
  <2>1. g # h /\ pc[g] = "share" /\ req'[g] = req[g]
    BY <1>1, <1>2 DEF HandlersTyped
  <2>2. OwnersShare(req[g])
    BY <1>2, <2>1 DEF SharesAreEntitled
  <2>3. ~alone
    BY <1>2, <2>1 DEF OneAtATime
  <2>4. UNCHANGED owner
    BY <2>3
  <2> QED
    BY <2>1, <2>2, <2>4 DEF OwnersShare
<1> QED
  BY <1>3, <1>4, <1>5, <1>6

(* What holds of the handlers while none of them moves.                    *)
LEMMA RestKeeps ==
  ASSUME IInv, UNCHANGED <<alone, kind, owner, handlerVars>>
  PROVE  HandlersTyped' /\ OneAtATime' /\ OnlyDomainsMove' /\ SharesAreEntitled'
<1> UNCHANGED <<pc, req>>
  BY DEF handlerVars
<1> QED
  BY DEF IInv, TypeOK, HandlersTyped, OneAtATime, OnlyDomainsMove, SharesAreEntitled, OwnersShare

(* What holds of the rows when some of them go and the owner stays.        *)
LEMMA FewerGrants ==
  ASSUME IInv, UNCHANGED <<alone, kind, suspended, owner, created>>,
         grants' \subseteq grants, alive' \subseteq alive,
         UNCHANGED deleted \/ (deleted' = TRUE /\ grants' = {}),
         HandlersTyped'
  PROVE  TypeOK' /\ NothingOnDeleted' /\ GrantsAreTheOwners'
<1>1. TypeOK'
  BY DEF IInv, TypeOK
<1>2. NothingOnDeleted'
  BY DEF IInv, NothingOnDeleted
<1>3. GrantsAreTheOwners'
  BY DEF IInv, GrantsAreTheOwners, OwnersGrant
<1> QED
  BY <1>1, <1>2, <1>3

-----------------------------------------------------------------------------
LEMMA ShareKeeps ==
  ASSUME IInv, UNCHANGED alone, NEW h \in Handlers, CommitShare(h)
  PROVE  IInv'
<1> UNCHANGED <<kind, suspended, owner, deleted, alive>>
  BY DEF CommitShare, rowVars
<1>1. req[h] \in Share /\ (alone \/ kind = "file" => OwnersShare(req[h]))
  BY DEF CommitShare, IInv, TypeOK, HandlersTyped, SharesAreEntitled
<1>2. HandlersTyped' /\ OneAtATime' /\ OnlyDomainsMove' /\ SharesAreEntitled'
  BY EndKeeps DEF CommitShare
<1>3. CASE UNCHANGED <<grants, created>>
  BY <1>2, <1>3, FewerGrants DEF IInv
<1>4. CASE ~deleted /\ Insert(NewRows(h))
  <2>1. created \in [share : Nat, deny : Nat] /\ NextId \in Nat
    BY DEF IInv, TypeOK, NextId
  <2>2. \A g \in NewRows(h) : g \in Grant
    BY <1>1, <2>1 DEF NewRows, Grant, Share
  <2>3. created' \in [share : Nat, deny : Nat]
    BY <1>4, <2>1 DEF Insert
  <2>4. TypeOK'
    BY <1>2, <1>4, <2>2, <2>3 DEF IInv, TypeOK, Insert
  <2>5. NothingOnDeleted'
    BY <1>4 DEF NothingOnDeleted
  <2>6. \A g \in NewRows(h) : alone \/ kind = "file" => OwnersGrant(g)
    BY <1>1 DEF NewRows, OwnersShare, OwnersGrant
  <2>7. GrantsAreTheOwners'
    BY <1>4, <2>6 DEF IInv, GrantsAreTheOwners, OwnersGrant, Insert
  <2> QED
    BY <1>2, <2>4, <2>5, <2>7 DEF IInv
<1> QED
  BY <1>3, <1>4 DEF CommitShare

LEMMA AcceptKeeps ==
  ASSUME IInv, UNCHANGED alone, NEW h \in Handlers, CommitAccept(h)
  PROVE  IInv'
<1> UNCHANGED <<kind, suspended, deleted, alive, created>>
  BY DEF CommitAccept
<1>1. kind = "domain" /\ req[h] \in Accept
  BY DEF CommitAccept, IInv, TypeOK, HandlersTyped, OnlyDomainsMove
<1>2. HandlersTyped' /\ OneAtATime' /\ OnlyDomainsMove' /\ SharesAreEntitled'
  BY <1>1, EndKeeps DEF CommitAccept
<1>3. CASE UNCHANGED <<owner, grants>>
  BY <1>2, <1>3, FewerGrants DEF IInv
<1>4. CASE owner' = req[h].by /\ grants' = {g \in grants : g.effect = "DENY"}
  <2>1. TypeOK'
    BY <1>1, <1>2, <1>4 DEF IInv, TypeOK, Accept
  <2>2. NothingOnDeleted'
    BY <1>4 DEF IInv, NothingOnDeleted
  <2>3. \A g \in grants' : g.effect # "ALLOW"
    BY <1>4
  <2>4. GrantsAreTheOwners'
    BY <2>3 DEF GrantsAreTheOwners
  <2> QED
    BY <1>2, <2>1, <2>2, <2>4 DEF IInv
<1> QED
  BY <1>3, <1>4 DEF CommitAccept

LEMMA HandlerStepKeeps ==
  ASSUME IInv, UNCHANGED alone, NEW h \in Handlers, HandlerStep(h)
  PROVE  IInv'
<1>1. CASE CommitShare(h)
  BY <1>1, ShareKeeps
<1>2. CASE CommitRevoke(h)
  <2> UNCHANGED <<kind, suspended, owner, deleted, alive, created>> /\ grants' \subseteq grants
    BY <1>2 DEF CommitRevoke, rowVars
  <2>1. HandlersTyped' /\ OneAtATime' /\ OnlyDomainsMove' /\ SharesAreEntitled'
    BY <1>2, EndKeeps DEF CommitRevoke
  <2> QED
    BY <2>1, FewerGrants DEF IInv
<1>3. CASE CommitDelete(h)
  <2> UNCHANGED <<kind, suspended, owner, alive, created>> /\ deleted' = TRUE /\ grants' = {}
    BY <1>3 DEF CommitDelete
  <2>1. HandlersTyped' /\ OneAtATime' /\ OnlyDomainsMove' /\ SharesAreEntitled'
    BY <1>3, EndKeeps DEF CommitDelete
  <2> QED
    BY <2>1, FewerGrants DEF IInv
<1>4. CASE CommitAccept(h)
  BY <1>4, AcceptKeeps
<1> QED
  BY <1>1, <1>2, <1>3, <1>4 DEF HandlerStep

LEMMA AskedKeeps ==
  ASSUME IInv, UNCHANGED alone, NEW h \in Handlers, NEW u \in Users, Asked(h, u)
  PROVE  IInv'
<1>0. TypeOK
  BY DEF IInv
<1>1. ASSUME NEW s \in Users, NEW ps \in SUBSET Perms \ {{}}, NEW life \in Lives \ {"expired"},
             AskShare(h, u, s, ps, life)
      PROVE  IInv'
  <2> DEFINE r == [by |-> u, subject |-> s, perms |-> ps, life |-> life]
  <2>1. r \in Share
    BY DEF Share
  <2>2. OwnersShare(r)
    BY <1>0, <1>1, SharersAreEntitled DEF AskShare, OwnersShare
  <2>3. Ask(h, "share", r)
    BY <1>1 DEF AskShare
  <2> HIDE DEF r
  <2> QED
    BY <2>1, <2>2, <2>3, AskKeeps DEF Request
<1>2. ASSUME NEW g \in grants, AskRevoke(h, u, g)
      PROVE  IInv'
  <2> DEFINE r == [by |-> u, grant |-> g]
  <2>1. r \in Revoke
    BY <1>0 DEF TypeOK, Revoke
  <2>2. Ask(h, "revoke", r)
    BY <1>2 DEF AskRevoke
  <2> HIDE DEF r
  <2> QED
    BY <2>1, <2>2, AskKeeps DEF Request
<1>3. CASE AskDelete(h, u)
  BY <1>3, AskKeeps DEF AskDelete, Request
<1>4. CASE AskAccept(h, u)
  <2> DEFINE r == [by |-> u, from |-> owner]
  <2>1. r \in Accept /\ kind = "domain"
    BY <1>0, <1>4 DEF AskAccept, TypeOK, Accept
  <2>2. Ask(h, "accept", r)
    BY <1>4 DEF AskAccept
  <2> HIDE DEF r
  <2> QED
    BY <2>1, <2>2, AskKeeps DEF Request
<1> QED
  BY <1>1, <1>2, <1>3, <1>4 DEF Asked

LEMMA WorkerStepKeeps ==
  ASSUME IInv, UNCHANGED alone,
         \/ \E u \in Users : DeleteUser(u)
         \/ Purge
         \/ RevokeOrphans
         \/ \E g \in grants : PurgeExpired(g)
  PROVE  IInv'
<1>1. /\ UNCHANGED <<kind, suspended, owner, created, handlerVars>>
      /\ grants' \subseteq grants
      /\ alive' \subseteq alive
      /\ UNCHANGED deleted \/ (deleted' = TRUE /\ grants' = {})
  <2>1. CASE \E u \in Users : DeleteUser(u)
    BY <2>1 DEF DeleteUser, rowVars
  <2>2. CASE Purge
    BY <2>2 DEF Purge
  <2>3. CASE RevokeOrphans
    BY <2>3 DEF RevokeOrphans, rowVars
  <2>4. CASE \E g \in grants : PurgeExpired(g)
    BY <2>4 DEF PurgeExpired, rowVars
  <2> QED
    BY <2>1, <2>2, <2>3, <2>4
<1>2. HandlersTyped' /\ OneAtATime' /\ OnlyDomainsMove' /\ SharesAreEntitled'
  BY <1>1, RestKeeps
<1> QED
  BY <1>1, <1>2, FewerGrants DEF IInv

(* A row that expires stays the row of the one who granted it; a DENY that *)
(* comes allows nothing.                                                   *)
LEMMA RowStepKeeps ==
  ASSUME IInv, UNCHANGED alone,
         \/ \E g \in grants : Expire(g)
         \/ \E s, u \in Users, p \in Perms : Deny(s, p, u)
  PROVE  IInv'
<1>1. UNCHANGED <<kind, suspended, owner, deleted, alive, handlerVars>>
  BY DEF Expire, Deny, rowVars
<1>2. HandlersTyped' /\ OneAtATime' /\ OnlyDomainsMove' /\ SharesAreEntitled'
  BY <1>1, RestKeeps
<1>3. \A g \in grants : g \in Grant
  BY DEF IInv, TypeOK
<1>4. ASSUME NEW g \in grants, Expire(g)
      PROVE  IInv'
  <2> DEFINE k == [g EXCEPT !.life = "expired"]
  <2>1. k \in Grant /\ k.by = g.by /\ k.perm = g.perm /\ k.effect = g.effect /\ k.life = "expired"
    BY <1>3 DEF Grant, Lives
  <2>2. OwnersGrant(g) => OwnersGrant(k)
    BY <2>1 DEF OwnersGrant
  <2>3. grants' \subseteq grants \union {k} /\ created' = created
    BY <1>4 DEF Expire
  <2> HIDE DEF k
  <2>4. TypeOK'
    BY <1>1, <1>2, <2>1, <2>3 DEF IInv, TypeOK
  <2>5. NothingOnDeleted'
    BY <1>1, <1>4 DEF IInv, NothingOnDeleted
  <2>6. GrantsAreTheOwners'
    BY <1>1, <2>1, <2>2, <2>3 DEF IInv, GrantsAreTheOwners, OwnersGrant
  <2> QED
    BY <1>2, <2>4, <2>5, <2>6 DEF IInv
<1>5. ASSUME NEW s \in Users, NEW u \in Users, NEW p \in Perms, Deny(s, p, u)
      PROVE  IInv'
  <2> DEFINE k == [id |-> NextId, subject |-> s, perm |-> p, effect |-> "DENY",
                   by |-> u, life |-> "ever"]
  <2>1. created \in [share : Nat, deny : Nat] /\ NextId \in Nat
    BY DEF IInv, TypeOK, NextId
  <2>2. k \in Grant /\ k.effect = "DENY"
    BY <2>1 DEF Grant, Lives
  <2>3. created' \in [share : Nat, deny : Nat]
    BY <1>5, <2>1 DEF Deny
  <2>4. grants' = grants \union {k}
    BY <1>5 DEF Deny
  <2> HIDE DEF k
  <2>5. TypeOK'
    BY <1>1, <1>2, <2>2, <2>3, <2>4 DEF IInv, TypeOK
  <2>6. NothingOnDeleted'
    BY <1>1, <1>5 DEF Deny, NothingOnDeleted
  <2>7. GrantsAreTheOwners'
    BY <1>1, <2>2, <2>4 DEF IInv, GrantsAreTheOwners, OwnersGrant
  <2> QED
    BY <1>2, <2>5, <2>6, <2>7 DEF IInv
<1> QED
  BY <1>4, <1>5

-----------------------------------------------------------------------------
LEMMA InitIInv == Init => IInv
<1> SUFFICES ASSUME Init
             PROVE  IInv
  OBVIOUS
<1>1. HandlersTyped /\ OneAtATime /\ OnlyDomainsMove /\ SharesAreEntitled
  BY DEF Init, HandlersTyped, Request, OneAtATime, OnlyDomainsMove, SharesAreEntitled
<1>2. TypeOK
  BY <1>1 DEF Init, TypeOK
<1> QED
  BY <1>1, <1>2 DEF Init, IInv, NothingOnDeleted, GrantsAreTheOwners

LEMMA NextIInv == IInv /\ [Next]_vars => IInv'
<1> SUFFICES ASSUME IInv, [Next]_vars
             PROVE  IInv'
  OBVIOUS
<1>1. CASE Next
  <2> UNCHANGED alone /\ Step
    BY <1>1 DEF Next
  <2>1. CASE \E h \in Handlers : HandlerStep(h)
    BY <2>1, HandlerStepKeeps
  <2>2. CASE \E h \in Handlers, u \in Users : Asked(h, u)
    BY <2>2, AskedKeeps
  <2>3. CASE \/ \E u \in Users : DeleteUser(u)
             \/ Purge
             \/ RevokeOrphans
             \/ \E g \in grants : PurgeExpired(g)
    BY <2>3, WorkerStepKeeps
  <2>4. CASE \/ \E g \in grants : Expire(g)
             \/ \E s, u \in Users, p \in Perms : Deny(s, p, u)
    BY <2>4, RowStepKeeps
  <2> QED
    BY <2>1, <2>2, <2>3, <2>4 DEF Step
<1>2. CASE UNCHANGED vars
  <2> UNCHANGED <<alone, kind, suspended, owner, deleted, alive, grants, created, handlerVars>>
    BY <1>2 DEF vars, rowVars
  <2>1. HandlersTyped' /\ OneAtATime' /\ OnlyDomainsMove' /\ SharesAreEntitled'
    BY RestKeeps
  <2> QED
    BY <2>1, FewerGrants DEF IInv
<1> QED
  BY <1>1, <1>2

(* The inductive invariant of ResourceGrants: the rows, and what the       *)
(* requests in progress carry into their transactions.                     *)
THEOREM Invariance == Spec => []IInv
<1>1. Init => IInv
  BY InitIInv
<1>2. IInv /\ [Next]_vars => IInv'
  BY NextIInv
<1> QED
  BY <1>1, <1>2, PTL DEF Spec

(* A deleted resource has no grants: sharing and deleting meet on the row  *)
(* (ResourceGrantService.create, cleanupForResource).                      *)
THEOREM DeletedHasNoGrants == Spec => []NothingOnDeleted
<1>1. IInv => NothingOnDeleted
  BY DEF IInv
<1> QED
  BY <1>1, Invariance, PTL

(* No grant outlives a change of hands and none is passed on by a grantee  *)
(* (DomainTransfersService.accept, PolicyService), when requests come one  *)
(* at a time, and for a file always.                                       *)
THEOREM OwnersGrantThem == Spec => []GrantsAreTheOwners
<1>1. IInv => GrantsAreTheOwners
  BY DEF IInv
<1> QED
  BY <1>1, Invariance, PTL

-----------------------------------------------------------------------------
(* What an operator denies                                                 *)

\* A DENY has no end, and an id is given once, however rows come and go.
DenyIsForEver == \A g \in grants : g.effect = "DENY" => g.life = "ever"
IdsAreGiven   == \A g \in grants : g.id < NextId
OneRowPerId   == \A g, k \in grants : SameRow(g, k) => g.by = k.by

\* The row that a revocation has read may be gone, but is no other one by now; and one
\* that came alone is still entitled to it.
RevokesWhatItRead(h) ==
  /\ req[h].grant.id < NextId
  /\ \A g \in grants : SameRow(g, req[h].grant) => g.by = req[h].grant.by
  /\ alone => CanRevokeShare(req[h].by, req[h].grant)

DInv ==
  /\ DenyIsForEver /\ IdsAreGiven /\ OneRowPerId
  /\ \A h \in Handlers : pc[h] = "revoke" => RevokesWhatItRead(h)

\* A row of before, at most expired since, or one of those this step inserts.
Old(g)    == \E k \in grants : k.id = g.id /\ k.perm = g.perm /\ k.by = g.by
New(g, u) == g.id = NextId /\ NextId < NextId' /\ g.by = u

LEMMA NextIdType ==
  ASSUME TypeOK
  PROVE  NextId \in Nat
  BY DEF TypeOK, NextId

LEMMA RowsGoOn ==
  ASSUME TypeOK, TypeOK', DInv, NextId <= NextId', NEW u,
         \A g \in grants' : (Old(g) \/ New(g, u)) /\ (g.effect = "DENY" => g.life = "ever"),
         UNCHANGED alone,
         \A h \in Handlers : pc'[h] = "revoke" => pc[h] = "revoke" /\ req'[h] = req[h],
         UNCHANGED owner \/ ~alone \/ \A h \in Handlers : pc'[h] # "revoke"
  PROVE  DInv'
<1>0. NextId \in Nat /\ NextId' \in Nat
  <2>1. NextId' \in Nat
    BY DEF TypeOK, NextId
  <2> QED
    BY <2>1, NextIdType
<1>1. \A g \in grants : g.id \in Nat
  BY DEF TypeOK, Grant
<1>2. DenyIsForEver'
  BY DEF DenyIsForEver
<1>3. IdsAreGiven'
  BY <1>0, <1>1 DEF DInv, IdsAreGiven, Old, New
<1>4. \A g \in grants' : Old(g) => g.id < NextId
  BY DEF DInv, IdsAreGiven, Old
<1>5. \A g \in grants' : New(g, u) => ~(g.id < NextId)
  BY <1>0 DEF New
<1>6. OneRowPerId'
  <2> SUFFICES ASSUME NEW g \in grants', NEW k \in grants', SameRow(g, k)
               PROVE  g.by = k.by
    BY DEF OneRowPerId, SameRow
  <2>1. CASE Old(g) /\ Old(k)
    BY <2>1 DEF DInv, OneRowPerId, SameRow, Old
  <2>2. CASE New(g, u) /\ New(k, u)
    BY <2>2 DEF New
  <2> QED
    BY <1>4, <1>5, <2>1, <2>2 DEF SameRow
<1>7. ASSUME NEW h \in Handlers, pc'[h] = "revoke"
      PROVE  RevokesWhatItRead(h)'
  <2>1. RevokesWhatItRead(h) /\ req'[h] = req[h] /\ req[h].grant.id \in Nat
    BY <1>7 DEF DInv, TypeOK, HandlersTyped, Revoke, Grant
  <2>2. req'[h].grant.id < NextId'
    BY <1>0, <2>1 DEF RevokesWhatItRead
  <2>3. ASSUME NEW g \in grants', SameRow(g, req[h].grant)
        PROVE  g.by = req[h].grant.by
    <3>1. Old(g)
      BY <1>5, <2>1, <2>3 DEF RevokesWhatItRead, SameRow
    <3> QED
      BY <2>1, <2>3, <3>1 DEF RevokesWhatItRead, SameRow, Old
  <2>4. ASSUME alone'
        PROVE  \/ req'[h].by = owner' \/ req'[h].by = req'[h].grant.by
               \/ req'[h].by \in Admins
    <3>1. alone /\ owner' = owner
      BY <1>7, <2>4
    <3> QED
      BY <2>1, <3>1 DEF RevokesWhatItRead, CanRevokeShare
  <2>5. \A g \in grants' : SameRow(g, req'[h].grant) => g.by = req'[h].grant.by
    BY <2>1, <2>3
  <2> QED
    BY <2>2, <2>4, <2>5 DEF RevokesWhatItRead, SameRow, CanRevokeShare
<1> QED
  BY <1>2, <1>3, <1>6, <1>7 DEF DInv

\* Rows only go, and expire.
LEMMA RowsGo ==
  ASSUME TypeOK, TypeOK', DInv, UNCHANGED created,
         \A g \in grants' : g \in grants,
         UNCHANGED alone,
         \A h \in Handlers : pc'[h] = "revoke" => pc[h] = "revoke" /\ req'[h] = req[h],
         UNCHANGED owner \/ ~alone \/ \A h \in Handlers : pc'[h] # "revoke"
  PROVE  DInv'
<1>1. NextId' = NextId /\ NextId \in Nat
  BY NextIdType DEF NextId
<1>2. \A g \in grants' : (Old(g) \/ New(g, 0)) /\ (g.effect = "DENY" => g.life = "ever")
  BY DEF Old, DInv, DenyIsForEver
<1> QED
  BY <1>1, <1>2, RowsGoOn

LEMMA EndedRevokes ==
  ASSUME TypeOK, NEW h \in Handlers, End(h)
  PROVE  \A g \in Handlers : pc'[g] = "revoke" => g # h /\ pc[g] = "revoke" /\ req'[g] = req[g]
  BY DEF End, TypeOK, HandlersTyped

LEMMA DenyHandlerStep ==
  ASSUME IInv, IInv', DInv, UNCHANGED alone, NEW h \in Handlers, HandlerStep(h)
  PROVE  DInv'
<1>0. TypeOK /\ TypeOK' /\ OneAtATime
  BY DEF IInv
<1>1. CASE CommitShare(h)
  <2>1. CASE UNCHANGED <<grants, created>>
    BY <1>0, <1>1, <2>1, EndedRevokes, RowsGo DEF CommitShare, rowVars
  <2>2. CASE Insert(NewRows(h))
    <3>1. NewRows(h) = {} => grants' = grants /\ created' = created
      BY <2>2 DEF Insert
    <3>2. CASE NewRows(h) # {}
      <4>1. created' = [created EXCEPT !.share = @ + 1] /\ grants' = grants \union NewRows(h)
        BY <2>2, <3>2 DEF Insert
      <4>2. NextId \in Nat /\ NextId' = NextId + 1
        BY <1>0, <4>1 DEF TypeOK, NextId
      <4>3. \A g \in NewRows(h) : New(g, req[h].by) /\ g.effect # "DENY"
        BY <4>2 DEF NewRows, New
      <4>4. \A g \in grants' : /\ Old(g) \/ New(g, req[h].by)
                               /\ g.effect = "DENY" => g.life = "ever"
        BY <4>1, <4>3 DEF Old, DInv, DenyIsForEver
      <4> QED
        BY <1>0, <1>1, <4>2, <4>4, EndedRevokes, RowsGoOn DEF CommitShare, rowVars
    <3> QED
      BY <2>1, <3>1, <3>2
  <2> QED
    BY <1>1, <2>1, <2>2 DEF CommitShare
<1>2. CASE CommitRevoke(h)
  BY <1>0, <1>2, EndedRevokes, RowsGo DEF CommitRevoke, rowVars
<1>3. CASE CommitDelete(h)
  BY <1>0, <1>3, EndedRevokes, RowsGo DEF CommitDelete
<1>4. CASE CommitAccept(h)
  <2>1. \A g \in grants' : g \in grants
    BY <1>4 DEF CommitAccept
  <2>2. alone => \A g \in Handlers : pc'[g] # "revoke"
    BY <1>0, <1>4, EndedRevokes DEF CommitAccept, OneAtATime
  <2> QED
    BY <1>0, <1>4, <2>1, <2>2, EndedRevokes, RowsGo DEF CommitAccept
<1> QED
  BY <1>1, <1>2, <1>3, <1>4 DEF HandlerStep

LEMMA DenyAsk ==
  ASSUME IInv, IInv', DInv, UNCHANGED alone, NEW h \in Handlers, NEW u \in Users, Asked(h, u)
  PROVE  DInv'
<1>0. TypeOK /\ TypeOK'
  BY DEF IInv
<1>1. UNCHANGED <<grants, created, owner>>
  BY DEF Asked, AskShare, AskRevoke, AskDelete, AskAccept, Ask, rowVars
<1>2. CASE AskShare(h, u, req'[h].subject, req'[h].perms, req'[h].life) \/ pc'[h] # "revoke"
  <2>1. \A g \in Handlers : pc'[g] = "revoke" => pc[g] = "revoke" /\ req'[g] = req[g]
    BY <1>0, <1>2 DEF Asked, AskShare, AskRevoke, AskDelete, AskAccept, Ask, TypeOK, HandlersTyped
  <2> QED
    BY <1>0, <1>1, <2>1, RowsGo
<1>3. ASSUME NEW k \in grants, AskRevoke(h, u, k)
      PROVE  DInv'
  <2>1. /\ pc'[h] = "revoke" /\ req'[h] = [by |-> u, grant |-> k]
        /\ \A g \in Handlers : g # h => pc'[g] = pc[g] /\ req'[g] = req[g]
    BY <1>0, <1>3 DEF AskRevoke, Ask, TypeOK, HandlersTyped
  <2>2. req'[h].grant = k /\ req'[h].by = u
    BY <2>1
  <2>3. NextId' = NextId
    BY <1>1 DEF NextId
  <2>4. DenyIsForEver' /\ IdsAreGiven' /\ OneRowPerId'
    BY <1>1, <2>3 DEF DInv, DenyIsForEver, IdsAreGiven, OneRowPerId, SameRow
  <2>5. RevokesWhatItRead(h)'
    BY <1>1, <1>3, <2>2, <2>3 DEF AskRevoke, DInv, IdsAreGiven, OneRowPerId, RevokesWhatItRead, SameRow, CanRevokeShare
  <2>6. ASSUME NEW g \in Handlers, g # h, pc'[g] = "revoke"
        PROVE  RevokesWhatItRead(g)'
    BY <1>1, <2>1, <2>3, <2>6 DEF DInv, RevokesWhatItRead, SameRow, CanRevokeShare
  <2> QED
    BY <2>4, <2>5, <2>6 DEF DInv
<1>4. (\E k \in grants : AskRevoke(h, u, k)) \/ pc'[h] # "revoke"
  BY <1>0 DEF Asked, AskShare, AskDelete, AskAccept, Ask, TypeOK, HandlersTyped
<1> QED
  BY <1>2, <1>3, <1>4

LEMMA DenyOther ==
  ASSUME IInv, IInv', DInv, UNCHANGED <<alone, owner, handlerVars>>,
         \/ grants' \subseteq grants /\ UNCHANGED created
         \/ \E g \in grants : Expire(g)
         \/ \E s, u \in Users, p \in Perms : Deny(s, p, u)
  PROVE  DInv'
<1>0. TypeOK /\ TypeOK' /\ UNCHANGED <<pc, req>>
  BY DEF IInv, handlerVars
<1>1. CASE grants' \subseteq grants /\ UNCHANGED created
  BY <1>0, <1>1, RowsGo
<1>2. ASSUME NEW g \in grants, Expire(g)
      PROVE  DInv'
  <2> DEFINE k == [g EXCEPT !.life = "expired"]
  <2>1. g \in Grant /\ g.life = "term"
    BY <1>0, <1>2 DEF TypeOK, Expire
  <2>2. k.id = g.id /\ k.perm = g.perm /\ k.by = g.by /\ k.effect = g.effect
    BY <2>1 DEF Grant
  <2>3. g.effect # "DENY"
    BY <2>1 DEF DInv, DenyIsForEver
  <2>4. grants' = (grants \ {g}) \union {k} /\ NextId' = NextId /\ NextId \in Nat
    BY <1>0, <1>2, NextIdType DEF Expire, NextId
  <2> HIDE DEF k
  <2>5. \A r \in grants' : (Old(r) \/ New(r, 0)) /\ (r.effect = "DENY" => r.life = "ever")
    BY <2>2, <2>3, <2>4 DEF Old, DInv, DenyIsForEver
  <2> QED
    BY <1>0, <2>4, <2>5, RowsGoOn
<1>3. ASSUME NEW s \in Users, NEW u \in Users, NEW p \in Perms, Deny(s, p, u)
      PROVE  DInv'
  <2> DEFINE k == [id |-> NextId, subject |-> s, perm |-> p, effect |-> "DENY",
                   by |-> u, life |-> "ever"]
  <2>1. k.id = NextId /\ k.by = u /\ k.life = "ever"
    OBVIOUS
  <2>2. grants' = grants \union {k}
    BY <1>3 DEF Deny
  <2>3. NextId \in Nat /\ NextId' = NextId + 1
    BY <1>0, <1>3 DEF Deny, TypeOK, NextId
  <2> HIDE DEF k
  <2>4. \A r \in grants' : (Old(r) \/ New(r, u)) /\ (r.effect = "DENY" => r.life = "ever")
    BY <2>1, <2>2, <2>3 DEF Old, New, DInv, DenyIsForEver
  <2> QED
    BY <1>0, <2>3, <2>4, RowsGoOn
<1> QED
  BY <1>1, <1>2, <1>3

LEMMA DenyNext == IInv /\ IInv' /\ DInv /\ [Next]_vars => DInv'
<1> SUFFICES ASSUME IInv, IInv', DInv, [Next]_vars
             PROVE  DInv'
  OBVIOUS
<1>0. UNCHANGED alone
  BY DEF Next, vars
<1>1. ASSUME NEW h \in Handlers, HandlerStep(h)
      PROVE  DInv'
  BY <1>0, <1>1, DenyHandlerStep
<1>2. ASSUME NEW h \in Handlers, NEW u \in Users, Asked(h, u)
      PROVE  DInv'
  BY <1>0, <1>2, DenyAsk
<1>3. ASSUME UNCHANGED <<owner, handlerVars>>, grants' \subseteq grants /\ UNCHANGED created
      PROVE  DInv'
  BY <1>0, <1>3, DenyOther
<1>4. ASSUME (\E g \in grants : Expire(g)) \/ \E s, u \in Users, p \in Perms : Deny(s, p, u)
      PROVE  DInv'
  <2>1. UNCHANGED <<owner, handlerVars>>
    BY <1>4 DEF Expire, Deny, rowVars
  <2> QED
    BY <1>0, <1>4, <2>1, DenyOther
<1>5. ASSUME NEW u \in Users, DeleteUser(u)
      PROVE  DInv'
  BY <1>3, <1>5 DEF DeleteUser, rowVars
<1>6. ASSUME NEW g \in grants, PurgeExpired(g)
      PROVE  DInv'
  BY <1>3, <1>6 DEF PurgeExpired, rowVars
<1>7. CASE Purge \/ RevokeOrphans \/ UNCHANGED vars
  BY <1>3, <1>7 DEF Purge, RevokeOrphans, vars, rowVars
<1> QED
  BY <1>1, <1>2, <1>4, <1>5, <1>6, <1>7 DEF Next, Step

\* What may take a DENY away.
MayGo(g) ==
  \/ deleted'
  \/ owner \notin alive
  \/ g.subject \notin alive'
  \/ \E h \in Handlers :
       /\ pc[h] = "revoke"
       /\ pc'[h] = "idle"
       /\ alone => CanRevokeShare(req[h].by, g)

LEMMA RevokedByWhoMay ==
  ASSUME IInv, DInv, NEW h \in Handlers, CommitRevoke(h), NEW g \in grants, g \notin grants'
  PROVE  MayGo(g)
<1>1. pc[h] = "revoke" /\ pc'[h] = "idle" /\ SameRow(g, req[h].grant)
  BY DEF CommitRevoke, End, IInv, TypeOK, HandlersTyped
<1>2. alone => CanRevokeShare(req[h].by, g)
  BY <1>1 DEF DInv, RevokesWhatItRead, CanRevokeShare
<1> QED
  BY <1>1, <1>2 DEF MayGo

LEMMA DenyStep ==
  ASSUME IInv, DInv, [Next]_vars, NEW g \in grants, g \notin grants', g.effect = "DENY"
  PROVE  MayGo(g)
<1>0. g.life = "ever"
  BY DEF DInv, DenyIsForEver
<1>1. ASSUME NEW h \in Handlers, HandlerStep(h)
      PROVE  MayGo(g)
  <2>1. CASE CommitRevoke(h)
    BY <2>1, RevokedByWhoMay
  <2>2. CASE CommitShare(h) \/ CommitAccept(h)
    BY <2>2 DEF CommitShare, CommitAccept, Insert
  <2>3. CASE CommitDelete(h)
    BY <2>3 DEF CommitDelete, MayGo
  <2> QED
    BY <1>1, <2>1, <2>2, <2>3 DEF HandlerStep
<1>2. ASSUME NEW h \in Handlers, NEW u \in Users, Asked(h, u)
      PROVE  MayGo(g)
  BY <1>2 DEF Asked, AskShare, AskRevoke, AskDelete, AskAccept, Ask
<1>3. ASSUME NEW u \in Users, DeleteUser(u)
      PROVE  MayGo(g)
  BY <1>3 DEF DeleteUser, MayGo
<1>4. CASE Purge
  BY <1>4 DEF Purge, MayGo
<1>5. CASE RevokeOrphans
  <2>1. deleted' = deleted /\ alive' = alive
    BY <1>5 DEF RevokeOrphans, rowVars
  <2>2. g \in Orphans
    BY <1>5 DEF RevokeOrphans
  <2> QED
    BY <2>1, <2>2 DEF Orphans, MayGo
<1>6. ASSUME NEW k \in grants, Expire(k) \/ PurgeExpired(k)
      PROVE  FALSE
  BY <1>0, <1>6 DEF Expire, PurgeExpired
<1>7. ASSUME NEW s \in Users, NEW u \in Users, NEW p \in Perms, Deny(s, p, u)
      PROVE  FALSE
  BY <1>7 DEF Deny
<1>8. CASE UNCHANGED vars
  BY <1>8 DEF vars
<1> QED
  BY <1>1, <1>2, <1>3, <1>4, <1>5, <1>6, <1>7, <1>8 DEF Next, Step

(* What an operator has denied goes only with the resource, its owner or   *)
(* the user, or by a revocation of somebody entitled to it, whatever       *)
(* shares, transfers and expiries do meanwhile.                            *)
THEOREM DenialsStand == Spec => DenyStands
<1>1. Init => DInv
  BY DEF Init, DInv, DenyIsForEver, IdsAreGiven, OneRowPerId
<1>2. IInv /\ IInv' /\ DInv /\ [Next]_vars => DInv'
  BY DenyNext
<1>3. IInv /\ DInv /\ [Next]_vars =>
        [\A g \in grants \ grants' : g.effect = "DENY" =>
           \/ deleted'
           \/ owner \notin alive
           \/ g.subject \notin alive'
           \/ \E h \in Handlers :
                /\ pc[h] = "revoke"
                /\ pc'[h] = "idle"
                /\ alone => CanRevokeShare(req[h].by, g)]_vars
  BY DenyStep DEF MayGo
<1> QED
  BY <1>1, <1>2, <1>3, Invariance, PTL DEF Spec, DenyStands

-----------------------------------------------------------------------------
(* The list of files and of domains.                                       *)

\* The list asks about grants of any permission, the evaluator about those to read: where
\* all of them are to read it comes to the same.
LEMMA ListIsExact == TypeOK => ListAgrees
<1> SUFFICES ASSUME TypeOK, NEW u \in Users, \A g \in grants : g.subject = u => g.perm = "read"
             PROVE  Listed(Subject(u), Resource, grants) <=> May(u, "read")
  BY DEF ListAgrees
<1>1. /\ Subject(u).id = u /\ Subject(u).active = (u \in alive)
      /\ Subject(u).scope["read"] = "owned"
  BY PermsAssumption DEF Subject, OwnPerms
<1>2. \A e : Holds(Subject(u), e, grants) <=> Granted(Subject(u), "read", e, grants)
  BY <1>1 DEF Holds, Granted
<1>3. ByRole(Subject(u), "read", Resource) <=> Resource.owner = u
  BY <1>1 DEF ByRole
<1> QED
  BY <1>1, <1>2, <1>3 DEF Listed, May, Can

\* The list shows a user just what the evaluator lets him read, however shares, transfers
\* and deletions overlap (files.service, domains.service: listVisible).
THEOREM ListsAreExact == Spec => []ListAgrees
<1>1. IInv => ListAgrees
  BY ListIsExact DEF IInv
<1> QED
  BY <1>1, Invariance, PTL

-----------------------------------------------------------------------------
(* The board.                                                              *)

BoardMove == B!Next \/ UNCHANGED boardOnly

\* No code and no operator denies the moderation of a board.
NoModerationDenied == \A g \in boardGrants : g.perm = "moderate" => g.effect = "ALLOW"

BoardIInv == B!TypeOK /\ NoModerationDenied

LEMMA BoardInitHolds == B!Init => BoardIInv
BY DEF B!Init, BoardIInv, B!TypeOK, NoModerationDenied, B!BoardRoles, B!PostStatuses

\* Steps that write neither the grants nor what they are about.
LEMMA GrantsRest ==
  ASSUME BoardIInv, B!TypeOK', boardGrants' = boardGrants PROVE BoardIInv'
BY DEF BoardIInv, NoModerationDenied

LEMMA BoardStep ==
  ASSUME BoardIInv, BoardMove PROVE BoardIInv'
<1> USE DEF B!settingVars, B!boardVars, B!postVars
<1>1. ASSUME NEW v, NEW s, B!UpdateBoard(v, s) PROVE BoardIInv'
  BY <1>1 DEF B!UpdateBoard, BoardIInv, B!TypeOK, NoModerationDenied
<1>2. ASSUME NEW key \in Capabilities, NEW enabled, B!SetCapability(key, enabled) PROVE BoardIInv'
  BY <1>2 DEF B!SetCapability, BoardIInv, B!TypeOK, NoModerationDenied
<1>3. ASSUME NEW u \in Readers, NEW r \in B!BoardRoles, B!AddMember(u, r) PROVE BoardIInv'
  <2>1. [subject |-> u, perm |-> "moderate", effect |-> "ALLOW", life |-> "ever"] \in B!BoardGrant
    BY DEF B!BoardGrant
  <2>2. boardGrants' \subseteq boardGrants \cup
          {[subject |-> u, perm |-> "moderate", effect |-> "ALLOW", life |-> "ever"]}
    BY <1>3 DEF B!AddMember
  <2>3. boardGrants' \subseteq B!BoardGrant /\ NoModerationDenied'
    BY <2>1, <2>2 DEF BoardIInv, B!TypeOK, NoModerationDenied
  <2> QED
    BY <1>3, <2>3 DEF B!AddMember, BoardIInv, B!TypeOK
<1>4. ASSUME NEW u \in Readers, B!RemoveMember(u) PROVE BoardIInv'
  BY <1>4 DEF B!RemoveMember, BoardIInv, B!TypeOK, NoModerationDenied
<1>5. ASSUME NEW u \in Readers, NEW effect \in {"ALLOW", "DENY"}, NEW life \in {"ever", "term"},
             B!OperatorGrants(u, effect, life)
      PROVE  BoardIInv'
  <2>1. [subject |-> u, perm |-> "read", effect |-> effect, life |-> life] \in B!BoardGrant
    BY DEF B!BoardGrant
  <2>2. boardGrants' = boardGrants \cup {[subject |-> u, perm |-> "read", effect |-> effect, life |-> life]}
    BY <1>5 DEF B!OperatorGrants
  <2>3. boardGrants' \subseteq B!BoardGrant /\ NoModerationDenied'
    BY <2>1, <2>2 DEF BoardIInv, B!TypeOK, NoModerationDenied
  <2> QED
    BY <1>5, <2>3 DEF B!OperatorGrants, BoardIInv, B!TypeOK
<1>6. ASSUME NEW u \in Readers, B!PublishPost(u) PROVE BoardIInv'
  BY <1>6 DEF B!PublishPost, BoardIInv, B!TypeOK, NoModerationDenied, B!PostStatuses
<1>7. ASSUME NEW u \in Readers, B!ToggleBlock(u) PROVE BoardIInv'
  BY <1>7 DEF B!ToggleBlock, BoardIInv, B!TypeOK, NoModerationDenied
<1>8. ASSUME NEW u \in Readers, B!DeleteUser(u) PROVE BoardIInv'
  BY <1>8 DEF B!DeleteUser, BoardIInv, B!TypeOK, NoModerationDenied
<1>9. ASSUME NEW g \in boardGrants, B!Expire(g) PROVE BoardIInv'
  <2>1. g \in B!BoardGrant
    BY DEF BoardIInv, B!TypeOK
  <2>2. /\ [g EXCEPT !.life = "expired"] \in B!BoardGrant
        /\ [g EXCEPT !.life = "expired"].perm = g.perm /\ [g EXCEPT !.life = "expired"].effect = g.effect
    BY <2>1 DEF B!BoardGrant
  <2>3. boardGrants' = (boardGrants \ {g}) \cup {[g EXCEPT !.life = "expired"]}
    BY <1>9 DEF B!Expire
  <2>4. boardGrants' \subseteq B!BoardGrant /\ NoModerationDenied'
    BY <2>2, <2>3 DEF BoardIInv, B!TypeOK, NoModerationDenied
  <2> QED
    BY <1>9, <2>4 DEF B!Expire, BoardIInv, B!TypeOK
<1>10. ASSUME NEW g \in boardGrants, B!PurgeExpired(g) PROVE BoardIInv'
  BY <1>10 DEF B!PurgeExpired, BoardIInv, B!TypeOK, NoModerationDenied
<1>11. ASSUME NEW s \in B!PostStatuses, NEW isSecret \in BOOLEAN, NEW readers \in SUBSET {focus},
              B!CreatePost(s, isSecret, readers)
       PROVE  BoardIInv'
  BY <1>11 DEF B!CreatePost, BoardIInv, B!TypeOK, NoModerationDenied
<1>12. ASSUME NEW us \in SUBSET Readers, B!SetCoAuthors(us) PROVE BoardIInv'
  BY <1>12 DEF B!SetCoAuthors, BoardIInv, B!TypeOK, NoModerationDenied
<1>13. ASSUME NEW s \in B!PostStatuses, B!Settle(s) PROVE BoardIInv'
  BY <1>13 DEF B!Settle, BoardIInv, B!TypeOK, NoModerationDenied
<1>14. CASE UNCHANGED boardOnly
  BY <1>14 DEF boardOnly, BoardIInv, B!TypeOK, NoModerationDenied
<1> HIDE DEF B!settingVars, B!boardVars, B!postVars
<1> QED
  BY <1>1, <1>2, <1>3, <1>4, <1>5, <1>6, <1>7, <1>8, <1>9, <1>10, <1>11, <1>12, <1>13, <1>14
     DEF BoardMove, B!Next

LEMMA MemberScope ==
  ASSUME NEW u
  PROVE  /\ B!Subject(u).id = u /\ B!Subject(u).active = (u \notin departed)
         /\ B!Subject(u).scope["read"] = "global"
BY DEF B!Subject

\* The guard of a board and of a post lets every member read what is there, unless he is denied.
LEMMA GuardsOfReading ==
  ASSUME NEW u
  PROVE  /\ B!GuardOfBoard(u, "read") <=>
              /\ u \notin departed /\ boardStatus \in {"ACTIVE", "ARCHIVED"}
              /\ ~B!Holding(u, "read", "DENY")
         /\ B!GuardOfPost(u, "read") <=>
              u \notin departed /\ postStatus \in {"DRAFT", "PUBLISHED"} /\ Author \notin departed
<1>1. B!ByRole(B!Subject(u), "read", B!Board) /\ B!ByRole(B!Subject(u), "read", B!Post)
  BY MemberScope DEF B!ByRole
<1>2. /\ B!StatusesAllowing("board", "read") = {"ACTIVE", "ARCHIVED"}
      /\ B!StatusesAllowing("post", "read") = {"DRAFT", "PUBLISHED"}
  BY DEF B!StatusesAllowing
<1>3. B!Granted(B!Subject(u), "read", "DENY", boardGrants) <=> B!Holding(u, "read", "DENY")
  BY MemberScope DEF B!Granted, B!Holding
<1>4. ~B!Granted(B!Subject(u), "read", "DENY", {})
  BY DEF B!Granted
<1>5. /\ B!Board.kind = "board" /\ B!Board.status = boardStatus
      /\ B!Found(B!Board)
      /\ B!Post.kind = "post" /\ B!Post.status = postStatus
      /\ B!Found(B!Post) <=> postStatus \notin {"none", "DELETED"} /\ Author \notin departed
  BY DEF B!Board, B!Post, B!Found
<1>6. B!GuardOfBoard(u, "read") <=>
        /\ u \notin departed /\ boardStatus \in {"ACTIVE", "ARCHIVED"}
        /\ ~B!Holding(u, "read", "DENY")
  BY <1>1, <1>2, <1>3, <1>5, MemberScope DEF B!GuardOfBoard, B!Can
<1>7. B!GuardOfPost(u, "read") <=>
        u \notin departed /\ postStatus \in {"DRAFT", "PUBLISHED"} /\ Author \notin departed
  BY <1>1, <1>2, <1>4, <1>5, MemberScope DEF B!GuardOfPost, B!Can
<1> QED
  BY <1>6, <1>7

LEMMA OneFilter == \A u : B!SecretFilter(u) <=> B!CanReadPost(u, TRUE)
BY DEF B!SecretFilter, B!CanReadPost

LEMMA PowersOpenMore ==
  \A u : /\ B!CanAccessBoard(u, FALSE, FALSE) => B!CanAccessBoard(u, TRUE, FALSE)
         /\ B!CanReadPost(u, FALSE) => B!CanReadPost(u, TRUE)
BY DEF B!CanAccessBoard, B!CanReadPost

LEMMA DeniedIsReading ==
  ASSUME NoModerationDenied, NEW u PROVE B!AnyGrant(u, "DENY") <=> B!Holding(u, "read", "DENY")
BY DEF NoModerationDenied, B!AnyGrant, B!Holding

LEMMA AgreeWhenStanding == BoardIInv => PathsAgree
<1> SUFFICES ASSUME BoardIInv PROVE B!PathsAgree
  BY DEF PathsAgree
<1>1. B!PostListIsExact
  BY GuardsOfReading, OneFilter DEF B!PostListIsExact, B!Present, B!PostListed, B!PostOpens, B!RowShown
<1>2. B!SearchWithinList
  BY DEF B!SearchWithinList, B!PostFound, B!PostListed
<1>3. B!NotifiedCanOpen
  BY GuardsOfReading, PowersOpenMore DEF B!NotifiedCanOpen, B!Present, B!Notified, B!PostOpens
<1>4. B!OpenBoardIsListed
  <2> SUFFICES ASSUME NEW u \in B!Present, B!BoardOpens(u) PROVE B!BoardListed(u)
    BY DEF B!OpenBoardIsListed
  <2>1. ~B!AnyGrant(u, "DENY")
    BY DeniedIsReading DEF BoardIInv, B!BoardOpens, B!CanAccessBoard
  <2>2. B!Holding(u, "read", "ALLOW") => B!AnyGrant(u, "ALLOW")
    BY DEF B!AnyGrant
  <2> QED
    BY <2>1, <2>2 DEF BoardIInv, B!TypeOK, B!BoardOpens, B!CanAccessBoard, B!BoardListed
<1> QED
  BY <1>1, <1>2, <1>3, <1>4 DEF B!PathsAgree

LEMMA DeniedEverywhere == DenyWins
<1> SUFFICES ASSUME NEW u \in B!Present, B!Holding(u, "read", "DENY")
             PROVE  ~(B!BoardListed(u) \/ B!BoardOpens(u) \/ B!PostListed(u) \/ B!PostFound(u)
                      \/ B!PostOpens(u) \/ B!Notified(u))
  BY DEF DenyWins, B!DenyWins
<1>1. B!AnyGrant(u, "DENY")
  BY DEF B!AnyGrant
<1>2. \A powers, write : ~B!CanAccessBoard(u, powers, write)
  BY DEF B!CanAccessBoard
<1> QED
  BY <1>1, <1>2 DEF B!BoardListed, B!BoardOpens, B!PostListed, B!PostFound, B!PostOpens, B!Notified

-----------------------------------------------------------------------------
(* Both parts, as they run side by side.                                   *)

LEMMA BothMove ==
  /\ AccessInit => Init /\ B!Init
  /\ [AccessNext]_accessVars => [Next]_vars /\ BoardMove
BY DEF AccessInit, AccessNext, accessVars, BoardMove

\* Every variable of the grants and of the board keeps its type.
THEOREM AccessHasTypes == AccessSpec => []AccessTypeOK
<1>1. AccessInit => IInv /\ BoardIInv
  BY BothMove, InitIInv, BoardInitHolds
<1>2. IInv /\ BoardIInv /\ [AccessNext]_accessVars => IInv' /\ BoardIInv'
  BY BothMove, NextIInv, BoardStep
<1>3. IInv /\ BoardIInv => AccessTypeOK
  BY DEF IInv, BoardIInv, AccessTypeOK
<1> QED
  BY <1>1, <1>2, <1>3, PTL DEF AccessSpec

\* All the ways to a board and its posts agree about who sees them: the list of posts with
\* the page of a post, the search with the list, notifications with the page, and the list
\* of boards with the board (BINV-3), whatever members, grants, capabilities and blocks there
\* are.  The lists ask about grants of any permission, the guard about the one to read: that
\* nobody is denied the moderation of a board is what they agree by.
THEOREM PathsDoAgree == AccessSpec => []PathsAgree
<1>1. AccessInit => BoardIInv
  BY BothMove, BoardInitHolds
<1>2. BoardIInv /\ [AccessNext]_accessVars => BoardIInv'
  BY BothMove, BoardStep
<1>3. BoardIInv => PathsAgree
  BY AgreeWhenStanding
<1> QED
  BY <1>1, <1>2, <1>3, PTL DEF AccessSpec

\* A user to whom the board is denied finds it and its posts on no path of reading, whatever
\* else he holds (INV-4).
THEOREM DenialsWin == AccessSpec => []DenyWins
BY DeniedEverywhere, PTL
=============================================================================
