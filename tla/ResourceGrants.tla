-------------------------- MODULE ResourceGrants ---------------------------
(***************************************************************************)
(* The grants on one resource, a file or a domain: shares and delegations, *)
(* their revocation, and what removes them: deletion of the resource, of   *)
(* its owner or of a subject, a transfer of the domain, expiry, the patrol.*)
(*                                                                         *)
(* A request decides in its guard and its service on what it reads there;  *)
(* its transaction comes later.  Sharing and accepting a transfer lock the *)
(* row of the resource and look at it again; deleting does not.  DENY rows *)
(* and the suspension of a resource are an operator's work in the          *)
(* database: no code of the API writes them.                               *)
(***************************************************************************)
EXTENDS Integers, FiniteSets, Evaluator

CONSTANTS
  Users,
  Admins,       \* the users whose roles hold {type}.share.all, .read.all, .delete.all
  Handlers,
  Perms,        \* GRANT_WHITELIST of the resource's type
  MaxShares,    \* bound: shares that created rows or are about to
  MaxDenials    \* bound: DENY rows an operator adds

ASSUME AdminsAssumption == Admins \subseteq Users

AdminPerms == {"read.all", "share.all", "delete.all"}
OwnPerms   == Perms \union {"share", "delete"}

\* The whitelist holds no permission to share or to delete.
ASSUME PermsAssumption ==
  "read" \in Perms /\ Perms \intersect (AdminPerms \union {"share", "delete"}) = {}

VARIABLES
  alone,        \* environment: requests come one at a time
  kind,         \* the resource's type
  suspended,    \* its status is SUSPENDED
  owner, deleted,
  alive,        \* users that are not deleted
  grants,       \* the rows of resource_grants
  created,      \* how many shares and denials have created rows: part of a row's id
  pc, req       \* the handlers: step, and what the request carries into its transaction

rowVars     == <<kind, suspended, owner, deleted>>
handlerVars == <<pc, req>>
vars == <<alone, rowVars, alive, grants, created, handlerVars>>

Lives  == {"ever", "term", "expired"}
Grant  == [id : Nat, subject : Users, perm : Perms, effect : {"ALLOW", "DENY"}, by : Users,
           life : Lives]

Share  == [by : Users, subject : Users, perms : SUBSET Perms, life : Lives \ {"expired"}]
Revoke == [by : Users, grant : Grant]
Accept == [by : Users, from : Users]
NoRequest == << >>
Request == {NoRequest} \union Share \union Revoke \union Accept

Init ==
  /\ alone \in BOOLEAN
  /\ kind \in {"file", "domain"}
  /\ suspended \in BOOLEAN
  /\ suspended => kind = "domain"
  /\ owner \in Users
  /\ deleted = FALSE
  /\ alive = Users
  /\ grants = {}
  /\ created = [share |-> 0, deny |-> 0]
  /\ pc = [h \in Handlers |-> "idle"]
  /\ req = [h \in Handlers |-> NoRequest]

-----------------------------------------------------------------------------
(* What the guard and the policies see                                     *)

\* Everybody has the rights of a member over what he owns.
Subject(u) ==
  [id |-> u, active |-> u \in alive,
   scope |-> [p \in OwnPerms \union AdminPerms |->
                IF p \in OwnPerms THEN "owned" ELSE IF u \in Admins THEN "global" ELSE "none"]]

Resource ==
  [kind |-> kind, owner |-> owner, deleted |-> deleted, ownerDeleted |-> owner \notin alive,
   status |-> IF deleted THEN "DELETED" ELSE IF suspended THEN "SUSPENDED" ELSE "ACTIVE"]

May(u, perm) == Can(Subject(u), perm, Resource, grants)

\* PolicyService.canRevokeShare.
CanRevokeShare(u, g) == u = owner \/ u = g.by \/ u \in Admins

Row(s, p) == {g \in grants : g.subject = s /\ g.perm = p}

\* A row has an id of its own: the number of its share, with its permission.
SameRow(g, k) == g.id = k.id /\ g.perm = k.perm

-----------------------------------------------------------------------------
Ask(h, step, request) ==
  /\ pc[h] = "idle"
  /\ alone => \A g \in Handlers : pc[g] = "idle"
  /\ pc' = [pc EXCEPT ![h] = step]
  /\ req' = [req EXCEPT ![h] = request]
  /\ UNCHANGED <<rowVars, alive, grants, created>>

End(h) ==
  /\ pc' = [pc EXCEPT ![h] = "idle"]
  /\ req' = [req EXCEPT ![h] = NoRequest]

(* Sharing                                                                 *)

\* An owner shares what he likes and for as long as he likes; reading always goes
\* with the delegation of a domain.  An administrator lets somebody read a file
\* of another, for a limited time.
Shareable(u, ps, life) ==
  \/ /\ u = owner
     /\ kind = "domain" => "read" \in ps
  \/ /\ u # owner
     /\ kind = "file"
     /\ ps = {"read"}
     /\ life = "term"

Room == created.share + Cardinality({h \in Handlers : pc[h] = "share"}) < MaxShares

NextId == created.share + created.deny + 1

MayShare(u) == May(u, "share") \/ (kind = "file" /\ May(u, "share.all"))

AskShare(h, u, s, ps, life) ==
  /\ s # u
  /\ Room
  /\ MayShare(u)
  /\ Shareable(u, ps, life)
  /\ Ask(h, "share", [by |-> u, subject |-> s, perms |-> ps, life |-> life])

\* The transaction, under the lock: the resource is looked at again, but not who
\* owns it, and nobody looks at the subject.  A DENY refuses everything; a
\* permission that has a row, expired or not, keeps it.
Barred(h) ==
  \E p \in req[h].perms : \E g \in Row(req[h].subject, p) : g.effect = "DENY"

NewRows(h) ==
  {[id |-> NextId, subject |-> req[h].subject, perm |-> p, effect |-> "ALLOW",
    by |-> req[h].by, life |-> req[h].life] :
     p \in {p \in req[h].perms : Row(req[h].subject, p) = {}}}

Insert(rows) ==
  /\ grants' = grants \union rows
  /\ created' = IF rows = {} THEN created ELSE [created EXCEPT !.share = @ + 1]

\* Mutant of CommitShare: the lock is taken and nothing is looked at.
CommitShareUnchecked(h) ==
  /\ pc[h] = "share"
  /\ IF Barred(h) THEN UNCHANGED <<grants, created>> ELSE Insert(NewRows(h))
  /\ End(h)
  /\ UNCHANGED <<rowVars, alive>>

CommitShare(h) ==
  /\ pc[h] = "share"
  /\ IF deleted \/ Barred(h) THEN UNCHANGED <<grants, created>> ELSE Insert(NewRows(h))
  /\ End(h)
  /\ UNCHANGED <<rowVars, alive>>

(* Revocation                                                              *)

\* The member's route asks for read, the administrator's for share.all.
AskRevoke(h, u, g) ==
  /\ g \in grants
  /\ May(u, "read") \/ May(u, "share.all")
  /\ CanRevokeShare(u, g)
  /\ Ask(h, "revoke", [by |-> u, grant |-> g])

\* The row goes, if it is still there.
CommitRevoke(h) ==
  /\ pc[h] = "revoke"
  /\ grants' = {g \in grants : ~SameRow(g, req[h].grant)}
  /\ End(h)
  /\ UNCHANGED <<rowVars, alive, created>>

(* Deletion                                                                *)

AskDelete(h, u) ==
  /\ May(u, "delete") \/ May(u, "delete.all")
  /\ Ask(h, "delete", NoRequest)

\* softDelete and cleanupForResource in one transaction.
CommitDelete(h) ==
  /\ pc[h] = "delete"
  /\ deleted' = TRUE
  /\ grants' = {}
  /\ End(h)
  /\ UNCHANGED <<kind, suspended, owner, alive, created>>

(* Transfer of a domain                                                    *)

\* The recipient accepts what the owner of the moment has proposed to him.
AskAccept(h, u) ==
  /\ kind = "domain"
  /\ u \in alive
  /\ u # owner
  /\ Ask(h, "accept", [by |-> u, from |-> owner])

MayAccept(u, proposer) ==
  /\ ~deleted
  /\ ~suspended
  /\ owner = proposer
  /\ proposer \in alive
  /\ ~Holds(Subject(u), "DENY", grants)

\* Mutants of CommitAccept: grants go over with the domain; nothing does.
CommitAcceptKeepAll(h) ==
  /\ pc[h] = "accept"
  /\ owner' = IF MayAccept(req[h].by, req[h].from) THEN req[h].by ELSE owner
  /\ End(h)
  /\ UNCHANGED <<kind, suspended, deleted, alive, grants, created>>

CommitAcceptKeepNone(h) ==
  /\ pc[h] = "accept"
  /\ IF MayAccept(req[h].by, req[h].from)
       THEN owner' = req[h].by /\ grants' = {}
       ELSE UNCHANGED <<owner, grants>>
  /\ End(h)
  /\ UNCHANGED <<kind, suspended, deleted, alive, created>>

\* Under the lock: the row goes over with what an operator has denied on it, and
\* with no grant that allows anything.
CommitAccept(h) ==
  /\ pc[h] = "accept"
  /\ IF MayAccept(req[h].by, req[h].from)
       THEN /\ owner' = req[h].by
            /\ grants' = {g \in grants : g.effect = "DENY"}
       ELSE UNCHANGED <<owner, grants>>
  /\ End(h)
  /\ UNCHANGED <<kind, suspended, deleted, alive, created>>

-----------------------------------------------------------------------------
(* Users, workers, the operator and time                                   *)

\* MembersService.softDelete with cleanupForSubject.
DeleteUser(u) ==
  /\ u \in alive
  /\ alive' = alive \ {u}
  /\ grants' = {g \in grants : g.subject # u}
  /\ UNCHANGED <<rowVars, created, handlerVars>>

\* purgeOwnerDeleted: the resource of a deleted owner.  Domains has its two steps.
Purge ==
  /\ owner \notin alive
  /\ ~deleted
  /\ deleted' = TRUE
  /\ grants' = {}
  /\ UNCHANGED <<kind, suspended, owner, alive, created, handlerVars>>

\* RI-4 of the patrol: a grant whose resource, owner or subject is deleted.
Orphans == {g \in grants : deleted \/ owner \notin alive \/ g.subject \notin alive}

RevokeOrphans ==
  /\ Orphans # {}
  /\ grants' = grants \ Orphans
  /\ UNCHANGED <<rowVars, alive, created, handlerVars>>

Expire(g) ==
  /\ g \in grants
  /\ g.life = "term"
  /\ grants' = (grants \ {g}) \union {[g EXCEPT !.life = "expired"]}
  /\ UNCHANGED <<rowVars, alive, created, handlerVars>>

\* purgeExpiredGrants, one transaction for each.
PurgeExpired(g) ==
  /\ g \in grants
  /\ g.life = "expired"
  /\ grants' = grants \ {g}
  /\ UNCHANGED <<rowVars, alive, created, handlerVars>>

\* An operator bars a user from a resource that is there; (subject, permission) is
\* unique.
Deny(s, p, u) ==
  /\ ~deleted
  /\ created.deny < MaxDenials
  /\ s \in alive
  /\ u \in Admins
  /\ Row(s, p) = {}
  /\ grants' = grants \union {[id |-> NextId, subject |-> s, perm |-> p, effect |-> "DENY",
                               by |-> u, life |-> "ever"]}
  /\ created' = [created EXCEPT !.deny = @ + 1]
  /\ UNCHANGED <<rowVars, alive, handlerVars>>

-----------------------------------------------------------------------------
HandlerStep(h) ==
  \/ CommitShare(h)
  \/ CommitRevoke(h)
  \/ CommitDelete(h)
  \/ CommitAccept(h)

Asked(h, u) ==
  \/ \E s \in Users, ps \in SUBSET Perms \ {{}}, life \in Lives \ {"expired"} :
       AskShare(h, u, s, ps, life)
  \/ \E g \in grants : AskRevoke(h, u, g)
  \/ AskDelete(h, u)
  \/ AskAccept(h, u)

Step ==
  \/ \E h \in Handlers : HandlerStep(h)
  \/ \E h \in Handlers, u \in Users : Asked(h, u)
  \/ \E u \in Users : DeleteUser(u)
  \/ Purge
  \/ RevokeOrphans
  \/ \E g \in grants : Expire(g) \/ PurgeExpired(g)
  \/ \E s, u \in Users, p \in Perms : Deny(s, p, u)

Next == Step /\ UNCHANGED alone

Spec == Init /\ [][Next]_vars

-----------------------------------------------------------------------------
(* Properties                                                              *)

HandlersTyped ==
  /\ pc \in [Handlers -> {"idle", "share", "revoke", "delete", "accept"}]
  /\ req \in [Handlers -> Request]
  /\ \A h \in Handlers :
       /\ pc[h] = "share"  => req[h] \in Share
       /\ pc[h] = "revoke" => req[h] \in Revoke
       /\ pc[h] = "accept" => req[h] \in Accept

TypeOK ==
  /\ alone \in BOOLEAN
  /\ kind \in {"file", "domain"}
  /\ suspended \in BOOLEAN
  /\ owner \in Users
  /\ deleted \in BOOLEAN
  /\ alive \subseteq Users
  /\ \A g \in grants : g \in Grant
  /\ created \in [share : Nat, deny : Nat]
  /\ HandlersTyped

\* A deleted resource has no grants, however its deletion meets a share
\* (resource-grant.service 104-110; RI-4).
NothingOnDeleted == deleted => grants = {}

OwnersGrant(g) ==
  \/ g.by = owner
  \/ kind = "file" /\ g.by \in Admins /\ g.perm = "read" /\ g.life # "ever"

\* What is allowed on a resource was allowed by the one who owns it now, or by an
\* administrator for a limited time and for reading a file: no grant survives a
\* transfer, and none is passed on by a grantee (resource-grant.service 52, 104;
\* transfers 167).  A delegation that overlaps the transfer of its domain is the
\* exception: it commits after the change of hands.
GrantsAreTheOwners ==
  alone \/ kind = "file" => \A g \in grants : g.effect = "ALLOW" => OwnersGrant(g)

OwnersShare(r) ==
  \/ r.by = owner
  \/ kind = "file" /\ r.by \in Admins /\ r.perms = {"read"} /\ r.life = "term"

OneAtATime == alone => \A g, h \in Handlers : pc[g] # "idle" /\ pc[h] # "idle" => g = h

OnlyDomainsMove == \A h \in Handlers : pc[h] = "accept" => kind = "domain"

SharesAreEntitled ==
  alone \/ kind = "file" => \A h \in Handlers : pc[h] = "share" => OwnersShare(req[h])

\* The strengthening that makes these two inductive: what holds of a request in
\* progress (resource-grant.service 93-101; only a domain is transferred).
IInv ==
  /\ TypeOK
  /\ NothingOnDeleted
  /\ GrantsAreTheOwners
  /\ OneAtATime
  /\ OnlyDomainsMove
  /\ SharesAreEntitled

\* What was denied stays denied, across shares and transfers (resource-grant.service
\* 119, 236), until the resource, its owner or the user goes, or one of those who
\* may do so revokes it.
DenyStands ==
  [][\A g \in grants \ grants' : g.effect = "DENY" =>
       \/ deleted'
       \/ owner \notin alive
       \/ g.subject \notin alive'
       \/ \E h \in Handlers :
            /\ pc[h] = "revoke"
            /\ pc'[h] = "idle"
            /\ alone => CanRevokeShare(req[h].by, g)]_vars

\* The list shows a user just what the evaluator lets him read (files.service 75,
\* domains.service 69-70), as long as his grants are all about reading.
ListAgrees ==
  \A u \in Users :
    (\A g \in grants : g.subject = u => g.perm = "read") =>
      (Listed(Subject(u), Resource, grants) <=> May(u, "read"))
=============================================================================
