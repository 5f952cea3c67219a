----------------------------- MODULE Evaluator -----------------------------
(***************************************************************************)
(* The decision that every permission check of the API goes through, and   *)
(* the collection query that has to agree with it.                         *)
(*                                                                         *)
(*   subject   [id, active, scope], scope a function from permissions to   *)
(*             "none", "owned" or "global"                                 *)
(*   resource  [kind, owner, status, deleted, ownerDeleted]                *)
(*   grants    a set of [subject, perm, effect, life], all of the resource *)
(*                                                                         *)
(* A permission is the last part of its code: "read" is file.read of a     *)
(* file, domain.read of a domain and board.read of a board or a post.      *)
(***************************************************************************)

\* The states in which a resource answers to a permission, as the descriptor of its
\* kind says: a suspended domain can still be looked at, an archived board still be
\* read and administered.
StatusesAllowing(kind, perm) ==
  CASE kind = "domain" /\ perm \in {"read", "read.all"} -> {"ACTIVE", "SUSPENDED"}
    [] kind = "board" /\ perm \in {"read", "moderate.all", "manage"} -> {"ACTIVE", "ARCHIVED"}
    [] kind = "post" -> {"DRAFT", "PUBLISHED"}
    [] kind = "comment" -> {"PUBLISHED"}
    [] OTHER -> {"ACTIVE"}

\* A deleted resource, and one of a deleted owner, is not found by anybody.
Found(resource) == ~resource.deleted /\ ~resource.ownerDeleted

Valid(grant) == grant.life # "expired"

Granted(subject, perm, effect, grants) ==
  \E g \in grants :
    g.subject = subject.id /\ g.perm = perm /\ g.effect = effect /\ Valid(g)

ByRole(subject, perm, resource) ==
  \/ subject.scope[perm] = "global"
  \/ subject.scope[perm] = "owned" /\ resource.owner = subject.id

\* AuthorizationService.can on a resource that was loaded: a DENY wins over every
\* role and grant, and what nothing allows is refused.
Can(subject, perm, resource, grants) ==
  /\ Found(resource)
  /\ subject.active
  /\ resource.status \in StatusesAllowing(resource.kind, perm)
  /\ ~Granted(subject, perm, "DENY", grants)
  /\ ByRole(subject, perm, resource) \/ Granted(subject, perm, "ALLOW", grants)

\* findSubjectGrants: the valid grants of the subject, whatever their permission.
Holds(subject, effect, grants) ==
  \E g \in grants : g.subject = subject.id /\ g.effect = effect /\ Valid(g)

\* Mutant of Listed: the mark of a deleted owner is forgotten.
ListedOfGone(subject, resource, grants) ==
  /\ subject.active
  /\ resource.status \in StatusesAllowing(resource.kind, "read")
  /\ ~resource.deleted
  /\ resource.owner = subject.id \/ Holds(subject, "ALLOW", grants)
  /\ ~Holds(subject, "DENY", grants)

\* listVisible of files and of domains.
Listed(subject, resource, grants) ==
  /\ subject.active
  /\ resource.status \in StatusesAllowing(resource.kind, "read")
  /\ Found(resource)
  /\ resource.owner = subject.id \/ Holds(subject, "ALLOW", grants)
  /\ ~Holds(subject, "DENY", grants)
=============================================================================
