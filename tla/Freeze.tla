------------------------------- MODULE Freeze -------------------------------
(***************************************************************************)
(* The freeze of an account's permission changes (L-2): placed by whoever  *)
(* follows up an anomaly, released by another super administrator, looked  *)
(* up by the guard of a route and again by the services that change        *)
(* permissions.  The account can do everything else.  Every route of the   *)
(* API is asked for, as far as it differs in this.                         *)
(***************************************************************************)
EXTENDS Integers, FiniteSets, Routes

CONSTANTS
  Accounts,      \* super administrators
  FreezeIds,     \* numbers: rows of governance_freezes, in their order
  Workers        \* requests at the same time

VARIABLES
  serving,       \* accounts that are active super administrators
  freezes,       \* governance_freezes: user, status, released_by
  work           \* the requests; "held": the actor was frozen from the beginning on

freezeVars == <<serving, freezes, work>>

NoId    == 0
Nobody  == "nobody"
NoRow   == [user |-> Nobody, status |-> "none", by |-> Nobody]

\* Mutant of Checks: the service of grants trusts in the guard.
ChecksOfRoles(route) == route.moves = "role"

\* The services that call assertNotFrozen themselves.
Checks(route) == route.moves \in {"role", "grant", "mapping"}

\* What the freeze tells apart of a route.
Kind(route) ==
  [guarded  |-> route.needs \in FrozenPermissions,
   checked  |-> Checks(route),
   moves    |-> route.moves # "none",
   releases |-> route.moves = "release"]

Kinds == {Kind(r) : r \in {q \in Routes : q.on # "public"}}

\* Something that is no request: the follow-up of an anomaly.
FollowUp == [guarded |-> FALSE, checked |-> FALSE, moves |-> FALSE, releases |-> FALSE]
Waiting  == [at |-> "idle", kind |-> FollowUp, actor |-> Nobody, user |-> Nobody, id |-> NoId, held |-> FALSE]

Active(u)  == {i \in FreezeIds : freezes[i].user = u /\ freezes[i].status = "ACTIVE"}
Frozen(u)  == Active(u) # {}
Unused     == {i \in FreezeIds : freezes[i].status = "none"}
Next1(ids) == CHOOSE i \in ids : \A j \in ids : i <= j

Init ==
  /\ serving = Accounts
  /\ freezes = [i \in FreezeIds |-> NoRow]
  /\ work = [w \in Workers |-> Waiting]

Leave(w) == work' = [work EXCEPT ![w] = Waiting]

Retire(u) ==
  /\ u \in serving
  /\ serving' = serving \ {u}
  /\ UNCHANGED <<freezes, work>>

\* FreezeGuard, the last of the guards.
Ask(w, kind, u, id) ==
  /\ work[w].at = "idle"
  /\ u \in serving
  /\ kind.guarded => ~Frozen(u)
  /\ IF kind.releases THEN id # NoId /\ freezes[id].status # "none" ELSE id = NoId
  /\ work' = [work EXCEPT ![w] =
       [Waiting EXCEPT !.at = "asked", !.kind = kind, !.actor = u, !.id = id, !.held = Frozen(u)]]
  /\ UNCHANGED <<serving, freezes>>

\* assertNotFrozen at the entrance of the service, on a connection of its own.
Enter(w) ==
  LET q == work[w]
  IN /\ q.at = "asked" /\ ~q.kind.releases
     /\ q.kind.checked => ~Frozen(q.actor)
     /\ work' = [work EXCEPT ![w].at = "entered"]
     /\ UNCHANGED <<serving, freezes>>

\* release reads the row, refuses the frozen account itself, and counts who else
\* could approve.
ReadFreeze(w) ==
  LET q   == work[w]
      row == freezes[q.id]
  IN /\ q.at = "asked" /\ q.kind.releases
     /\ row.status = "ACTIVE"
     /\ row.user # q.actor
     /\ serving \ {row.user} # {}
     /\ work' = [work EXCEPT ![w].at = "entered"]
     /\ UNCHANGED <<serving, freezes>>

Refuse(w) ==
  LET q == work[w]
  IN /\ q.at = "asked"
     /\ \/ q.kind.checked /\ Frozen(q.actor)
        \/ /\ q.kind.releases
           /\ freezes[q.id].status # "ACTIVE" \/ freezes[q.id].user = q.actor \/ serving \subseteq {freezes[q.id].user}
     /\ Leave(w)
     /\ UNCHANGED <<serving, freezes>>

\* The transaction of the handler commits.
Commit(w) ==
  /\ work[w].at = "entered" /\ ~work[w].kind.releases /\ work[w].actor # Nobody
  /\ Leave(w)
  /\ UNCHANGED <<serving, freezes>>

\* Once the freeze of its actor is gone a request was not frozen all along.
Freed(row) == [v \in Workers |-> [work[v] EXCEPT !.held = @ /\ work[v].actor # row.user]]

\* Mutant of CommitRelease: it releases whatever freeze the account has by now.
CommitReleaseOfUser(w) ==
  LET q   == work[w]
      row == freezes[q.id]
  IN /\ q.at = "entered" /\ q.kind.releases
     /\ freezes' = [i \in FreezeIds |->
          IF i = q.id \/ i \in Active(row.user)
          THEN [freezes[i] EXCEPT !.status = "RELEASED", !.by = q.actor] ELSE freezes[i]]
     /\ work' = [Freed(row) EXCEPT ![w] = Waiting]
     /\ UNCHANGED serving

\* The row that was read is released, if need be once more.
CommitRelease(w) ==
  LET q   == work[w]
      row == freezes[q.id]
  IN /\ q.at = "entered" /\ q.kind.releases
     /\ freezes' = [freezes EXCEPT ![q.id].status = "RELEASED", ![q.id].by = q.actor]
     /\ work' = [IF Active(row.user) \subseteq {q.id} THEN Freed(row) ELSE work EXCEPT ![w] = Waiting]
     /\ UNCHANGED serving

\* freeze, which no route calls: an active freeze is handed back as it is.
FindFreeze(w, u) ==
  /\ work[w].at = "idle"
  /\ ~Frozen(u)
  /\ work' = [work EXCEPT ![w] = [Waiting EXCEPT !.at = "entered", !.user = u]]
  /\ UNCHANGED <<serving, freezes>>

\* Mutant of CreateFreeze: no unique index.
CreateFreezeAnyway(w) ==
  LET q == work[w]
  IN /\ q.user # Nobody /\ Unused # {}
     /\ freezes' = [freezes EXCEPT ![Next1(Unused)] = [user |-> q.user, status |-> "ACTIVE", by |-> Nobody]]
     /\ Leave(w)
     /\ UNCHANGED serving

\* The row is created, or meets uq_governance_freezes_active.
CreateFreeze(w) ==
  LET q == work[w]
  IN /\ q.user # Nobody /\ Unused # {}
     /\ freezes' = IF Frozen(q.user) THEN freezes
                   ELSE [freezes EXCEPT ![Next1(Unused)] = [user |-> q.user, status |-> "ACTIVE", by |-> Nobody]]
     /\ Leave(w)
     /\ UNCHANGED serving

Next ==
  \/ \E u \in Accounts : Retire(u)
  \/ \E w \in Workers :
       \/ \E kind \in Kinds, u \in Accounts, id \in FreezeIds \cup {NoId} : Ask(w, kind, u, id)
       \/ Enter(w)
       \/ ReadFreeze(w)
       \/ Refuse(w)
       \/ Commit(w)
       \/ CommitRelease(w)
       \/ \E u \in Accounts : FindFreeze(w, u)
       \/ CreateFreeze(w)

Spec == Init /\ [][Next]_freezeVars

Request == [at : {"idle", "asked", "entered"}, kind : Kinds \cup {FollowUp},
            actor : Accounts \cup {Nobody}, user : Accounts \cup {Nobody},
            id : FreezeIds \cup {NoId}, held : BOOLEAN]

TypeOK ==
  /\ serving \subseteq Accounts
  /\ freezes \in [FreezeIds -> [user : Accounts \cup {Nobody}, status : {"none", "ACTIVE", "RELEASED"},
                                by : Accounts \cup {Nobody}]]
  /\ work \in [Workers -> Request]

\* However calls overlap, an account has one active freeze (migration
\* governance_freezes 34-37).
OneActiveFreeze == \A u \in Accounts : Cardinality(Active(u)) <= 1

\* Whichever route it takes, no change of permissions is about to commit whose actor
\* was frozen from the request on; only one that a freeze overtakes (freeze.guard 14-16:
\* a list of routes would miss the next one, so codes are listed).
FrozenMovesNothing ==
  \A w \in Workers : work[w].at = "entered" /\ work[w].kind.moves => ~work[w].held

\* The declarations agree with the rest: a code that a route asks for, or that is
\* frozen by name, is in the seed, or it would never be held and freeze nothing
\* (freeze.service 8-14); and who changes the roles of a member must dominate it.
DeclarationsAgree ==
  /\ \A r \in Routes : r.on \notin {"public", "self"} => r.needs \in Permissions
  /\ ExplicitFrozen \subseteq Permissions
  /\ \A r \in MembersController : r.moves = "role" => r.dominates \/ r.handler = "create"

\* Freezes are one at a time, and hold, on every route.
FreezeHolds == TypeOK /\ OneActiveFreeze /\ FrozenMovesNothing /\ DeclarationsAgree

\* A release lifts the freeze its approver looked at, and none that came later.
ReleasesWhatWasRead ==
  [][\A i \in FreezeIds :
       freezes[i].status = "ACTIVE" /\ freezes'[i].status = "RELEASED" =>
         \E w \in Workers : work[w].kind.releases /\ work[w].id = i /\ work'[w] = Waiting]_freezeVars

\* What a freeze keeps, in every state and in every step.
FreezesHold == []FreezeHolds /\ ReleasesWhatWasRead
=============================================================================
