------------------------------- MODULE Patrol -------------------------------
(***************************************************************************)
(* The patrol of the invariants: every ten minutes an instance that gets   *)
(* the advisory lock runs the checks, takes back the grants that RI-3 and  *)
(* RI-4 report, and records what it did, all in one transaction.  Requests *)
(* go on meanwhile.                                                        *)
(***************************************************************************)
EXTENDS Integers, FiniteSets

CONSTANTS
  GrantIds,       \* rows of resource_grants
  Hosts,          \* instances of the API
  BlastRadius,    \* BLAST_RADIUS_ROWS, the larger of the two limits for a small table
  MaxBreaks,      \* bound: failing checks, timeouts and crashes
  MaxRestores     \* bound: grants that an administrator brings back

ASSUME BoundsAssumption == MaxBreaks \in Nat /\ MaxRestores \in Nat

VARIABLES
  state,    \* of a grant: "none", "fine", "foreign": of a type nobody registered,
            \* "outside" of the whitelist, "orphan", "both", "gone"
  round,    \* the patrol of a host: where it is, what it has found and removed
  trail,    \* audit_logs: the grants that the system is recorded to have removed
  record,   \* the last governance.patrol record: the status of each check
  clean,    \* history: the checks that ran for that record and found nothing
  taken,    \* history: the grants that patrols removed, the state they were in, and
            \* whether they had been brought back under the patrol's hands
  back,     \* history: the grants brought back since the patrol began
  breaks,   \* how many failures so far
  restores  \* how many grants were brought back so far

patrolVars == <<state, round, trail, record, clean, taken, back, breaks, restores>>
results    == <<trail, record, clean, taken>>
bounds     == <<back, breaks, restores>>

Checks  == {"RI-3", "RI-4"}     \* the checks of severity L1, in this order
Off     == [at |-> "off", check |-> "RI-3", looked |-> {}, failed |-> {},
            found |-> [c \in Checks |-> {}], todo |-> {}, removed |-> {}]
There(g)   == state[g] \notin {"none", "gone"}
Busy(h)    == round[h].at # "off"
RemovedNow == UNION {round[h].removed : h \in Hosts}

\* Mutant of Reported: a type that the whitelist does not know may have no grants.
ReportedOfAll(c) ==
  {g \in GrantIds : state[g] \in {"both", "foreign", IF c = "RI-3" THEN "outside" ELSE "orphan"}}

\* The rows of the SQL of a check.  A grant of an unknown type is no violation.
Outside == {g \in GrantIds : state[g] \in {"both", "outside"}}
Orphans == {g \in GrantIds : state[g] \in {"both", "orphan"}}
Reported(c) == IF c = "RI-3" THEN Outside ELSE Orphans

Init ==
  /\ state \in [GrantIds -> {"none", "fine", "foreign"}]
  /\ round = [h \in Hosts |-> Off]
  /\ trail = {}
  /\ record = [c \in Checks |-> "unknown"]
  /\ clean = {}
  /\ taken = {}
  /\ back = {}
  /\ breaks = 0
  /\ restores = 0

\* The environment: a share, a release with a narrower whitelist, the deletion of the
\* resource's owner, a revocation.  A row that a patrol has deleted is locked.
Change(g) ==
  /\ \/ /\ state[g] = "none" /\ \A t \in taken : t.grant # g
        /\ state' = [state EXCEPT ![g] = "fine"]
     \/ /\ state[g] \in {"fine", "orphan"}
        /\ state' = [state EXCEPT ![g] = IF @ = "fine" THEN "outside" ELSE "both"]
     \/ /\ state[g] \in {"fine", "outside"}
        /\ state' = [state EXCEPT ![g] = IF @ = "fine" THEN "orphan" ELSE "both"]
     \/ /\ There(g) /\ g \notin RemovedNow
        /\ state' = [state EXCEPT ![g] = "gone"]
  /\ UNCHANGED <<round, results, bounds>>

\* runLocked: a host that does not get the lock leaves it to the next turn.
Start(h) ==
  /\ \A k \in Hosts : ~Busy(k)
  /\ round' = [round EXCEPT ![h] = [Off EXCEPT !.at = "look"]]
  /\ back' = {}
  /\ UNCHANGED <<state, results, breaks, restores>>

\* Too many violations are not taken for damage but for a wrong check: escalated.
Answer(r, c) ==
  [r EXCEPT !.at = "act", !.check = c,
            !.todo = IF Cardinality(r.found[c]) > BlastRadius THEN {} ELSE r.found[c]]

Onward(r) == IF r.check = "RI-3" THEN [r EXCEPT !.check = "RI-4"] ELSE Answer(r, "RI-3")

Look(h) ==
  LET r == round[h]
  IN /\ r.at = "look"
     /\ round' = [round EXCEPT ![h] =
          Onward([r EXCEPT !.found[r.check] = Reported(r.check), !.looked = @ \cup {r.check}])]
     /\ UNCHANGED <<state, results, bounds>>

\* Mutant of LookFails: a check that failed has found nothing.
LookFailsQuietly(h) ==
  LET r == round[h]
  IN /\ r.at = "look"
     /\ breaks < MaxBreaks
     /\ round' = [round EXCEPT ![h] = Onward(r)]
     /\ breaks' = breaks + 1
     /\ UNCHANGED <<state, results, back, restores>>

\* A failing check is rolled back to its savepoint, and the others go on.
LookFails(h) ==
  LET r == round[h]
  IN /\ r.at = "look"
     /\ breaks < MaxBreaks
     /\ round' = [round EXCEPT ![h] = Onward([r EXCEPT !.failed = @ \cup {r.check}])]
     /\ breaks' = breaks + 1
     /\ UNCHANGED <<state, results, back, restores>>

\* Mutant of Remove: the record is not part of the transaction.
RemoveRecorded(h, g) ==
  LET r == round[h]
  IN /\ r.at = "act"
     /\ g \in r.todo \ r.removed /\ There(g)
     /\ round' = [round EXCEPT ![h].todo = @ \ {g}, ![h].removed = @ \cup {g}]
     /\ trail' = trail \cup {g}
     /\ UNCHANGED <<state, record, clean, taken, bounds>>

\* remediate: one grant after the other, through ResourceGrantService.revoke.
Remove(h, g) ==
  LET r == round[h]
  IN /\ r.at = "act"
     /\ g \in r.todo \ r.removed /\ There(g)
     /\ round' = [round EXCEPT ![h].todo = @ \ {g}, ![h].removed = @ \cup {g}]
     /\ UNCHANGED <<state, results, bounds>>

\* Mutant of Missing: the patrol that fails is not over.
MissingHangs(h, g) == FALSE /\ UNCHANGED patrolVars

\* revoke does not find the grant, and its exception ends the transaction: somebody
\* else has removed it, or this patrol for the other check.
Missing(h, g) ==
  /\ round[h].at = "act"
  /\ g \in round[h].todo
  /\ ~There(g) \/ g \in round[h].removed
  /\ round' = [round EXCEPT ![h] = Off]
  /\ UNCHANGED <<state, results, bounds>>

NextAnswer(h) ==
  LET r == round[h]
  IN /\ r.at = "act" /\ r.check = "RI-3" /\ r.todo = {}
     /\ round' = [round EXCEPT ![h] = Answer(r, "RI-4")]
     /\ UNCHANGED <<state, results, bounds>>

Status(r, c) ==
  IF c \in r.failed THEN "failed" ELSE IF r.found[c] = {} THEN "ok" ELSE "violated"

Removal(g) == [grant |-> g, state |-> state[g], back |-> g \in back]

Commit(h) ==
  LET r == round[h]
  IN /\ r.at = "act" /\ r.check = "RI-4" /\ r.todo = {}
     /\ state' = [g \in GrantIds |-> IF g \in r.removed THEN "gone" ELSE state[g]]
     /\ taken' = taken \cup {Removal(g) : g \in r.removed}
     /\ trail' = trail \cup r.removed
     /\ record' = [c \in Checks |-> Status(r, c)]
     /\ clean' = {c \in r.looked : r.found[c] = {}}
     /\ round' = [round EXCEPT ![h] = Off]
     /\ UNCHANGED bounds

\* The transaction takes too long, or the process dies.
Break(h) ==
  /\ Busy(h)
  /\ breaks < MaxBreaks
  /\ breaks' = breaks + 1
  /\ round' = [round EXCEPT ![h] = Off]
  /\ UNCHANGED <<state, results, back, restores>>

\* restore-grants.ts --apply: what the trail says the system removed is put back with
\* its old id, if it is not there, and without a look at what is wrong with it: the
\* whitelist may have been corrected, a deleted owner stays so.
Restore(g) ==
  /\ g \in trail /\ state[g] = "gone"
  /\ restores < MaxRestores
  /\ \E t \in taken :
       /\ t.grant = g
       /\ state' \in {[state EXCEPT ![g] = s] : s \in
            IF t.state = "outside" THEN {"fine", "outside", "orphan", "both"} ELSE {"orphan", "both"}}
  /\ restores' = restores + 1
  /\ back' = back \cup {g}
  /\ UNCHANGED <<round, results, breaks>>

Run(h) ==
  \/ Start(h)
  \/ Look(h)
  \/ \E g \in GrantIds : Remove(h, g) \/ Missing(h, g)
  \/ NextAnswer(h)
  \/ Commit(h)

Next ==
  \/ \E g \in GrantIds : Change(g) \/ Restore(g)
  \/ \E h \in Hosts : Run(h) \/ LookFails(h) \/ Break(h)

\* @Cron(PATROL_CRON)
Fairness == WF_patrolVars(\E h \in Hosts : Run(h))

Spec == Init /\ [][Next]_patrolVars /\ Fairness

TypeOK ==
  /\ state \in [GrantIds -> {"none", "fine", "foreign", "outside", "orphan", "both", "gone"}]
  /\ round \in [Hosts ->
       [at : {"off", "look", "act"}, check : Checks, looked : SUBSET Checks, failed : SUBSET Checks,
        found : [Checks -> SUBSET GrantIds], todo : SUBSET GrantIds, removed : SUBSET GrantIds]]
  /\ trail \subseteq GrantIds
  /\ record \in [Checks -> {"unknown", "ok", "violated", "failed"}]
  /\ clean \subseteq Checks
  /\ \A t \in taken : t.grant \in GrantIds
  /\ back \subseteq GrantIds
  /\ breaks \in 0..MaxBreaks
  /\ restores \in 0..MaxRestores

\* Whatever changes while a patrol is on its way, it takes only grants that violate a
\* check, and none of a type it does not know (patrol.service 223-230), but for one that
\* went and was brought back, corrected, since the patrol looked.
OnlyViolatorsGo == \A t \in taken : t.state \in {"outside", "orphan", "both"} \/ t.back

\* However patrols end, the grants they are recorded to have removed are those they
\* removed: restore-grants.ts has nothing else to go by (resource-grant.service 188).
TrailIsExact == trail = {t.grant : t \in taken}

\* A check that could not run is never on record as passed (RT-20).
OkMeansLooked == \A c \in Checks : record[c] = "ok" => c \in clean

\* What patrols do and put on record is right.
PatrolHolds == TypeOK /\ OnlyViolatorsGo /\ TrailIsExact /\ OkMeansLooked

\* Where no grant violates both checks and neither limit is passed, in the end no
\* grant is left that violates one, whatever was revoked under the patrol's hands.
PatrolClears ==
  LET curable == /\ \A g \in GrantIds : state[g] # "both"
                 /\ \A c \in Checks : Cardinality(Reported(c)) <= BlastRadius
  IN <>[]curable => <>[](\A c \in Checks : Reported(c) = {})

\* What the comment on the purge of expired grants says: the patrol removes orphans.
OrphansGo == \A g \in GrantIds : state[g] \in {"orphan", "both"} ~> state[g] = "gone"
=============================================================================
