---------------------------- MODULE MCGovernance ----------------------------
(***************************************************************************)
(* Governance: the patrol of the invariants, the checkpoints of the audit  *)
(* log, the freeze of an account, and the way of an administrator's edits  *)
(* to the members it concerns, side by side; "part" says which of them     *)
(* moves.  They share no variable.                                         *)
(***************************************************************************)
EXTENDS Patrol, Sequences

CONSTANTS
  LastDay, Instances, MaxRows, Retention,
  Accounts, FreezeIds, Workers,
  Users, Roles, Removable, Perms, Requests, Admins, Crashes, MaxChanges, NoSnapshot

ASSUME GovernanceAssumption ==
  /\ LastDay \in Nat \ {0} /\ MaxRows \in Nat /\ Retention \in Nat
  /\ "nobody" \notin Accounts
  /\ IsFiniteSet(FreezeIds) /\ FreezeIds \subseteq Nat \ {0}

VARIABLES
  part,
  today, rows, seals, job, done, tampered,
  serving, freezes, work,
  pv, status, assign, rolePerms, roles, cache, rpc, subject, claim, seen, snap, again,
  apc, arole, aids, changes, owed, dropped

A == INSTANCE AuditTrail
F == INSTANCE Freeze
P == INSTANCE PermCache

trailOnly  == <<today, rows, seals, job, done, tampered>>
freezeOnly == <<serving, freezes, work>>
editOnly   == <<pv, status, assign, rolePerms, roles, cache, rpc, subject, claim, seen, snap, again,
                apc, arole, aids, changes, owed, dropped>>
vars == <<part, patrolVars, trailOnly, freezeOnly, editOnly>>

\* A part that rests does so in one of its initial states.
GovernanceInit ==
  /\ part \in {"patrol", "trail", "freeze", "edits"}
  /\ Init /\ A!Init /\ F!Init /\ P!Init
  /\ part # "patrol" => \A g \in GrantIds : state[g] = "none"
  /\ part # "edits"  => /\ assign = [u \in Users |-> [r \in Roles |-> "none"]]
                        /\ rolePerms = [r \in Roles |-> {}]
                        /\ arole = [a \in Admins |-> CHOOSE r \in Roles : TRUE]

GovernanceNext ==
  \/ /\ part = "patrol"
     /\ Next
     /\ UNCHANGED <<part, trailOnly, freezeOnly, editOnly>>
  \/ /\ part = "trail"
     /\ A!Next
     /\ UNCHANGED <<part, patrolVars, freezeOnly, editOnly>>
  \/ /\ part = "freeze"
     /\ F!Next
     /\ UNCHANGED <<part, patrolVars, trailOnly, editOnly>>
  \/ /\ part = "edits"
     /\ P!Next
     /\ UNCHANGED <<part, patrolVars, trailOnly, freezeOnly>>

\* A patrol could always start: only where it may move does it have to.
PatrolFairness == WF_patrolVars(part = "patrol" /\ \E h \in Hosts : Run(h))

GovernanceSpec == GovernanceInit /\ [][GovernanceNext]_vars /\ PatrolFairness /\ P!Fairness

\* The properties of the parts, as they are stated there: PatrolHolds and PatrolClears
\* come as they are, and
AuditHolds == A!AuditHolds
FreezesHold == F!FreezesHold
OwedIsOnTheWay == P!OwedIsOnTheWay
EditReachesHolders == P!EditReachesHolders
=============================================================================
