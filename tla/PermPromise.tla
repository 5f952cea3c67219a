---------------------------- MODULE PermPromise ----------------------------
(***************************************************************************)
(* What AuthGuard promises its callers, apart from caches and queries.     *)
(* Each user's rights have versions (users.perm_version).  A request is    *)
(* either refused, or answered under one version of the rights of its      *)
(* subject that was in force at some moment between its start and its      *)
(* answer: a regular register, so a change committed before the request    *)
(* starts binds it.                                                        *)
(***************************************************************************)
EXTENDS Integers

CONSTANTS Users, Requests

VARIABLES version,  \* the version in force, per user
          stage,    \* idle | running | answered
          who,      \* the subject of a request
          floor,    \* the version in force when it started
          used      \* the version it was answered under, 0 before

vars == <<version, stage, who, floor, used>>

Init ==
  /\ version = [u \in Users |-> 1]
  /\ stage = [h \in Requests |-> "idle"]
  /\ who \in [Requests -> Users]
  /\ floor = [h \in Requests |-> 1]
  /\ used = [h \in Requests |-> 0]

\* A change of the rights of some users.
Advance(us) ==
  /\ version' = [u \in Users |-> IF u \in us THEN version[u] + 1 ELSE version[u]]
  /\ UNCHANGED <<stage, who, floor, used>>

Start(h, u) ==
  /\ stage[h] = "idle"
  /\ stage' = [stage EXCEPT ![h] = "running"]
  /\ who' = [who EXCEPT ![h] = u]
  /\ floor' = [floor EXCEPT ![h] = version[u]]
  /\ UNCHANGED <<version, used>>

Answer(h) ==
  /\ stage[h] = "running"
  /\ stage' = [stage EXCEPT ![h] = "answered"]
  /\ \E v \in floor[h]..version[who[h]] : used' = [used EXCEPT ![h] = v]
  /\ UNCHANGED <<version, who, floor>>

\* Refused (from running) or over (from answered).
Done(h) ==
  /\ stage[h] # "idle"
  /\ stage' = [stage EXCEPT ![h] = "idle"]
  /\ floor' = [floor EXCEPT ![h] = 1]
  /\ used' = [used EXCEPT ![h] = 0]
  /\ UNCHANGED <<version, who>>

Next ==
  \/ \E us \in SUBSET Users : Advance(us)
  \/ \E h \in Requests : \/ \E u \in Users : Start(h, u)
                         \/ Answer(h)
                         \/ Done(h)

Spec == Init /\ [][Next]_vars
=============================================================================
