---------------------------- MODULE MCAccounts ----------------------------
(***************************************************************************)
(* A member's account: its sessions, the lock after wrong passwords, the   *)
(* second factor, and the change of the address, side by side.  "part"     *)
(* says which of them moves; they share no variable.                       *)
(***************************************************************************)
EXTENDS Sessions, TLC

CONSTANTS
  MaxMisses, MaxFailed,
  Roles, Invites, Edits, MaxSecrets, MaxEnrolmentChanges,
  Neighbours,     \* the members whose addresses change
  Addresses, MaxRequests

ASSUME AccountsAssumption ==
  /\ IsFiniteSet(Handlers)
  /\ Edits \subseteq BOOLEAN
  /\ Invites \subseteq SUBSET Roles
  /\ MaxRequests \in Nat

VARIABLES
  part,
  lockAlone, failed, locked, active, misses, lapsed, lockPc, lockUser, lockSeen,
  enrolAlone, exists, holds, requires, edited, unasked, secret, enrolment, pending, proven,
  generated, enrolPc, enrolUser, enrolRole, enrolSeen, enrolChanges,
  emailAlone, standing, email, requests, sessions, call, moved

L == INSTANCE Lockout WITH
       alone <- lockAlone, pc <- lockPc, user <- lockUser, seen <- lockSeen
F == INSTANCE TwoFactor WITH
       alone <- enrolAlone, pc <- enrolPc, user <- enrolUser, role <- enrolRole,
       seen <- enrolSeen, changes <- enrolChanges, MaxChanges <- MaxEnrolmentChanges
E == INSTANCE EmailChange WITH alone <- emailAlone, Users <- Neighbours

lockOnly  == <<lockAlone, failed, locked, active, misses, lapsed, lockPc, lockUser, lockSeen>>
enrolOnly == <<enrolAlone, exists, holds, requires, edited, unasked, secret, enrolment, pending,
               proven, generated, enrolPc, enrolUser, enrolRole, enrolSeen, enrolChanges>>
emailOnly == <<emailAlone, standing, email, requests, sessions, call, moved>>
accountVars == <<part, vars, lockOnly, enrolOnly, emailOnly>>

\* A part that rests does so in one of its initial states.
AccountsInit ==
  /\ part \in {"sessions", "lock", "enrolment", "email"}
  /\ Init /\ L!Init /\ F!Init /\ E!Init
  /\ part # "sessions"  => alone /\ \A u \in Users : status[u] = "ACTIVE"
  /\ part # "lock"      => lockAlone /\ \A u \in Users : active[u]
  /\ part # "enrolment" => /\ enrolAlone /\ exists = Users
                           /\ \A r \in Roles : requires[r]
                           /\ enrolRole = [h \in Handlers |-> CHOOSE r \in Roles : TRUE]
  /\ part # "email"     => emailAlone

AccountsNext ==
  \/ /\ part = "sessions"
     /\ Next
     /\ UNCHANGED <<part, lockOnly, enrolOnly, emailOnly>>
  \/ /\ part = "lock"
     /\ L!Next
     /\ UNCHANGED <<part, vars, enrolOnly, emailOnly>>
  \/ /\ part = "enrolment"
     /\ F!Next
     /\ UNCHANGED <<part, vars, lockOnly, emailOnly>>
  \/ /\ part = "email"
     /\ E!Next
     /\ UNCHANGED <<part, vars, lockOnly, enrolOnly>>

AccountsSpec == AccountsInit /\ [][AccountsNext]_accountVars

Symmetric == Permutations(Handlers)

\* A member is created with any roles.
AnyRoles == SUBSET Roles

\* The properties of the parts, as they are stated there; those of the sessions come as
\* they are.
LockHolds == L!LockHolds
FiveFailuresLock == L!FiveFailuresLock
EnrolmentHolds == F!EnrolmentHolds
AddressHolds == E!AddressHolds
=============================================================================
