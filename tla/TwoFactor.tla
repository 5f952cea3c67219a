----------------------------- MODULE TwoFactor -----------------------------
(***************************************************************************)
(* Enrolment of TOTP: roles that require it, the enrolment flag that keeps *)
(* a session in onboarding (OnboardingGuard), first enrolment, and         *)
(* re-enrolment over a pending secret in Redis.                            *)
(*                                                                         *)
(* A handler reads, and in a later step writes what follows from what it   *)
(* read; a transaction is one step.                                        *)
(***************************************************************************)
EXTENDS Integers, FiniteSets

CONSTANTS
  Users,
  Roles,
  Handlers,
  Invites,      \* the sets of roles an administrator creates a member with
  Edits,        \* the values of requires_2fa that a role is edited to
  MaxSecrets,   \* bound: TOTP secrets generated
  MaxChanges    \* bound: administrative changes started

NoSecret == 0

VARIABLES
  alone,       \* environment: requests come one at a time
  exists,      \* users rows
  holds,       \* user_roles
  requires,    \* roles.requires_2fa
  edited,      \* history: an edit of a role has changed requires
  unasked,     \* history: the roles a user was created with that should have asked
               \* for 2FA then, and still have not
  secret,      \* users.totp_secret
  enrolment,   \* users.totp_enrollment_required
  pending,     \* Redis, key of the pending secret
  proven,      \* history: the secrets a code was verified against
  generated,   \* secrets generated so far
  pc, user, role, seen,   \* the handlers: step, user, role, what was read
  changes

dbVars      == <<exists, holds, requires, edited, unasked, secret, enrolment>>
secretVars  == <<pending, proven, generated>>
handlerVars == <<pc, user, role, seen>>
vars == <<alone, dbVars, secretVars, handlerVars, changes>>

Holders(r) == {u \in Users : r \in holds[u]}

Init ==
  /\ alone \in BOOLEAN
  /\ exists \in {{}, Users}
  /\ holds = [u \in Users |-> {}]
  /\ requires \in [Roles -> BOOLEAN]
  /\ edited = FALSE
  /\ unasked = [u \in Users |-> {}]
  /\ secret = [u \in Users |-> NoSecret]
  /\ enrolment = [u \in Users |-> FALSE]
  /\ pending = [u \in Users |-> NoSecret]
  /\ proven = {}
  /\ generated = 0
  /\ pc = [h \in Handlers |-> "idle"]
  /\ user \in [Handlers -> Users]
  /\ role \in [Handlers -> Roles]
  /\ seen = [h \in Handlers |-> 0]
  /\ changes = 0

End(h) ==
  /\ pc' = [pc EXCEPT ![h] = "idle"]
  /\ seen' = [seen EXCEPT ![h] = 0]
  /\ UNCHANGED <<user, role>>

Start(h, u, r, step, s) ==
  /\ pc[h] = "idle"
  /\ alone => \A g \in Handlers : pc[g] = "idle"
  /\ pc' = [pc EXCEPT ![h] = step]
  /\ user' = [user EXCEPT ![h] = u]
  /\ role' = [role EXCEPT ![h] = r]
  /\ seen' = [seen EXCEPT ![h] = s]

Change == changes < MaxChanges /\ changes' = changes + 1

-----------------------------------------------------------------------------
(* Administration                                                          *)

\* MembersService.create: an ACTIVE user with his roles, in one transaction; the
\* only onboarding flag it sets is must_change_password.
CreateMember(u, rs) ==
  /\ u \notin exists
  /\ Change
  /\ exists' = exists \union {u}
  /\ holds' = [holds EXCEPT ![u] = rs]
  /\ unasked' = [unasked EXCEPT ![u] = {r \in rs : requires[r]}]
  /\ UNCHANGED <<requires, edited, secret, enrolment, secretVars, handlerVars>>

\* MembersService.grantRole reads the role and the target: does the role ask for
\* 2FA of somebody who has no secret?
ReadGrant(h, u, r) ==
  /\ u \in exists
  /\ Change
  /\ Start(h, u, r, "grant", IF requires[r] /\ secret[u] = NoSecret THEN 1 ELSE 0)
  /\ UNCHANGED <<dbVars, secretVars>>

\* The transaction: the role, and the enrolment flag if the answer was yes.
CommitGrant(h) ==
  /\ pc[h] = "grant"
  /\ holds' = [holds EXCEPT ![user[h]] = @ \union {role[h]}]
  /\ unasked' = [unasked EXCEPT ![user[h]] = @ \ {role[h]}]
  /\ enrolment' = [enrolment EXCEPT ![user[h]] = @ \/ seen[h] = 1]
  /\ End(h)
  /\ UNCHANGED <<exists, requires, edited, secret, secretVars, changes>>

RevokeRole(u, r) ==
  /\ r \in holds[u]
  /\ Change
  /\ holds' = [holds EXCEPT ![u] = @ \ {r}]
  /\ unasked' = [unasked EXCEPT ![u] = @ \ {r}]
  /\ UNCHANGED <<exists, requires, edited, secret, enrolment, secretVars, handlerVars>>

\* RolesService.update reads the role: is the requirement off so far?
ReadRole(h, r) ==
  /\ Change
  /\ Edits # {}
  /\ Start(h, user[h], r, "update", IF requires[r] THEN 1 ELSE 0)
  /\ UNCHANGED <<dbVars, secretVars>>

\* Turned on, a role asks every holder; the other edits ask nobody.
Asked(h, on) ==
  IF on /\ seen[h] = 0 THEN [u \in Users |-> unasked[u] \ {role[h]}] ELSE unasked

\* Mutant of CommitRole: the holders are left alone.
CommitRoleNoFlag(h, on) ==
  /\ pc[h] = "update"
  /\ requires' = [requires EXCEPT ![role[h]] = on]
  /\ edited' = (edited \/ requires[role[h]] # on)
  /\ unasked' = Asked(h, on)
  /\ End(h)
  /\ UNCHANGED <<exists, holds, secret, enrolment, secretVars, changes>>

\* The transaction: the new value, and when it was off and is turned on every
\* holder without a secret is sent back to onboarding.
CommitRole(h, on) ==
  /\ pc[h] = "update"
  /\ requires' = [requires EXCEPT ![role[h]] = on]
  /\ edited' = (edited \/ requires[role[h]] # on)
  /\ unasked' = Asked(h, on)
  /\ enrolment' = [u \in Users |->
       \/ enrolment[u]
       \/ on /\ seen[h] = 0 /\ u \in Holders(role[h]) /\ secret[u] = NoSecret]
  /\ End(h)
  /\ UNCHANGED <<exists, holds, secret, secretVars, changes>>

-----------------------------------------------------------------------------
(* First enrolment                                                         *)

Fresh == generated + 1
Generate == generated < MaxSecrets /\ generated' = Fresh

\* beginTotpEnrollment: only while the flag is up ...
ReadBegin(h, u) ==
  /\ u \in exists
  /\ enrolment[u]
  /\ Generate
  /\ Start(h, u, role[h], "begin", Fresh)
  /\ UNCHANGED <<dbVars, pending, proven, changes>>

\* ... the new secret is stored, unconfirmed, in the users row.
StoreSecret(h) ==
  /\ pc[h] = "begin"
  /\ secret' = [secret EXCEPT ![user[h]] = seen[h]]
  /\ End(h)
  /\ UNCHANGED <<exists, holds, requires, edited, unasked, enrolment, secretVars, changes>>

\* confirmTotpEnrollment reads the secret and verifies the code against it ...
VerifyCode(h, u) ==
  /\ u \in exists
  /\ secret[u] # NoSecret
  /\ proven' = proven \union {secret[u]}
  /\ Start(h, u, role[h], "confirm", secret[u])
  /\ UNCHANGED <<dbVars, pending, generated, changes>>

\* ... and takes the flag down.
ClearFlag(h) ==
  /\ pc[h] = "confirm"
  /\ enrolment' = [enrolment EXCEPT ![user[h]] = FALSE]
  /\ End(h)
  /\ UNCHANGED <<exists, holds, requires, edited, unasked, secret, secretVars, changes>>

-----------------------------------------------------------------------------
(* Re-enrolment                                                            *)

\* Mutant of BeginAgain: the new secret goes straight into the users row.
BeginAgainInPlace(u) ==
  /\ u \in exists
  /\ ~enrolment[u]
  /\ secret[u] # NoSecret
  /\ Generate
  /\ secret' = [secret EXCEPT ![u] = Fresh]
  /\ UNCHANGED <<exists, holds, requires, edited, unasked, enrolment, pending, proven, handlerVars, changes>>

\* beginTotpReenrollment: an enrolled user, identified once more, gets a new
\* secret that is kept in Redis.
BeginAgain(u) ==
  /\ u \in exists
  /\ ~enrolment[u]
  /\ secret[u] # NoSecret
  /\ Generate
  /\ pending' = [pending EXCEPT ![u] = Fresh]
  /\ UNCHANGED <<dbVars, proven, handlerVars, changes>>

\* confirmTotpReenrollment: the code is verified against the pending secret ...
VerifyAgain(h, u) ==
  /\ pending[u] # NoSecret
  /\ proven' = proven \union {pending[u]}
  /\ Start(h, u, role[h], "replace", pending[u])
  /\ UNCHANGED <<dbVars, pending, generated, changes>>

\* ... which becomes the secret ...
ReplaceSecret(h) ==
  /\ pc[h] = "replace"
  /\ secret' = [secret EXCEPT ![user[h]] = seen[h]]
  /\ pc' = [pc EXCEPT ![h] = "drop"]
  /\ UNCHANGED <<exists, holds, requires, edited, unasked, enrolment, secretVars, user, role, seen, changes>>

\* ... and whatever is pending is deleted; Redis may fail or expire it.
DropPending(h) ==
  /\ pc[h] = "drop"
  /\ pending' \in {pending, [pending EXCEPT ![user[h]] = NoSecret]}
  /\ End(h)
  /\ UNCHANGED <<dbVars, proven, generated, changes>>

PendingExpires(u) ==
  /\ pending[u] # NoSecret
  /\ pending' = [pending EXCEPT ![u] = NoSecret]
  /\ UNCHANGED <<dbVars, proven, generated, handlerVars, changes>>

-----------------------------------------------------------------------------
HandlerStep(h) ==
  \/ CommitGrant(h)
  \/ \E on \in Edits : CommitRole(h, on)
  \/ StoreSecret(h)
  \/ ClearFlag(h)
  \/ ReplaceSecret(h)
  \/ DropPending(h)

HandlerStart(h) ==
  \/ \E u \in Users, r \in Roles : ReadGrant(h, u, r)
  \/ \E r \in Roles : ReadRole(h, r)
  \/ \E u \in Users : ReadBegin(h, u) \/ VerifyCode(h, u) \/ VerifyAgain(h, u)

Step ==
  \/ \E h \in Handlers : HandlerStart(h) \/ HandlerStep(h)
  \/ \E u \in Users, rs \in Invites : CreateMember(u, rs)
  \/ \E u \in Users, r \in Roles : RevokeRole(u, r)
  \/ \E u \in Users : BeginAgain(u) \/ PendingExpires(u)

Next == Step /\ UNCHANGED alone

Spec == Init /\ [][Next]_vars

-----------------------------------------------------------------------------
(* Properties                                                              *)

TypeOK ==
  /\ alone \in BOOLEAN
  /\ exists \subseteq Users
  /\ holds \in [Users -> SUBSET Roles]
  /\ requires \in [Roles -> BOOLEAN]
  /\ edited \in BOOLEAN
  /\ unasked \in [Users -> SUBSET Roles]
  /\ secret \in [Users -> Nat]
  /\ enrolment \in [Users -> BOOLEAN]
  /\ pending \in [Users -> Nat]
  /\ proven \subseteq Nat
  /\ generated \in Nat
  /\ pc \in [Handlers -> {"idle", "grant", "update", "begin", "confirm", "replace", "drop"}]
  /\ user \in [Handlers -> Users]
  /\ role \in [Handlers -> Roles]
  /\ seen \in [Handlers -> Nat]
  /\ changes \in Nat

\* A holder of a role that requires 2FA either has a secret or is held in
\* onboarding until he has one (members 219, roles.service 136): no session of
\* his reaches the ordinary API without it.  Left out is a role that a member was
\* created with (members 149) while it required 2FA, until it is taken away,
\* granted to him, or turned off and on again.
RequiredIsEnforced ==
  \A u \in exists : (\E r \in holds[u] \ unasked[u] : requires[r]) =>
    secret[u] # NoSecret \/ enrolment[u]

\* It is so while requests come one at a time; and when they overlap, as long
\* as no edit of a role has met a grant of that role.
EnforcedUnlessEditsOverlap == alone \/ ~edited => RequiredIsEnforced

\* The secret of a user who is out of onboarding is one he has shown a code of
\* (auth.service 333), while requests do not overlap: nobody is left with a
\* secret his device does not know.
SecretIsProven ==
  alone => \A u \in Users :
    (secret[u] # NoSecret /\ ~enrolment[u]) => secret[u] \in proven

\* What enrolment keeps, as one.
EnrolmentHolds == TypeOK /\ EnforcedUnlessEditsOverlap /\ SecretIsProven
=============================================================================
