------------------------------ MODULE Sessions ------------------------------
(***************************************************************************)
(* Sessions of apps/api: access tokens that carry the pv of their issue,   *)
(* refresh tokens that rotate inside a family, and the operations that end *)
(* sessions (AuthService; setBanned and softDelete of MembersService).     *)
(*                                                                         *)
(* A handler is an HTTP request in progress.  Each query outside a         *)
(* transaction is a step; what it read is kept in local variables and may  *)
(* be stale when the next step uses it.  The password check and the        *)
(* lockout of a login are the module Lockout; here a login that fails      *)
(* changes nothing.                                                        *)
(***************************************************************************)
EXTENDS Integers, Sequences, SequencesExt

CONSTANTS
  Users,
  Handlers,     \* requests in progress at the same time
  MaxTokens,    \* bound: refresh tokens issued
  MaxMails,     \* bound: verification tokens mailed
  MaxChanges    \* bound: changes of an account started

VARIABLES
  alone,       \* environment: requests come one at a time
  status,      \* users.status
  pv,          \* users.perm_version
  password,    \* users.password_hash: the number of changes made to it
  resetAt,     \* history: the password set by the last reset
  tokens,      \* refresh_tokens, in order of creation
  access,      \* access tokens signed so far: user and pv
  mails,       \* verification_tokens
  pc, user, row, seen,  \* the handlers: step, user, token row, user row read
  changes

userVars    == <<status, pv, password, resetAt>>
handlerVars == <<pc, user, row, seen>>
vars == <<alone, userVars, tokens, access, mails, handlerVars, changes>>

Status == {"PENDING", "ACTIVE", "SUSPENDED", "DELETED"}
Pc     == {"idle", "owner", "rotate", "burn", "issue",
           "reset", "verify", "ban", "unban", "delete"}

\* family: the index of the token it began with; since: the password it began with
Token == [user : Users, family : Nat, state : {"live", "revoked", "expired"}, since : Nat]
Mail  == [user : Users, kind : {"EMAIL_VERIFY", "PASSWORD_RESET"}, used : BOOLEAN]

NoRow     == 0
NothingRead == [pv |-> 0, since |-> 0]

Revoke(t) == IF t.state = "live" THEN [t EXCEPT !.state = "revoked"] ELSE t
RevokeAllSessions(u) == [i \in DOMAIN tokens |->
                           IF tokens[i].user = u THEN Revoke(tokens[i]) ELSE tokens[i]]
RevokeFamily(f) == [i \in DOMAIN tokens |->
                      IF tokens[i].family = f THEN Revoke(tokens[i]) ELSE tokens[i]]

Init ==
  /\ alone \in BOOLEAN
  /\ status \in [Users -> {"PENDING", "ACTIVE"}]
  /\ pv = [u \in Users |-> 1]
  /\ password = [u \in Users |-> 1]
  /\ resetAt = [u \in Users |-> 1]
  /\ tokens = << >>
  /\ access = {}
  /\ mails = << >>
  /\ pc = [h \in Handlers |-> "idle"]
  /\ user \in [Handlers -> Users]
  /\ row = [h \in Handlers |-> NoRow]
  /\ seen = [h \in Handlers |-> NothingRead]
  /\ changes = 0

Goto(h, step) == pc' = [pc EXCEPT ![h] = step]

\* The handler answers, with a result or an error.
End(h) ==
  /\ Goto(h, "idle")
  /\ row' = [row EXCEPT ![h] = NoRow]
  /\ seen' = [seen EXCEPT ![h] = NothingRead]
  /\ UNCHANGED user

Start(h, u, step) ==
  /\ pc[h] = "idle"
  /\ alone => \A g \in Handlers : pc[g] = "idle"
  /\ Goto(h, step)
  /\ user' = [user EXCEPT ![h] = u]

-----------------------------------------------------------------------------
(* login, refresh                                                          *)

\* login: the users row is read, the password matches and the status is ACTIVE.
ReadLogin(h, u) ==
  /\ Len(tokens) < MaxTokens
  /\ status[u] = "ACTIVE"
  /\ Start(h, u, "issue")
  /\ seen' = [seen EXCEPT ![h] = [pv |-> pv[u], since |-> password[u]]]
  /\ UNCHANGED <<userVars, tokens, access, mails, row, changes>>

\* Mutant of Issue: the access token is signed with the pv of now.
IssueCurrentPv(h) ==
  /\ pc[h] = "issue"
  /\ Len(tokens) < MaxTokens
  /\ tokens' = Append(tokens,
       [user   |-> user[h],
        family |-> IF row[h] = NoRow THEN Len(tokens) + 1 ELSE tokens[row[h]].family,
        state  |-> "live",
        since  |-> seen[h].since])
  /\ access' = access \union {[user |-> user[h], pv |-> pv[user[h]]]}
  /\ End(h)
  /\ UNCHANGED <<userVars, mails, changes>>

\* issueTokenPair: a new row, in the family of the rotated token or in a new
\* one, and an access token with the pv that was read at the start.
Issue(h) ==
  /\ pc[h] = "issue"
  /\ Len(tokens) < MaxTokens
  /\ tokens' = Append(tokens,
       [user   |-> user[h],
        family |-> IF row[h] = NoRow THEN Len(tokens) + 1 ELSE tokens[row[h]].family,
        state  |-> "live",
        since  |-> seen[h].since])
  /\ access' = access \union {[user |-> user[h], pv |-> seen[h].pv]}
  /\ End(h)
  /\ UNCHANGED <<userVars, mails, changes>>

\* Mutant of ReadToken: the state of the row is not looked at.
ReadTokenAnyState(h, i) ==
  /\ i \in DOMAIN tokens
  /\ Len(tokens) < MaxTokens
  /\ Start(h, tokens[i].user, "owner")
  /\ row' = [row EXCEPT ![h] = i]
  /\ UNCHANGED <<userVars, tokens, access, mails, seen, changes>>

\* refresh: the presented token's row; a revoked or expired one is a reuse.
ReadToken(h, i) ==
  /\ i \in DOMAIN tokens
  /\ Len(tokens) < MaxTokens
  /\ Start(h, tokens[i].user, IF tokens[i].state = "live" THEN "owner" ELSE "burn")
  /\ row' = [row EXCEPT ![h] = i]
  /\ UNCHANGED <<userVars, tokens, access, mails, seen, changes>>

\* The users row that the same call includes.
ReadOwner(h) ==
  /\ pc[h] = "owner"
  /\ \/ /\ status[user[h]] = "ACTIVE"
        /\ Goto(h, "rotate")
        /\ seen' = [seen EXCEPT ![h] = [pv    |-> pv[user[h]],
                                        since |-> tokens[row[h]].since]]
        /\ UNCHANGED <<user, row>>
     \/ /\ status[user[h]] # "ACTIVE"
        /\ Goto(h, "burn")
        /\ UNCHANGED <<user, row, seen>>
     \/ \* a role requires 2FA and TOTP is not enrolled (module TwoFactor)
        /\ status[user[h]] = "ACTIVE"
        /\ End(h)
  /\ UNCHANGED <<userVars, tokens, access, mails, changes>>

\* Mutant of Rotate: the presented token stays live.
RotateKeeps(h) ==
  /\ pc[h] = "rotate"
  /\ Goto(h, "issue")
  /\ UNCHANGED <<userVars, tokens, access, mails, user, row, seen, changes>>

\* The presented token is revoked, whatever its state is now.
Rotate(h) ==
  /\ pc[h] = "rotate"
  /\ tokens' = [tokens EXCEPT ![row[h]].state = "revoked"]
  /\ Goto(h, "issue")
  /\ UNCHANGED <<userVars, access, mails, user, row, seen, changes>>

Burn(h) ==
  /\ pc[h] = "burn"
  /\ tokens' = RevokeFamily(tokens[row[h]].family)
  /\ End(h)
  /\ UNCHANGED <<userVars, access, mails, changes>>

\* The clock passes expires_at.
TokenExpires(i) ==
  /\ i \in DOMAIN tokens
  /\ tokens[i].state = "live"
  /\ tokens' = [tokens EXCEPT ![i].state = "expired"]
  /\ UNCHANGED <<userVars, access, mails, handlerVars, changes>>

-----------------------------------------------------------------------------
(* Verification mails, password                                            *)

\* signup sends EMAIL_VERIFY to a new PENDING user, once; requestPasswordReset
\* sends PASSWORD_RESET to whoever has the address.
SendMail(u, kind) ==
  /\ Len(mails) < MaxMails
  /\ kind = "EMAIL_VERIFY" =>
       /\ status[u] = "PENDING"
       /\ \A m \in DOMAIN mails : mails[m].user = u => mails[m].kind # kind
  /\ mails' = Append(mails, [user |-> u, kind |-> kind, used |-> FALSE])
  /\ UNCHANGED <<userVars, tokens, access, handlerVars, changes>>

Change == changes < MaxChanges /\ changes' = changes + 1

\* resetPassword and verifyEmail read the mailed token (unused, not expired) ...
ReadMail(h, m) ==
  /\ m \in DOMAIN mails
  /\ ~mails[m].used
  /\ Change
  /\ Start(h, mails[m].user, IF mails[m].kind = "PASSWORD_RESET" THEN "reset" ELSE "verify")
  /\ row' = [row EXCEPT ![h] = m]
  /\ UNCHANGED <<userVars, tokens, access, mails, seen>>

\* Mutant of CommitReset: the refresh families survive.
CommitResetKeepsSessions(h) ==
  /\ pc[h] = "reset"
  /\ mails' = [mails EXCEPT ![row[h]].used = TRUE]
  /\ password' = [password EXCEPT ![user[h]] = @ + 1]
  /\ resetAt' = [resetAt EXCEPT ![user[h]] = password[user[h]] + 1]
  /\ End(h)
  /\ UNCHANGED <<status, pv, tokens, access, changes>>

\* ... and use it in a transaction: a new password, every session ended;
CommitReset(h) ==
  /\ pc[h] = "reset"
  /\ mails' = [mails EXCEPT ![row[h]].used = TRUE]
  /\ password' = [password EXCEPT ![user[h]] = @ + 1]
  /\ resetAt' = [resetAt EXCEPT ![user[h]] = password[user[h]] + 1]
  /\ tokens' = RevokeAllSessions(user[h])
  /\ End(h)
  /\ UNCHANGED <<status, pv, access, changes>>

\* ACTIVE, and the MEMBER role, which bumps pv.
CommitVerify(h) ==
  /\ pc[h] = "verify"
  /\ mails' = [mails EXCEPT ![row[h]].used = TRUE]
  /\ status' = [status EXCEPT ![user[h]] = "ACTIVE"]
  /\ pv' = [pv EXCEPT ![user[h]] = @ + 1]
  /\ End(h)
  /\ UNCHANGED <<password, resetAt, tokens, access, changes>>

\* completePasswordOnboarding, by a user who is signed in.
OnboardPassword(u) ==
  /\ \E t \in access : t.user = u /\ t.pv = pv[u]
  /\ Change
  /\ password' = [password EXCEPT ![u] = @ + 1]
  /\ UNCHANGED <<status, pv, resetAt, tokens, access, mails, handlerVars>>

-----------------------------------------------------------------------------
(* setBanned, softDelete                                                   *)

\* Dominance and detail(): the target exists and is not deleted.
CheckMember(h, u, step) ==
  /\ status[u] # "DELETED"
  /\ Change
  /\ Start(h, u, step)
  /\ UNCHANGED <<userVars, tokens, access, mails, row, seen>>

\* Mutant of CommitEnd: without ending the sessions.
CommitEndKeepsSessions(h, step, s) ==
  /\ pc[h] = step
  /\ status' = [status EXCEPT ![user[h]] = s]
  /\ pv' = [pv EXCEPT ![user[h]] = @ + 1]
  /\ End(h)
  /\ UNCHANGED <<password, resetAt, tokens, access, mails, changes>>

\* The transaction: status, sessions and pv together.
CommitEnd(h, step, s) ==
  /\ pc[h] = step
  /\ status' = [status EXCEPT ![user[h]] = s]
  /\ tokens' = RevokeAllSessions(user[h])
  /\ pv' = [pv EXCEPT ![user[h]] = @ + 1]
  /\ End(h)
  /\ UNCHANGED <<password, resetAt, access, mails, changes>>

Ban(h)        == CommitEnd(h, "ban", "SUSPENDED")
SoftDelete(h) == CommitEnd(h, "delete", "DELETED")

Unban(h) ==
  /\ pc[h] = "unban"
  /\ status' = [status EXCEPT ![user[h]] = "ACTIVE"]
  /\ pv' = [pv EXCEPT ![user[h]] = @ + 1]
  /\ End(h)
  /\ UNCHANGED <<password, resetAt, tokens, access, mails, changes>>

-----------------------------------------------------------------------------
HandlerStep(h) ==
  \/ Issue(h)
  \/ ReadOwner(h)
  \/ Rotate(h)
  \/ Burn(h)
  \/ CommitReset(h)
  \/ CommitVerify(h)
  \/ Ban(h)
  \/ Unban(h)
  \/ SoftDelete(h)

HandlerStart(h) ==
  \/ \E u \in Users : ReadLogin(h, u)
  \/ \E i \in 1..MaxTokens : ReadToken(h, i)
  \/ \E m \in 1..MaxMails : ReadMail(h, m)
  \/ \E u \in Users, step \in {"ban", "unban", "delete"} : CheckMember(h, u, step)

Step ==
  \/ \E h \in Handlers : HandlerStart(h) \/ HandlerStep(h)
  \/ \E i \in 1..MaxTokens : TokenExpires(i)
  \/ \E u \in Users, kind \in {"EMAIL_VERIFY", "PASSWORD_RESET"} : SendMail(u, kind)
  \/ \E u \in Users : OnboardPassword(u)

Next == Step /\ UNCHANGED alone

Spec == Init /\ [][Next]_vars

-----------------------------------------------------------------------------
(* Properties                                                              *)

StateTypes ==
  /\ status \in [Users -> Status]
  /\ pv \in [Users -> Nat]
  /\ password \in [Users -> Nat]
  /\ resetAt \in [Users -> Nat]
  /\ tokens \in Seq(Token)
  /\ access \subseteq [user : Users, pv : Nat]
  /\ mails \in Seq(Mail)
  /\ pc \in [Handlers -> Pc]
  /\ user \in [Handlers -> Users]
  /\ row \in [Handlers -> Nat]
  /\ seen \in [Handlers -> [pv : Nat, since : Nat]]
  /\ changes \in Nat

TypeOK == alone \in BOOLEAN /\ StateTypes

\* An access token whose pv is the user's current pv belongs to an ACTIVE user,
\* however a login or a refresh interleaves with the suspension: what they
\* issue carries the pv they read together with the status (snapshot 28-42).
NoAccessWhileInactive ==
  \A t \in access : t.pv = pv[t.user] => status[t.user] = "ACTIVE"

\* Rotation leaves one live refresh token in a family (auth.service 190: using
\* a rotated token again burns the family), while requests do not overlap.  Two
\* refreshes of one token that do overlap both pass the check.
OneLivePerFamily ==
  alone => \A i, j \in DOMAIN tokens :
    (i # j /\ tokens[i].family = tokens[j].family)
      => ~(tokens[i].state = "live" /\ tokens[j].state = "live")

\* setBanned cuts the access token and the reissue path together (members 185):
\* a suspended or deleted user holds no live refresh token.
NoLiveTokenWhileInactive ==
  alone => \A i \in DOMAIN tokens :
    tokens[i].state = "live" => status[tokens[i].user] = "ACTIVE"

\* A completed reset ends every refresh family (auth.service 261): no live token
\* descends from a login with an earlier password.
NoSessionOutlivesReset ==
  alone => \A i \in DOMAIN tokens :
    tokens[i].state = "live" => tokens[i].since >= resetAt[tokens[i].user]

\* What an end of sessions ends, as one.
CutsHold == TypeOK /\ OneLivePerFamily /\ NoLiveTokenWhileInactive /\ NoSessionOutlivesReset

\* A family without a live token that no request is rotating, burned by a reuse
\* or by a cut of the sessions, stays dead.
Dead(f) ==
  /\ \E i \in DOMAIN tokens : tokens[i].family = f
  /\ \A i \in DOMAIN tokens : tokens[i].family = f => tokens[i].state # "live"
  /\ \A h \in Handlers : pc[h] \in {"owner", "rotate", "issue"} /\ row[h] # NoRow
                           => tokens[row[h]].family # f

DeadFamilyStaysDead == [][\A f \in DOMAIN tokens : Dead(f) => Dead(f)']_vars

-----------------------------------------------------------------------------
(* The inductive invariant of NoAccessWhileInactive                        *)

\* A handler's row is one of the table its step is about.
RowOK ==
  \A h \in Handlers :
    /\ pc[h] \in {"owner", "rotate", "burn"} => row[h] \in DOMAIN tokens
    /\ pc[h] = "issue" /\ row[h] # NoRow => row[h] \in DOMAIN tokens
    /\ pc[h] \in {"reset", "verify"} => row[h] \in DOMAIN mails
    /\ pc[h] = "idle" => row[h] = NoRow

\* No pv but the user's own past and present ones was ever handed out, and one
\* that is still current was read of an ACTIVE user.
PastPv == \A t \in access : t.pv <= pv[t.user]

SeenActive ==
  \A h \in Handlers : pc[h] \in {"rotate", "issue"} =>
    /\ seen[h].pv <= pv[user[h]]
    /\ seen[h].pv = pv[user[h]] => status[user[h]] = "ACTIVE"

IInv == TypeOK /\ RowOK /\ PastPv /\ SeenActive /\ NoAccessWhileInactive
=============================================================================
