--------------------------- MODULE AccountsProofs ---------------------------
(***************************************************************************)
(* Proofs about the parts of MCAccounts, for any users, any number of      *)
(* concurrent requests and any bounds: Sessions, Lockout (L), TwoFactor    *)
(* (F) and EmailChange (E).                                                *)
(***************************************************************************)
EXTENDS MCAccounts, FiniteSetTheorems, TLAPS

(* Sequences of rows: an update of one row, of many rows, an insertion.    *)

LEMMA RevokeType ==
  ASSUME NEW t \in Token
  PROVE  Revoke(t) \in Token
  BY DEF Revoke, Token

LEMMA RevokeAllType ==
  ASSUME NEW u \in Users, tokens \in Seq(Token)
  PROVE  /\ RevokeAllSessions(u) \in Seq(Token)
         /\ DOMAIN RevokeAllSessions(u) = DOMAIN tokens
<1>1. \A i \in DOMAIN tokens : tokens[i] \in Token
  OBVIOUS
<1>2. \A i \in DOMAIN tokens :
        (IF tokens[i].user = u THEN Revoke(tokens[i]) ELSE tokens[i]) \in Token
  BY <1>1, RevokeType
<1> QED
  BY <1>2 DEF RevokeAllSessions

LEMMA RevokeFamilyType ==
  ASSUME NEW f, tokens \in Seq(Token)
  PROVE  /\ RevokeFamily(f) \in Seq(Token)
         /\ DOMAIN RevokeFamily(f) = DOMAIN tokens
<1>1. \A i \in DOMAIN tokens : tokens[i] \in Token
  OBVIOUS
<1>2. \A i \in DOMAIN tokens :
        (IF tokens[i].family = f THEN Revoke(tokens[i]) ELSE tokens[i]) \in Token
  BY <1>1, RevokeType
<1> QED
  BY <1>2 DEF RevokeFamily

LEMMA SetStateType ==
  ASSUME NEW i \in DOMAIN tokens, NEW s \in {"live", "revoked", "expired"},
         tokens \in Seq(Token)
  PROVE  /\ [tokens EXCEPT ![i].state = s] \in Seq(Token)
         /\ DOMAIN [tokens EXCEPT ![i].state = s] = DOMAIN tokens
<1>1. tokens[i] \in Token
  OBVIOUS
<1>2. [tokens[i] EXCEPT !.state = s] \in Token
  BY <1>1 DEF Token
<1> QED
  BY <1>2

LEMMA UseMailType ==
  ASSUME NEW m \in DOMAIN mails, mails \in Seq(Mail)
  PROVE  /\ [mails EXCEPT ![m].used = TRUE] \in Seq(Mail)
         /\ DOMAIN [mails EXCEPT ![m].used = TRUE] = DOMAIN mails
<1>1. mails[m] \in Mail
  OBVIOUS
<1>2. [mails[m] EXCEPT !.used = TRUE] \in Mail
  BY <1>1 DEF Mail
<1> QED
  BY <1>2

-----------------------------------------------------------------------------
(* Types and rows                                                          *)

\* Nothing but TypeOK and the conditions of the properties mentions alone.
TypeRow == StateTypes /\ RowOK

LEMMA ChangeType ==
  ASSUME StateTypes, Change
  PROVE  changes' \in Nat
  BY DEF StateTypes, Change

LEMMA InitTypeRow == Init => TypeRow
  BY DEF Init, TypeRow, StateTypes, RowOK, Status, Pc, NothingRead, NoRow

LEMMA ReadLoginType ==
  ASSUME NEW h \in Handlers, NEW u \in Users, TypeRow, ReadLogin(h, u)
  PROVE  TypeRow'
  BY DEF TypeRow, StateTypes, RowOK, ReadLogin, Start, Goto, Pc, userVars

LEMMA IssueType ==
  ASSUME NEW h \in Handlers, TypeRow, Issue(h)
  PROVE  TypeRow'
<1> DEFINE new == [user   |-> user[h],
                   family |-> IF row[h] = NoRow THEN Len(tokens) + 1 ELSE tokens[row[h]].family,
                   state  |-> "live",
                   since  |-> seen[h].since]
<1>1. tokens \in Seq(Token) /\ \A i \in DOMAIN tokens : tokens[i] \in Token
  BY DEF TypeRow, StateTypes
<1>2. new \in Token
  <2>1. row[h] # NoRow => tokens[row[h]].family \in Nat
    BY <1>1 DEF TypeRow, RowOK, Issue, Token
  <2> QED
    BY <1>1, <2>1 DEF TypeRow, StateTypes, Token
<1>3. tokens' = Append(tokens, new)
  BY DEF Issue
<1> HIDE DEF new
<1>4. tokens' \in Seq(Token) /\ DOMAIN tokens \subseteq DOMAIN tokens'
  BY <1>1, <1>2, <1>3
<1>5. access' \subseteq [user : Users, pv : Nat]
  BY DEF TypeRow, StateTypes, Issue
<1> QED
  BY <1>4, <1>5 DEF TypeRow, StateTypes, RowOK, Issue, End, Goto, Pc, userVars, NothingRead, NoRow

LEMMA ReadTokenType ==
  ASSUME NEW h \in Handlers, NEW i, TypeRow, ReadToken(h, i)
  PROVE  TypeRow'
<1>1. i \in Nat /\ i \in DOMAIN tokens /\ tokens[i] \in Token
  BY DEF TypeRow, StateTypes, ReadToken
<1> QED
  BY <1>1 DEF TypeRow, StateTypes, RowOK, ReadToken, Start, Goto, Pc, userVars, Token

LEMMA ReadOwnerType ==
  ASSUME NEW h \in Handlers, TypeRow, ReadOwner(h)
  PROVE  TypeRow'
<1>1. tokens[row[h]] \in Token
  BY DEF TypeRow, StateTypes, RowOK, ReadOwner
<1>2. [pv |-> pv[user[h]], since |-> tokens[row[h]].since] \in [pv : Nat, since : Nat]
  BY <1>1 DEF TypeRow, StateTypes, Token
<1>3. StateTypes'
  <2>1. CASE /\ Goto(h, "rotate")
             /\ seen' = [seen EXCEPT ![h] = [pv |-> pv[user[h]], since |-> tokens[row[h]].since]]
             /\ UNCHANGED <<user, row>>
    BY <1>2, <2>1 DEF TypeRow, StateTypes, ReadOwner, Goto, Pc, userVars
  <2>2. CASE Goto(h, "burn") /\ UNCHANGED <<user, row, seen>>
    BY <2>2 DEF TypeRow, StateTypes, ReadOwner, Goto, Pc, userVars
  <2>3. CASE End(h)
    BY <2>3 DEF TypeRow, StateTypes, ReadOwner, End, Goto, Pc, userVars, NothingRead, NoRow
  <2> QED
    BY <2>1, <2>2, <2>3 DEF ReadOwner
<1>4. RowOK'
  BY <1>1, <1>2 DEF TypeRow, RowOK, StateTypes, ReadOwner, End, Goto, Pc, userVars, NothingRead, NoRow
<1> QED
  BY <1>3, <1>4 DEF TypeRow

LEMMA RotateType ==
  ASSUME NEW h \in Handlers, TypeRow, Rotate(h)
  PROVE  TypeRow'
<1>1. tokens' \in Seq(Token) /\ DOMAIN tokens' = DOMAIN tokens
  BY SetStateType DEF TypeRow, StateTypes, RowOK, Rotate
<1> QED
  BY <1>1 DEF TypeRow, StateTypes, RowOK, Rotate, Goto, Pc, userVars

LEMMA BurnType ==
  ASSUME NEW h \in Handlers, TypeRow, Burn(h)
  PROVE  TypeRow'
<1>1. tokens' \in Seq(Token) /\ DOMAIN tokens' = DOMAIN tokens
  BY RevokeFamilyType DEF TypeRow, StateTypes, Burn
<1> QED
  BY <1>1 DEF TypeRow, StateTypes, RowOK, Burn, End, Goto, Pc, userVars, NothingRead, NoRow

LEMMA TokenExpiresType ==
  ASSUME NEW i, TypeRow, TokenExpires(i)
  PROVE  TypeRow'
<1>1. tokens' \in Seq(Token) /\ DOMAIN tokens' = DOMAIN tokens
  BY SetStateType DEF TypeRow, StateTypes, TokenExpires
<1> QED
  BY <1>1 DEF TypeRow, StateTypes, RowOK, TokenExpires, userVars, handlerVars

LEMMA SendMailType ==
  ASSUME NEW u \in Users, NEW kind \in {"EMAIL_VERIFY", "PASSWORD_RESET"}, TypeRow, SendMail(u, kind)
  PROVE  TypeRow'
<1>1. [user |-> u, kind |-> kind, used |-> FALSE] \in Mail
  BY DEF Mail
<1>2. mails' \in Seq(Mail) /\ DOMAIN mails \subseteq DOMAIN mails'
  BY <1>1 DEF TypeRow, StateTypes, SendMail
<1> QED
  BY <1>2 DEF TypeRow, StateTypes, RowOK, SendMail, userVars, handlerVars

LEMMA ReadMailType ==
  ASSUME NEW h \in Handlers, NEW m, TypeRow, ReadMail(h, m)
  PROVE  TypeRow'
<1>1. m \in Nat /\ m \in DOMAIN mails /\ mails[m] \in Mail
  BY DEF TypeRow, StateTypes, ReadMail
<1>2. StateTypes'
  <2>1. changes' \in Nat
    BY ChangeType DEF TypeRow, ReadMail
  <2> QED
    BY <1>1, <2>1 DEF TypeRow, StateTypes, ReadMail, Start, Goto, Pc, userVars, Mail
<1>3. RowOK'
  BY <1>1 DEF TypeRow, RowOK, StateTypes, ReadMail, Change, Start, Goto, Pc, userVars, Mail
<1> QED
  BY <1>2, <1>3 DEF TypeRow

LEMMA CommitResetType ==
  ASSUME NEW h \in Handlers, TypeRow, CommitReset(h)
  PROVE  TypeRow'
<1>1. user[h] \in Users /\ row[h] \in DOMAIN mails
  BY DEF TypeRow, StateTypes, RowOK, CommitReset
<1>2. tokens' \in Seq(Token) /\ DOMAIN tokens' = DOMAIN tokens
  BY <1>1, RevokeAllType DEF TypeRow, StateTypes, CommitReset
<1>3. mails' \in Seq(Mail) /\ DOMAIN mails' = DOMAIN mails
  BY <1>1, UseMailType DEF TypeRow, StateTypes, CommitReset
<1> QED
  BY <1>1, <1>2, <1>3 DEF TypeRow, StateTypes, RowOK, CommitReset, End, Goto, Pc, NothingRead, NoRow

LEMMA CommitVerifyType ==
  ASSUME NEW h \in Handlers, TypeRow, CommitVerify(h)
  PROVE  TypeRow'
<1>1. user[h] \in Users /\ row[h] \in DOMAIN mails
  BY DEF TypeRow, StateTypes, RowOK, CommitVerify
<1>2. mails' \in Seq(Mail) /\ DOMAIN mails' = DOMAIN mails
  BY <1>1, UseMailType DEF TypeRow, StateTypes, CommitVerify
<1> QED
  BY <1>1, <1>2 DEF TypeRow, StateTypes, RowOK, CommitVerify, End, Goto, Pc, Status, NothingRead, NoRow

LEMMA OnboardPasswordType ==
  ASSUME NEW u \in Users, TypeRow, OnboardPassword(u)
  PROVE  TypeRow'
<1>1. StateTypes'
  BY DEF TypeRow, StateTypes, OnboardPassword, Change, handlerVars
<1>2. RowOK'
  BY DEF TypeRow, RowOK, StateTypes, OnboardPassword, Change, handlerVars
<1> QED
  BY <1>1, <1>2 DEF TypeRow

LEMMA CheckMemberType ==
  ASSUME NEW h \in Handlers, NEW u \in Users, NEW step \in {"ban", "unban", "delete"},
         TypeRow, CheckMember(h, u, step)
  PROVE  TypeRow'
<1>1. StateTypes'
  <2>1. changes' \in Nat
    BY ChangeType DEF TypeRow, CheckMember
  <2> QED
    BY <2>1 DEF TypeRow, StateTypes, CheckMember, Start, Goto, Pc, userVars
<1>2. RowOK'
  BY DEF TypeRow, RowOK, StateTypes, CheckMember, Change, Start, Goto, Pc, userVars
<1> QED
  BY <1>1, <1>2 DEF TypeRow

LEMMA CommitEndType ==
  ASSUME NEW h \in Handlers, NEW step, NEW s \in Status, TypeRow, CommitEnd(h, step, s)
  PROVE  TypeRow'
<1>1. user[h] \in Users
  BY DEF TypeRow, StateTypes
<1>2. tokens' \in Seq(Token) /\ DOMAIN tokens' = DOMAIN tokens
  BY <1>1, RevokeAllType DEF TypeRow, StateTypes, CommitEnd
<1> QED
  BY <1>1, <1>2 DEF TypeRow, StateTypes, RowOK, CommitEnd, End, Goto, Pc, NothingRead, NoRow

LEMMA UnbanType ==
  ASSUME NEW h \in Handlers, TypeRow, Unban(h)
  PROVE  TypeRow'
  BY DEF TypeRow, StateTypes, RowOK, Unban, End, Goto, Pc, Status, NothingRead, NoRow

-----------------------------------------------------------------------------
(* Access tokens and what a handler is about to sign                       *)

Safe == PastPv /\ SeenActive /\ NoAccessWhileInactive

\* No handler comes to issue with a pv it has not had before.
NoNewReading ==
  \A g \in Handlers : pc'[g] \in {"rotate", "issue"} =>
    /\ pc[g] \in {"rotate", "issue"}
    /\ seen'[g] = seen[g]
    /\ user'[g] = user[g]

\* Steps that change neither a user's standing nor an access token.
LEMMA QuietSafe ==
  ASSUME Safe, NoNewReading, UNCHANGED <<status, pv, access>>
  PROVE  Safe'
  BY DEF Safe, PastPv, SeenActive, NoAccessWhileInactive, NoNewReading

\* Steps that change a user's status together with his pv: what was read or
\* signed before is now out of date.
LEMMA BumpSafe ==
  ASSUME NEW u \in Users, TypeRow, Safe, NoNewReading, access' = access,
         pv' = [pv EXCEPT ![u] = @ + 1],
         \A v \in Users : v # u => status'[v] = status[v]
  PROVE  Safe'
<1>1. \A v \in Users : v # u => pv'[v] = pv[v]
  BY DEF TypeRow, StateTypes
<1>2. pv[u] \in Nat /\ pv'[u] = pv[u] + 1
  BY DEF TypeRow, StateTypes
<1>3. \A t \in access : t.user \in Users /\ t.pv \in Nat /\ pv[t.user] \in Nat
  BY DEF TypeRow, StateTypes
<1>4. \A g \in Handlers : user[g] \in Users /\ seen[g].pv \in Nat /\ pv[user[g]] \in Nat
  BY DEF TypeRow, StateTypes
<1>5. PastPv'
  BY <1>1, <1>2, <1>3 DEF Safe, PastPv
<1>6. NoAccessWhileInactive'
  BY <1>1, <1>2, <1>3 DEF Safe, PastPv, NoAccessWhileInactive
<1>7. SeenActive'
  BY <1>1, <1>2, <1>4 DEF Safe, SeenActive, NoNewReading
<1> QED
  BY <1>5, <1>6, <1>7 DEF Safe

\* A handler that is about to issue for an ACTIVE user has read his present pv.
LEMMA ReadingSafe ==
  ASSUME NEW h \in Handlers, TypeRow, Safe, UNCHANGED <<status, pv, access>>,
         status[user'[h]] = "ACTIVE", seen'[h].pv = pv[user'[h]], user'[h] \in Users,
         \A g \in Handlers : g # h =>
           pc'[g] = pc[g] /\ seen'[g] = seen[g] /\ user'[g] = user[g]
  PROVE  Safe'
<1>1. pv[user'[h]] \in Nat
  BY DEF TypeRow, StateTypes
<1> QED
  BY <1>1 DEF Safe, PastPv, SeenActive, NoAccessWhileInactive

LEMMA IssueSafe ==
  ASSUME NEW h \in Handlers, TypeRow, Safe, Issue(h)
  PROVE  Safe'
<1>1. NoNewReading
  BY DEF NoNewReading, Issue, End, Goto, TypeRow, StateTypes
<1>2. access' = access \union {[user |-> user[h], pv |-> seen[h].pv]}
  BY DEF Issue
<1>3. /\ seen[h].pv <= pv[user[h]]
      /\ seen[h].pv = pv[user[h]] => status[user[h]] = "ACTIVE"
  BY DEF Issue, Safe, SeenActive
<1>4. UNCHANGED <<status, pv>>
  BY DEF Issue, userVars
<1> QED
  BY <1>1, <1>2, <1>3, <1>4 DEF Safe, PastPv, SeenActive, NoAccessWhileInactive, NoNewReading

LEMMA ReadOwnerSafe ==
  ASSUME NEW h \in Handlers, TypeRow, Safe, ReadOwner(h)
  PROVE  Safe'
<1>1. UNCHANGED <<status, pv, access>>
  BY DEF ReadOwner, userVars
<1>2. CASE /\ status[user[h]] = "ACTIVE"
           /\ Goto(h, "rotate")
           /\ seen' = [seen EXCEPT ![h] = [pv |-> pv[user[h]], since |-> tokens[row[h]].since]]
           /\ UNCHANGED <<user, row>>
  <2>1. /\ status[user'[h]] = "ACTIVE"
        /\ seen'[h].pv = pv[user'[h]]
        /\ user'[h] \in Users
        /\ \A g \in Handlers : g # h =>
             pc'[g] = pc[g] /\ seen'[g] = seen[g] /\ user'[g] = user[g]
    BY <1>2 DEF TypeRow, StateTypes, Goto
  <2> QED
    BY <1>1, <2>1, ReadingSafe
<1>3. CASE Goto(h, "burn") /\ UNCHANGED <<user, row, seen>>
  <2>1. NoNewReading
    BY <1>3 DEF NoNewReading, Goto, TypeRow, StateTypes
  <2> QED
    BY <1>1, <2>1, QuietSafe
<1>4. CASE End(h)
  <2>1. NoNewReading
    BY <1>4 DEF NoNewReading, End, Goto, TypeRow, StateTypes
  <2> QED
    BY <1>1, <2>1, QuietSafe
<1> QED
  BY <1>2, <1>3, <1>4 DEF ReadOwner

LEMMA ReadLoginSafe ==
  ASSUME NEW h \in Handlers, NEW u \in Users, TypeRow, Safe, ReadLogin(h, u)
  PROVE  Safe'
<1>1. /\ status[user'[h]] = "ACTIVE"
      /\ seen'[h].pv = pv[user'[h]]
      /\ user'[h] \in Users
      /\ \A g \in Handlers : g # h =>
           pc'[g] = pc[g] /\ seen'[g] = seen[g] /\ user'[g] = user[g]
  BY DEF ReadLogin, Start, Goto, TypeRow, StateTypes
<1>2. UNCHANGED <<status, pv, access>>
  BY DEF ReadLogin, userVars
<1> QED
  BY <1>1, <1>2, ReadingSafe

LEMMA CommitEndSafe ==
  ASSUME NEW h \in Handlers, NEW step, NEW s \in Status, TypeRow, Safe, CommitEnd(h, step, s)
  PROVE  Safe'
<1>1. user[h] \in Users
  BY DEF TypeRow, StateTypes
<1>2. NoNewReading
  BY DEF NoNewReading, CommitEnd, End, Goto, TypeRow, StateTypes
<1>3. /\ access' = access
      /\ pv' = [pv EXCEPT ![user[h]] = @ + 1]
      /\ \A v \in Users : v # user[h] => status'[v] = status[v]
  BY DEF CommitEnd, TypeRow, StateTypes
<1> QED
  BY <1>1, <1>2, <1>3, BumpSafe

LEMMA UnbanSafe ==
  ASSUME NEW h \in Handlers, TypeRow, Safe, Unban(h)
  PROVE  Safe'
<1>1. user[h] \in Users
  BY DEF TypeRow, StateTypes
<1>2. NoNewReading
  BY DEF NoNewReading, Unban, End, Goto, TypeRow, StateTypes
<1>3. /\ access' = access
      /\ pv' = [pv EXCEPT ![user[h]] = @ + 1]
      /\ \A v \in Users : v # user[h] => status'[v] = status[v]
  BY DEF Unban, TypeRow, StateTypes
<1> QED
  BY <1>1, <1>2, <1>3, BumpSafe

LEMMA CommitVerifySafe ==
  ASSUME NEW h \in Handlers, TypeRow, Safe, CommitVerify(h)
  PROVE  Safe'
<1>1. user[h] \in Users
  BY DEF TypeRow, StateTypes
<1>2. NoNewReading
  BY DEF NoNewReading, CommitVerify, End, Goto, TypeRow, StateTypes
<1>3. /\ access' = access
      /\ pv' = [pv EXCEPT ![user[h]] = @ + 1]
      /\ \A v \in Users : v # user[h] => status'[v] = status[v]
  BY DEF CommitVerify, TypeRow, StateTypes
<1> QED
  BY <1>1, <1>2, <1>3, BumpSafe

LEMMA HandlerStepIInv ==
  ASSUME NEW h \in Handlers, TypeRow, Safe, HandlerStep(h)
  PROVE  TypeRow' /\ Safe'
<1>1. CASE Issue(h)
  BY <1>1, IssueType, IssueSafe
<1>2. CASE ReadOwner(h)
  BY <1>2, ReadOwnerType, ReadOwnerSafe
<1>3. CASE Rotate(h)
  <2>1. NoNewReading /\ UNCHANGED <<status, pv, access>>
    BY <1>3 DEF NoNewReading, Rotate, Goto, TypeRow, StateTypes, userVars
  <2> QED
    BY <1>3, <2>1, RotateType, QuietSafe
<1>4. CASE Burn(h)
  <2>1. NoNewReading /\ UNCHANGED <<status, pv, access>>
    BY <1>4 DEF NoNewReading, Burn, End, Goto, TypeRow, StateTypes, userVars
  <2> QED
    BY <1>4, <2>1, BurnType, QuietSafe
<1>5. CASE CommitReset(h)
  <2>1. NoNewReading /\ UNCHANGED <<status, pv, access>>
    BY <1>5 DEF NoNewReading, CommitReset, End, Goto, TypeRow, StateTypes
  <2> QED
    BY <1>5, <2>1, CommitResetType, QuietSafe
<1>6. CASE CommitVerify(h)
  BY <1>6, CommitVerifyType, CommitVerifySafe
<1>7. CASE Ban(h)
  BY <1>7, CommitEndType, CommitEndSafe DEF Ban, Status
<1>8. CASE Unban(h)
  BY <1>8, UnbanType, UnbanSafe
<1>9. CASE SoftDelete(h)
  BY <1>9, CommitEndType, CommitEndSafe DEF SoftDelete, Status
<1> QED
  BY <1>1, <1>2, <1>3, <1>4, <1>5, <1>6, <1>7, <1>8, <1>9 DEF HandlerStep

LEMMA HandlerStartIInv ==
  ASSUME NEW h \in Handlers, TypeRow, Safe, HandlerStart(h)
  PROVE  TypeRow' /\ Safe'
<1>1. ASSUME NEW u \in Users, ReadLogin(h, u)
      PROVE  TypeRow' /\ Safe'
  BY <1>1, ReadLoginType, ReadLoginSafe
<1>2. ASSUME NEW i, ReadToken(h, i)
      PROVE  TypeRow' /\ Safe'
  <2>1. NoNewReading /\ UNCHANGED <<status, pv, access>>
    BY <1>2 DEF NoNewReading, ReadToken, Start, Goto, TypeRow, StateTypes, userVars
  <2> QED
    BY <1>2, <2>1, ReadTokenType, QuietSafe
<1>3. ASSUME NEW m, ReadMail(h, m)
      PROVE  TypeRow' /\ Safe'
  <2>1. NoNewReading /\ UNCHANGED <<status, pv, access>>
    BY <1>3 DEF NoNewReading, ReadMail, Start, Goto, TypeRow, StateTypes, userVars
  <2> QED
    BY <1>3, <2>1, ReadMailType, QuietSafe
<1>4. ASSUME NEW u \in Users, NEW step \in {"ban", "unban", "delete"}, CheckMember(h, u, step)
      PROVE  TypeRow' /\ Safe'
  <2>1. NoNewReading /\ UNCHANGED <<status, pv, access>>
    BY <1>4 DEF NoNewReading, CheckMember, Start, Goto, TypeRow, StateTypes, userVars
  <2> QED
    BY <1>4, <2>1, CheckMemberType, QuietSafe
<1> QED
  BY <1>1, <1>2, <1>3, <1>4 DEF HandlerStart

LEMMA NextIInv == TypeRow /\ Safe /\ [Next]_vars => TypeRow' /\ Safe'
<1> SUFFICES ASSUME TypeRow, Safe, [Next]_vars
             PROVE  TypeRow' /\ Safe'
  OBVIOUS
<1>1. ASSUME NEW h \in Handlers, HandlerStart(h) \/ HandlerStep(h)
      PROVE  TypeRow' /\ Safe'
  BY <1>1, HandlerStartIInv, HandlerStepIInv
<1>2. ASSUME NEW i, TokenExpires(i)
      PROVE  TypeRow' /\ Safe'
  <2>1. NoNewReading /\ UNCHANGED <<status, pv, access>>
    BY <1>2 DEF NoNewReading, TokenExpires, userVars, handlerVars
  <2> QED
    BY <1>2, <2>1, TokenExpiresType, QuietSafe
<1>3. ASSUME NEW u \in Users, NEW kind \in {"EMAIL_VERIFY", "PASSWORD_RESET"}, SendMail(u, kind)
      PROVE  TypeRow' /\ Safe'
  <2>1. NoNewReading /\ UNCHANGED <<status, pv, access>>
    BY <1>3 DEF NoNewReading, SendMail, userVars, handlerVars
  <2> QED
    BY <1>3, <2>1, SendMailType, QuietSafe
<1>4. ASSUME NEW u \in Users, OnboardPassword(u)
      PROVE  TypeRow' /\ Safe'
  <2>1. NoNewReading /\ UNCHANGED <<status, pv, access>>
    BY <1>4 DEF NoNewReading, OnboardPassword, handlerVars
  <2> QED
    BY <1>4, <2>1, OnboardPasswordType, QuietSafe
<1>5. CASE UNCHANGED vars
  BY <1>5 DEF vars, userVars, handlerVars, TypeRow, StateTypes, RowOK,
              Safe, PastPv, SeenActive, NoAccessWhileInactive
<1> QED
  BY <1>1, <1>2, <1>3, <1>4, <1>5 DEF Next, Step

\* The inductive invariant holds: types, rows, and the pv that each access token
\* and each handler about to sign one carries.
THEOREM Invariant == Spec => []IInv
<1>1. Init => TypeRow /\ Safe /\ alone \in BOOLEAN
  BY InitTypeRow DEF Init, Safe, PastPv, SeenActive, NoAccessWhileInactive
<1>2. alone \in BOOLEAN /\ [Next]_vars => (alone \in BOOLEAN)'
  BY DEF Next, vars
<1>3. TypeRow /\ Safe /\ alone \in BOOLEAN => IInv
  BY DEF TypeRow, TypeOK, Safe, IInv
<1> QED
  BY <1>1, <1>2, <1>3, NextIInv, PTL DEF Spec

\* An access token of a user who is not ACTIVE is out of date, however logins,
\* refreshes, suspensions and deletions interleave: AuthGuard's comparison of pv
\* is enough to refuse it.
THEOREM AccessIsCut == Spec => []NoAccessWhileInactive
<1>1. IInv => NoAccessWhileInactive
  BY DEF IInv
<1> QED
  BY <1>1, Invariant, PTL

\* Every variable of Sessions has its type in every reachable state.
THEOREM TypeCorrect == Spec => []TypeOK
<1>1. IInv => TypeOK
  BY DEF IInv
<1> QED
  BY <1>1, Invariant, PTL

-----------------------------------------------------------------------------
(* Families                                                                *)

InRotation(g) == pc[g] \in {"owner", "rotate", "issue"} /\ row[g] # NoRow

\* What a step may do to the rows of a family.
FamiliesStay ==
  /\ DOMAIN tokens \subseteq DOMAIN tokens'
  /\ \A i \in DOMAIN tokens :
       /\ tokens'[i].family = tokens[i].family
       /\ tokens'[i].state = "live" => tokens[i].state = "live"

LEMMA DeadKept ==
  ASSUME NEW f, Dead(f), FamiliesStay,
         \A i \in DOMAIN tokens' \ DOMAIN tokens : tokens'[i].family # f,
         \A g \in Handlers : InRotation(g)' => row'[g] \in DOMAIN tokens /\ tokens[row'[g]].family # f
  PROVE  Dead(f)'
<1>1. \E i \in DOMAIN tokens' : tokens'[i].family = f
  BY DEF Dead, FamiliesStay
<1>2. \A i \in DOMAIN tokens' : tokens'[i].family = f => tokens'[i].state # "live"
  BY DEF Dead, FamiliesStay
<1>3. \A g \in Handlers : pc'[g] \in {"owner", "rotate", "issue"} /\ row'[g] # NoRow
                            => tokens'[row'[g]].family # f
  BY DEF Dead, FamiliesStay, InRotation
<1> QED
  BY <1>1, <1>2, <1>3 DEF Dead

\* No request that was not rotating a token comes to rotate one.
LEMMA OthersRotate ==
  ASSUME TypeRow, NEW f, Dead(f),
         \A g \in Handlers : InRotation(g)' => InRotation(g) /\ row'[g] = row[g]
  PROVE  \A g \in Handlers : InRotation(g)' => row'[g] \in DOMAIN tokens /\ tokens[row'[g]].family # f
  BY DEF TypeRow, RowOK, InRotation, Dead

LEMMA SameRows ==
  ASSUME tokens' = tokens
  PROVE  FamiliesStay /\ DOMAIN tokens' \ DOMAIN tokens = {}
  BY DEF FamiliesStay

LEMMA RevokeAllStay ==
  ASSUME NEW u \in Users, TypeRow, tokens' = RevokeAllSessions(u)
  PROVE  FamiliesStay /\ DOMAIN tokens' \ DOMAIN tokens = {}
<1>1. \A i \in DOMAIN tokens : tokens[i] \in Token
  BY DEF TypeRow, StateTypes
<1>2. \A i \in DOMAIN tokens : tokens'[i].family = tokens[i].family /\
                               (tokens'[i].state = "live" => tokens[i].state = "live")
  BY <1>1 DEF RevokeAllSessions, Revoke, Token
<1> QED
  BY <1>2 DEF FamiliesStay, RevokeAllSessions

LEMMA RevokeFamilyStay ==
  ASSUME NEW f, TypeRow, tokens' = RevokeFamily(f)
  PROVE  FamiliesStay /\ DOMAIN tokens' \ DOMAIN tokens = {}
<1>1. \A i \in DOMAIN tokens : tokens[i] \in Token
  BY DEF TypeRow, StateTypes
<1>2. \A i \in DOMAIN tokens : tokens'[i].family = tokens[i].family /\
                               (tokens'[i].state = "live" => tokens[i].state = "live")
  BY <1>1 DEF RevokeFamily, Revoke, Token
<1> QED
  BY <1>2 DEF FamiliesStay, RevokeFamily

LEMMA SetStateStay ==
  ASSUME NEW i, NEW s \in {"revoked", "expired"}, TypeRow, tokens' = [tokens EXCEPT ![i].state = s]
  PROVE  FamiliesStay /\ DOMAIN tokens' \ DOMAIN tokens = {}
<1>1. \A j \in DOMAIN tokens : tokens[j] \in Token
  BY DEF TypeRow, StateTypes
<1>2. \A j \in DOMAIN tokens : tokens'[j].family = tokens[j].family /\
                               (tokens'[j].state = "live" => tokens[j].state = "live")
  BY <1>1 DEF Token
<1> QED
  BY <1>2 DEF FamiliesStay

LEMMA DeadHandlerStep ==
  ASSUME NEW h \in Handlers, TypeRow, HandlerStep(h), NEW f \in DOMAIN tokens, Dead(f)
  PROVE  Dead(f)'
<1>1. CASE Issue(h)
  <2> DEFINE t == [user |-> user[h],
                   family |-> IF row[h] = NoRow THEN Len(tokens) + 1 ELSE tokens[row[h]].family,
                   state |-> "live", since |-> seen[h].since]
  <2>1. tokens \in Seq(Token) /\ tokens' = Append(tokens, t)
    BY <1>1 DEF Issue, TypeRow, StateTypes
  <2>2. t.family # f
    <3>1. CASE row[h] = NoRow
      BY <2>1, <3>1
    <3>2. CASE row[h] # NoRow
      BY <1>1, <3>2 DEF Issue, Dead
    <3> QED
      BY <3>1, <3>2
  <2> HIDE DEF t
  <2>3. FamiliesStay
    BY <2>1 DEF FamiliesStay
  <2>4. \A i \in DOMAIN tokens' \ DOMAIN tokens : tokens'[i].family # f
    BY <2>1, <2>2
  <2>5. \A g \in Handlers : InRotation(g)' => InRotation(g) /\ row'[g] = row[g]
    BY <1>1 DEF Issue, End, Goto, InRotation, TypeRow, StateTypes
  <2> QED
    BY <2>3, <2>4, <2>5, OthersRotate, DeadKept
<1>2. CASE ReadOwner(h)
  <2>1. tokens' = tokens
    BY <1>2 DEF ReadOwner
  <2>2. \A g \in Handlers : InRotation(g)' => InRotation(g) /\ row'[g] = row[g]
    BY <1>2 DEF ReadOwner, End, Goto, InRotation, TypeRow, StateTypes
  <2> QED
    BY <2>1, <2>2, SameRows, OthersRotate, DeadKept
<1>3. CASE Rotate(h)
  <2>1. FamiliesStay /\ DOMAIN tokens' \ DOMAIN tokens = {}
    BY <1>3, SetStateStay DEF Rotate
  <2>2. \A g \in Handlers : InRotation(g)' => InRotation(g) /\ row'[g] = row[g]
    BY <1>3 DEF Rotate, Goto, InRotation, TypeRow, StateTypes
  <2> QED
    BY <2>1, <2>2, OthersRotate, DeadKept
<1>4. CASE Burn(h)
  <2>1. FamiliesStay /\ DOMAIN tokens' \ DOMAIN tokens = {}
    BY <1>4, RevokeFamilyStay DEF Burn
  <2>2. \A g \in Handlers : InRotation(g)' => InRotation(g) /\ row'[g] = row[g]
    BY <1>4 DEF Burn, End, Goto, InRotation, TypeRow, StateTypes
  <2> QED
    BY <2>1, <2>2, OthersRotate, DeadKept
<1>5. ASSUME CommitReset(h) \/ CommitVerify(h) \/ Ban(h) \/ Unban(h) \/ SoftDelete(h)
      PROVE  Dead(f)'
  <2>1. tokens' = tokens \/ tokens' = RevokeAllSessions(user[h])
    BY <1>5 DEF CommitReset, CommitVerify, Ban, SoftDelete, CommitEnd, Unban
  <2>2. FamiliesStay /\ DOMAIN tokens' \ DOMAIN tokens = {}
    BY <2>1, SameRows, RevokeAllStay DEF TypeRow, StateTypes
  <2>3. End(h)
    BY <1>5 DEF CommitReset, CommitVerify, Ban, SoftDelete, CommitEnd, Unban
  <2>4. \A g \in Handlers : InRotation(g)' => InRotation(g) /\ row'[g] = row[g]
    BY <2>3 DEF End, Goto, InRotation, TypeRow, StateTypes
  <2> QED
    BY <2>2, <2>4, OthersRotate, DeadKept
<1> QED
  BY <1>1, <1>2, <1>3, <1>4, <1>5 DEF HandlerStep

LEMMA DeadHandlerStart ==
  ASSUME NEW h \in Handlers, TypeRow, HandlerStart(h), NEW f \in DOMAIN tokens, Dead(f)
  PROVE  Dead(f)'
<1>1. ASSUME NEW u \in Users, ReadLogin(h, u)
      PROVE  Dead(f)'
  <2>1. tokens' = tokens
    BY <1>1 DEF ReadLogin
  <2>2. \A g \in Handlers : InRotation(g)' => InRotation(g) /\ row'[g] = row[g]
    BY <1>1 DEF ReadLogin, Start, Goto, InRotation, TypeRow, StateTypes, RowOK
  <2> QED
    BY <2>1, <2>2, SameRows, OthersRotate, DeadKept
<1>2. ASSUME NEW i, ReadToken(h, i)
      PROVE  Dead(f)'
  <2>1. tokens' = tokens
    BY <1>2 DEF ReadToken
  <2>2. \A g \in Handlers : g # h /\ InRotation(g)' => InRotation(g) /\ row'[g] = row[g]
    BY <1>2 DEF ReadToken, Start, Goto, InRotation, TypeRow, StateTypes
  <2>3. InRotation(h)' => row'[h] = i /\ i \in DOMAIN tokens /\ tokens[i].state = "live"
    BY <1>2 DEF ReadToken, Start, Goto, InRotation, TypeRow, StateTypes
  <2>4. \A g \in Handlers : InRotation(g)' => row'[g] \in DOMAIN tokens /\ tokens[row'[g]].family # f
    BY <2>2, <2>3 DEF Dead, InRotation, TypeRow, RowOK
  <2> QED
    BY <2>1, <2>4, SameRows, DeadKept
<1>3. ASSUME NEW m, ReadMail(h, m)
      PROVE  Dead(f)'
  <2>1. tokens' = tokens
    BY <1>3 DEF ReadMail
  <2>2. \A g \in Handlers : InRotation(g)' => InRotation(g) /\ row'[g] = row[g]
    BY <1>3 DEF ReadMail, Start, Goto, InRotation, TypeRow, StateTypes
  <2> QED
    BY <2>1, <2>2, SameRows, OthersRotate, DeadKept
<1>4. ASSUME NEW u \in Users, NEW step \in {"ban", "unban", "delete"}, CheckMember(h, u, step)
      PROVE  Dead(f)'
  <2>1. tokens' = tokens
    BY <1>4 DEF CheckMember
  <2>2. \A g \in Handlers : InRotation(g)' => InRotation(g) /\ row'[g] = row[g]
    BY <1>4 DEF CheckMember, Start, Goto, InRotation, TypeRow, StateTypes
  <2> QED
    BY <2>1, <2>2, SameRows, OthersRotate, DeadKept
<1> QED
  BY <1>1, <1>2, <1>3, <1>4 DEF HandlerStart

LEMMA DeadStep ==
  ASSUME TypeRow, [Next]_vars, NEW f \in DOMAIN tokens, Dead(f)
  PROVE  Dead(f)'
<1>1. ASSUME NEW h \in Handlers, HandlerStart(h) \/ HandlerStep(h)
      PROVE  Dead(f)'
  BY <1>1, DeadHandlerStart, DeadHandlerStep
<1>2. ASSUME NEW i, TokenExpires(i)
      PROVE  Dead(f)'
  <2>1. FamiliesStay /\ DOMAIN tokens' \ DOMAIN tokens = {}
    BY <1>2, SetStateStay DEF TokenExpires
  <2>2. \A g \in Handlers : InRotation(g)' => InRotation(g) /\ row'[g] = row[g]
    BY <1>2 DEF TokenExpires, handlerVars, InRotation
  <2> QED
    BY <2>1, <2>2, OthersRotate, DeadKept
<1>3. ASSUME UNCHANGED <<tokens, handlerVars>>
      PROVE  Dead(f)'
  BY <1>3 DEF handlerVars, Dead
<1> QED
  BY <1>1, <1>2, <1>3 DEF Next, Step, vars, SendMail, OnboardPassword

\* A family that is dead stays dead: no refresh, login or cut brings a token of it back
\* to life, however requests overlap.
THEOREM DeadStaysDead == Spec => DeadFamilyStaysDead
<1>1. IInv => TypeRow
  BY DEF IInv, TypeOK, TypeRow
<1>2. TypeRow /\ [Next]_vars => [\A f \in DOMAIN tokens : Dead(f) => Dead(f)']_vars
  BY DeadStep
<1> QED
  BY <1>1, <1>2, Invariant, PTL DEF Spec, DeadFamilyStaysDead

-----------------------------------------------------------------------------
(* Requests that come one at a time: what a cut of sessions cuts           *)

Working(h) == pc[h] # "idle"
OneRequest == \A g, h \in Handlers : Working(g) /\ Working(h) => g = h

\* A family is named after a row there is; a reset is one of the changes of a password.
RowsNamed == \A i \in DOMAIN tokens : tokens[i].family \in DOMAIN tokens
ResetPast == \A u \in Users : resetAt[u] <= password[u]

\* The properties of the rows, without their condition.
RowsHold ==
  /\ \A i, j \in DOMAIN tokens :
       (i # j /\ tokens[i].family = tokens[j].family)
         => ~(tokens[i].state = "live" /\ tokens[j].state = "live")
  /\ \A i \in DOMAIN tokens : tokens[i].state = "live" =>
       /\ status[tokens[i].user] = "ACTIVE"
       /\ tokens[i].since >= resetAt[tokens[i].user]

OnlyTheRow(h) ==
  \A i \in DOMAIN tokens :
    tokens[i].family = tokens[row[h]].family /\ tokens[i].state = "live" => i = row[h]

NoneOfFamily(h) ==
  \A i \in DOMAIN tokens :
    tokens[i].family = tokens[row[h]].family => tokens[i].state # "live"

\* What a request that is about to issue has found is still so.
Found(h) ==
  /\ pc[h] \in {"owner", "rotate"} =>
       OnlyTheRow(h) /\ tokens[row[h]].since >= resetAt[user[h]]
  /\ pc[h] = "issue" /\ row[h] # NoRow => NoneOfFamily(h)
  /\ pc[h] \in {"rotate", "issue"} =>
       status[user[h]] = "ACTIVE" /\ seen[h].since >= resetAt[user[h]]

Rows == OneRequest /\ RowsHold /\ \A h \in Handlers : Found(h)

CInv == RowsNamed /\ ResetPast /\ (alone => Rows)

\* What a step does to the rows that were there; nothing comes to life.
RowsStay ==
  /\ DOMAIN tokens' = DOMAIN tokens
  /\ \A i \in DOMAIN tokens :
       /\ tokens'[i].family = tokens[i].family
       /\ tokens'[i].user = tokens[i].user
       /\ tokens'[i].since = tokens[i].since
       /\ tokens'[i].state = "live" => tokens[i].state = "live"

LEMMA RowTypes ==
  ASSUME TypeRow
  PROVE  \A i \in DOMAIN tokens :
           /\ tokens[i] \in Token /\ tokens[i].user \in Users
           /\ tokens[i].family \in Nat /\ tokens[i].since \in Nat
<1>1. \A i \in DOMAIN tokens : tokens[i] \in Token
  BY DEF TypeRow, StateTypes
<1> QED
  BY <1>1 DEF Token

LEMMA RevokeAllRows ==
  ASSUME NEW u \in Users, TypeRow, tokens' = RevokeAllSessions(u)
  PROVE  RowsStay /\ \A i \in DOMAIN tokens : tokens'[i].state = "live" => tokens[i].user # u
<1>1. \A i \in DOMAIN tokens : tokens[i] \in Token
  BY RowTypes
<1> QED
  BY <1>1 DEF RowsStay, RevokeAllSessions, Revoke, Token

LEMMA RevokeFamilyRows ==
  ASSUME NEW f, TypeRow, tokens' = RevokeFamily(f)
  PROVE  RowsStay
<1>1. \A i \in DOMAIN tokens : tokens[i] \in Token
  BY RowTypes
<1> QED
  BY <1>1 DEF RowsStay, RevokeFamily, Revoke, Token

LEMMA SetStateRows ==
  ASSUME NEW i \in DOMAIN tokens, NEW s \in {"revoked", "expired"}, TypeRow,
         tokens' = [tokens EXCEPT ![i].state = s]
  PROVE  RowsStay /\ tokens'[i].state = s
<1>1. \A j \in DOMAIN tokens : tokens[j] \in Token
  BY RowTypes
<1> QED
  BY <1>1 DEF RowsStay, Token

LEMMA NamesKept ==
  ASSUME RowsNamed, RowsStay
  PROVE  RowsNamed'
  BY DEF RowsNamed, RowsStay

LEMMA RowsKept ==
  ASSUME RowsHold, RowsStay,
         \A i \in DOMAIN tokens : tokens'[i].state = "live" =>
           status'[tokens[i].user] = "ACTIVE" /\ resetAt'[tokens[i].user] = resetAt[tokens[i].user]
  PROVE  RowsHold'
  BY DEF RowsHold, RowsStay

\* The request that steps is the only one there is.
LEMMA OthersIdle ==
  ASSUME TypeRow, OneRequest, NEW h \in Handlers, Working(h), NEW step, pc' = [pc EXCEPT ![h] = step]
  PROVE  OneRequest' /\ \A g \in Handlers : g # h => Found(g)'
<1>1. \A g \in Handlers : g # h => pc'[g] = "idle"
  BY DEF TypeRow, StateTypes, OneRequest, Working
<1> QED
  BY <1>1 DEF OneRequest, Working, Found

\* A request that ends leaves nothing behind that could go out of date.
LEMMA Ended ==
  ASSUME TypeRow, OneRequest, NEW h \in Handlers, Working(h), End(h)
  PROVE  OneRequest' /\ \A g \in Handlers : Found(g)'
<1>1. pc' = [pc EXCEPT ![h] = "idle"] /\ pc'[h] = "idle"
  BY DEF End, Goto, TypeRow, StateTypes
<1>2. Found(h)'
  BY <1>1 DEF Found
<1> QED
  BY <1>1, <1>2, OthersIdle

\* A request that starts is the only one, and so is one that waits for nobody.
LEMMA Started ==
  ASSUME TypeRow, alone, NEW h \in Handlers, NEW u, NEW step, Start(h, u, step)
  PROVE  /\ OneRequest' /\ \A g \in Handlers : g # h => Found(g)'
         /\ pc'[h] = step /\ user'[h] = u
<1>1. \A g \in Handlers : g # h => pc'[g] = "idle"
  BY DEF Start, Goto, TypeRow, StateTypes
<1>2. pc'[h] = step /\ user'[h] = u
  BY DEF Start, Goto, TypeRow, StateTypes
<1> QED
  BY <1>1, <1>2 DEF OneRequest, Working, Found

-----------------------------------------------------------------------------
(* The steps of a request.                                                 *)

LEMMA IssueNames ==
  ASSUME NEW h \in Handlers, TypeRow, CInv, Issue(h)
  PROVE  RowsNamed' /\ ResetPast'
<1> DEFINE t == [user |-> user[h],
                 family |-> IF row[h] = NoRow THEN Len(tokens) + 1 ELSE tokens[row[h]].family,
                 state |-> "live", since |-> seen[h].since]
<1>1. tokens \in Seq(Token) /\ tokens' = Append(tokens, t)
  BY DEF Issue, TypeRow, StateTypes
<1>2. t.family \in DOMAIN tokens \cup {Len(tokens) + 1}
  <2>1. CASE row[h] = NoRow
    BY <2>1
  <2>2. CASE row[h] # NoRow
    BY <2>2 DEF Issue, TypeRow, RowOK, CInv, RowsNamed
  <2> QED
    BY <2>1, <2>2
<1> HIDE DEF t
<1>3. DOMAIN tokens' = DOMAIN tokens \cup {Len(tokens) + 1}
  BY <1>1
<1>4. \A i \in DOMAIN tokens : tokens'[i] = tokens[i]
  BY <1>1
<1>5. tokens'[Len(tokens) + 1] = t
  BY <1>1
<1>6. RowsNamed'
  BY <1>2, <1>3, <1>4, <1>5 DEF CInv, RowsNamed
<1>7. ResetPast'
  BY DEF Issue, userVars, CInv, ResetPast
<1> QED
  BY <1>6, <1>7

LEMMA IssueRows ==
  ASSUME NEW h \in Handlers, TypeRow, CInv, alone, Issue(h)
  PROVE  Rows'
<1> DEFINE n == Len(tokens) + 1
           t == [user |-> user[h],
                 family |-> IF row[h] = NoRow THEN n ELSE tokens[row[h]].family,
                 state |-> "live", since |-> seen[h].since]
<1>1. tokens \in Seq(Token) /\ tokens' = Append(tokens, t)
  BY DEF Issue, TypeRow, StateTypes
<1>2. /\ DOMAIN tokens' = DOMAIN tokens \cup {n} /\ n \notin DOMAIN tokens
      /\ tokens'[n] = t /\ \A i \in DOMAIN tokens : tokens'[i] = tokens[i]
  <2> HIDE DEF t
  <2> QED
    BY <1>1
<1>3. Rows /\ RowsHold /\ Found(h) /\ pc[h] = "issue" /\ End(h)
  BY DEF CInv, Rows, Issue
<1>4. status' = status /\ resetAt' = resetAt
  BY DEF Issue, userVars
<1>5. t.user = user[h] /\ t.since = seen[h].since
  OBVIOUS
<1>6. status[t.user] = "ACTIVE" /\ t.since >= resetAt[t.user]
  BY <1>3, <1>5 DEF Found
<1>7. \A i \in DOMAIN tokens : tokens[i].family = t.family => tokens[i].state # "live"
  <2>1. CASE row[h] = NoRow
    BY <1>2, <2>1 DEF CInv, RowsNamed
  <2>2. CASE row[h] # NoRow
    BY <1>3, <2>2 DEF Found, NoneOfFamily
  <2> QED
    BY <2>1, <2>2
<1>8. RowsHold'
  <2> HIDE DEF t, n
  <2> QED
    BY <1>2, <1>3, <1>4, <1>6, <1>7 DEF RowsHold
<1>9. OneRequest' /\ \A g \in Handlers : Found(g)'
  BY <1>3, Ended DEF Rows, Working
<1> QED
  BY <1>8, <1>9 DEF Rows

LEMMA ReadOwnerRows ==
  ASSUME NEW h \in Handlers, TypeRow, CInv, alone, ReadOwner(h)
  PROVE  Rows'
<1>1. Rows /\ RowsHold /\ Found(h) /\ pc[h] = "owner" /\ Working(h)
  BY DEF CInv, Rows, ReadOwner, Working
<1>2. UNCHANGED <<tokens, status, resetAt>>
  BY DEF ReadOwner, userVars
<1>3. RowsHold'
  BY <1>1, <1>2 DEF RowsHold
<1>4. CASE End(h)
  BY <1>1, <1>3, <1>4, Ended DEF Rows
<1>5. ASSUME Goto(h, "rotate"), status[user[h]] = "ACTIVE", UNCHANGED <<user, row>>,
             seen' = [seen EXCEPT ![h] = [pv |-> pv[user[h]], since |-> tokens[row[h]].since]]
      PROVE  Rows'
  <2>1. pc'[h] = "rotate" /\ seen'[h].since = tokens[row[h]].since
    BY <1>5 DEF Goto, TypeRow, StateTypes
  <2>2. Found(h)'
    BY <1>1, <1>2, <1>5, <2>1 DEF Found, OnlyTheRow
  <2>3. OneRequest' /\ \A g \in Handlers : g # h => Found(g)'
    BY <1>1, <1>5, OthersIdle DEF Goto, Rows
  <2> QED
    BY <1>3, <2>2, <2>3 DEF Rows
<1>6. CASE Goto(h, "burn")
  <2>1. pc'[h] = "burn"
    BY <1>6 DEF Goto, TypeRow, StateTypes
  <2>2. Found(h)'
    BY <2>1 DEF Found
  <2>3. OneRequest' /\ \A g \in Handlers : g # h => Found(g)'
    BY <1>1, <1>6, OthersIdle DEF Goto, Rows
  <2> QED
    BY <1>3, <2>2, <2>3 DEF Rows
<1> QED
  BY <1>4, <1>5, <1>6 DEF ReadOwner

LEMMA RotateRows ==
  ASSUME NEW h \in Handlers, TypeRow, CInv, alone, Rotate(h)
  PROVE  Rows'
<1>1. Rows /\ RowsHold /\ Found(h) /\ pc[h] = "rotate" /\ Working(h)
  BY DEF CInv, Rows, Rotate, Working
<1>2. row[h] \in DOMAIN tokens
  BY <1>1 DEF TypeRow, RowOK
<1>3. RowsStay /\ tokens'[row[h]].state = "revoked"
  BY <1>2, SetStateRows DEF Rotate
<1>4. UNCHANGED <<status, resetAt, user, row, seen>>
  BY DEF Rotate, userVars
<1>5. RowsHold'
  <2>1. \A i \in DOMAIN tokens : tokens'[i].state = "live" =>
          status'[tokens[i].user] = "ACTIVE" /\ resetAt'[tokens[i].user] = resetAt[tokens[i].user]
    BY <1>1, <1>3, <1>4 DEF RowsHold, RowsStay
  <2> QED
    BY <1>1, <1>3, <2>1, RowsKept
<1>6. NoneOfFamily(h)'
  BY <1>1, <1>2, <1>3, <1>4 DEF Found, OnlyTheRow, NoneOfFamily, RowsStay
<1>7. pc'[h] = "issue"
  BY DEF Rotate, Goto, TypeRow, StateTypes
<1>8. Found(h)'
  BY <1>1, <1>4, <1>6, <1>7 DEF Found
<1>9. OneRequest' /\ \A g \in Handlers : g # h => Found(g)'
  BY <1>1, OthersIdle DEF Rotate, Goto, Rows
<1> QED
  BY <1>5, <1>8, <1>9 DEF Rows

\* A step that ends a request and, if it takes somebody's standing or resets his
\* password, revokes all he has.
LEMMA EndRows ==
  ASSUME NEW h \in Handlers, TypeRow, CInv, alone, Working(h), End(h), RowsStay,
         \A i \in DOMAIN tokens : tokens'[i].state = "live" =>
           /\ status[tokens[i].user] = "ACTIVE" => status'[tokens[i].user] = "ACTIVE"
           /\ resetAt'[tokens[i].user] = resetAt[tokens[i].user]
  PROVE  Rows'
<1>1. RowsHold'
  <2>1. RowsHold
    BY DEF CInv, Rows
  <2>2. \A i \in DOMAIN tokens : tokens'[i].state = "live" =>
          status'[tokens[i].user] = "ACTIVE" /\ resetAt'[tokens[i].user] = resetAt[tokens[i].user]
    BY <2>1 DEF RowsHold, RowsStay
  <2> QED
    BY <2>1, <2>2, RowsKept
<1>2. OneRequest' /\ \A g \in Handlers : Found(g)'
  BY Ended DEF CInv, Rows
<1> QED
  BY <1>1, <1>2 DEF Rows

LEMMA StepNames ==
  ASSUME NEW h \in Handlers, TypeRow, CInv, HandlerStep(h)
  PROVE  RowsNamed' /\ ResetPast'
<1>1. CASE Issue(h)
  BY <1>1, IssueNames
<1>2. CASE ReadOwner(h)
  BY <1>2 DEF ReadOwner, userVars, CInv, RowsNamed, ResetPast
<1>3. CASE Rotate(h)
  <2>1. RowsStay
    BY <1>3, SetStateRows DEF Rotate, TypeRow, RowOK
  <2> QED
    BY <1>3, <2>1, NamesKept DEF Rotate, userVars, CInv, ResetPast
<1>4. CASE Burn(h)
  BY <1>4, RevokeFamilyRows, NamesKept DEF Burn, userVars, CInv, ResetPast
<1>5. CASE CommitReset(h)
  <2>1. RowsStay
    BY <1>5, RevokeAllRows DEF CommitReset, TypeRow, StateTypes
  <2>2. ResetPast'
    BY <1>5 DEF CommitReset, CInv, ResetPast, TypeRow, StateTypes
  <2> QED
    BY <2>1, <2>2, NamesKept DEF CInv
<1>6. CASE CommitVerify(h) \/ Unban(h)
  BY <1>6 DEF CommitVerify, Unban, CInv, RowsNamed, ResetPast
<1>7. CASE Ban(h) \/ SoftDelete(h)
  <2>1. RowsStay
    BY <1>7, RevokeAllRows DEF Ban, SoftDelete, CommitEnd, TypeRow, StateTypes
  <2> QED
    BY <1>7, <2>1, NamesKept DEF Ban, SoftDelete, CommitEnd, CInv, ResetPast
<1> QED
  BY <1>1, <1>2, <1>3, <1>4, <1>5, <1>6, <1>7 DEF HandlerStep

LEMMA StepRows ==
  ASSUME NEW h \in Handlers, TypeRow, CInv, alone, HandlerStep(h)
  PROVE  Rows'
<1> user[h] \in Users
  BY DEF TypeRow, StateTypes
<1>1. CASE Issue(h)
  BY <1>1, IssueRows
<1>2. CASE ReadOwner(h)
  BY <1>2, ReadOwnerRows
<1>3. CASE Rotate(h)
  BY <1>3, RotateRows
<1>4. CASE Burn(h)
  BY <1>4, RevokeFamilyRows, EndRows DEF Burn, Working, userVars
<1>5. CASE CommitReset(h)
  <2>1. RowsStay /\ \A i \in DOMAIN tokens : tokens'[i].state = "live" => tokens[i].user # user[h]
    BY <1>5, RevokeAllRows DEF CommitReset
  <2>2. \A i \in DOMAIN tokens : tokens'[i].state = "live" =>
          resetAt'[tokens[i].user] = resetAt[tokens[i].user] /\ status' = status
    BY <1>5, <2>1, RowTypes DEF CommitReset, TypeRow, StateTypes
  <2> QED
    BY <1>5, <2>1, <2>2, EndRows DEF CommitReset, Working
<1>6. CASE CommitVerify(h) \/ Unban(h)
  <2>1. tokens' = tokens /\ resetAt' = resetAt /\ Working(h) /\ End(h)
    BY <1>6 DEF CommitVerify, Unban, Working
  <2>2. status' = [status EXCEPT ![user[h]] = "ACTIVE"]
    BY <1>6 DEF CommitVerify, Unban
  <2>3. \A u \in Users : status[u] = "ACTIVE" => status'[u] = "ACTIVE"
    BY <2>2 DEF TypeRow, StateTypes
  <2>4. RowsStay
    BY <2>1 DEF RowsStay
  <2> QED
    BY <2>1, <2>3, <2>4, RowTypes, EndRows
<1>7. CASE Ban(h) \/ SoftDelete(h)
  <2>1. tokens' = RevokeAllSessions(user[h]) /\ resetAt' = resetAt /\ Working(h) /\ End(h)
    BY <1>7 DEF Ban, SoftDelete, CommitEnd, Working
  <2>2. \A u \in Users : u # user[h] => status'[u] = status[u]
    BY <1>7 DEF Ban, SoftDelete, CommitEnd, TypeRow, StateTypes
  <2>3. RowsStay /\ \A i \in DOMAIN tokens : tokens'[i].state = "live" => tokens[i].user # user[h]
    BY <2>1, RevokeAllRows
  <2> QED
    BY <2>1, <2>2, <2>3, RowTypes, EndRows
<1> QED
  BY <1>1, <1>2, <1>3, <1>4, <1>5, <1>6, <1>7 DEF HandlerStep

\* A request that only reads and starts.
LEMMA StartRows ==
  ASSUME TypeRow, CInv, alone, NEW h \in Handlers, NEW u, NEW step, Start(h, u, step),
         UNCHANGED <<tokens, status, resetAt>>, Found(h)'
  PROVE  Rows'
<1>1. RowsHold'
  BY DEF CInv, Rows, RowsHold
<1> QED
  BY <1>1, Started DEF Rows

LEMMA HandlerStartRows ==
  ASSUME NEW h \in Handlers, TypeRow, CInv, alone, HandlerStart(h)
  PROVE  Rows'
<1>1. ASSUME NEW u \in Users, ReadLogin(h, u)
      PROVE  Rows'
  <2>1. Start(h, u, "issue") /\ UNCHANGED <<tokens, status, resetAt>>
    BY <1>1 DEF ReadLogin, userVars
  <2>2. pc'[h] = "issue" /\ user'[h] = u
    BY <2>1, Started
  <2>3. row'[h] = NoRow
    BY <1>1 DEF ReadLogin, Start, TypeRow, RowOK
  <2>4. seen'[h].since = password[u] /\ status[u] = "ACTIVE"
    BY <1>1 DEF ReadLogin, TypeRow, StateTypes
  <2>5. password[u] >= resetAt[u]
    BY DEF CInv, ResetPast, TypeRow, StateTypes
  <2>6. Found(h)'
    BY <2>1, <2>2, <2>3, <2>4, <2>5 DEF Found
  <2> QED
    BY <2>1, <2>6, StartRows
<1>2. ASSUME NEW i, ReadToken(h, i)
      PROVE  Rows'
  <2> DEFINE step == IF tokens[i].state = "live" THEN "owner" ELSE "burn"
  <2>1. Start(h, tokens[i].user, step) /\ UNCHANGED <<tokens, status, resetAt>> /\ i \in DOMAIN tokens
    BY <1>2 DEF ReadToken, userVars
  <2>2. pc'[h] = step /\ user'[h] = tokens[i].user
    <3> HIDE DEF step
    <3> QED
      BY <2>1, Started
  <2>3. row'[h] = i
    BY <1>2 DEF ReadToken, TypeRow, StateTypes
  <2>4. tokens[i].state = "live" => OnlyTheRow(h)' /\ tokens[i].since >= resetAt[tokens[i].user]
    BY <2>1, <2>3 DEF CInv, Rows, RowsHold, OnlyTheRow
  <2>5. Found(h)'
    BY <2>1, <2>2, <2>3, <2>4 DEF Found
  <2> HIDE DEF step
  <2> QED
    BY <2>1, <2>5, StartRows
<1>3. ASSUME NEW m, ReadMail(h, m)
      PROVE  Rows'
  <2> DEFINE step == IF mails[m].kind = "PASSWORD_RESET" THEN "reset" ELSE "verify"
  <2>1. Start(h, mails[m].user, step) /\ UNCHANGED <<tokens, status, resetAt>>
    BY <1>3 DEF ReadMail, userVars
  <2>2. pc'[h] = step
    <3> HIDE DEF step
    <3> QED
      BY <2>1, Started
  <2>3. Found(h)'
    BY <2>2 DEF Found
  <2> HIDE DEF step
  <2> QED
    BY <2>1, <2>3, StartRows
<1>4. ASSUME NEW u \in Users, NEW step \in {"ban", "unban", "delete"}, CheckMember(h, u, step)
      PROVE  Rows'
  <2>1. Start(h, u, step) /\ UNCHANGED <<tokens, status, resetAt>>
    BY <1>4 DEF CheckMember, userVars
  <2>2. pc'[h] = step
    BY <2>1, Started
  <2>3. Found(h)'
    BY <2>2 DEF Found
  <2> QED
    BY <2>1, <2>3, StartRows
<1> QED
  BY <1>1, <1>2, <1>3, <1>4 DEF HandlerStart

LEMMA HandlerStartNames ==
  ASSUME NEW h \in Handlers, CInv, HandlerStart(h)
  PROVE  RowsNamed' /\ ResetPast'
<1>1. UNCHANGED <<tokens, password, resetAt>>
  BY DEF HandlerStart, ReadLogin, ReadToken, ReadMail, CheckMember, userVars
<1> QED
  BY <1>1 DEF CInv, RowsNamed, ResetPast

\* A token that expires is one less that is live.
LEMMA ExpiryKeeps ==
  ASSUME TypeRow, CInv, NEW i, TokenExpires(i)
  PROVE  RowsNamed' /\ ResetPast' /\ (alone => Rows')
<1>1. RowsStay
  BY SetStateRows DEF TokenExpires
<1>2. UNCHANGED <<status, password, resetAt, pc, user, row, seen>>
  BY DEF TokenExpires, userVars, handlerVars
<1>3. RowsNamed' /\ ResetPast'
  BY <1>1, <1>2, NamesKept DEF CInv, ResetPast
<1>4. ASSUME alone
      PROVE  Rows'
  <2>1. RowsHold'
    BY <1>1, <1>2, <1>4 DEF CInv, Rows, RowsHold, RowsStay
  <2>2. OneRequest'
    BY <1>2, <1>4 DEF CInv, Rows, OneRequest, Working
  <2>3. ASSUME NEW h \in Handlers
        PROVE  Found(h)'
    <3>1. Found(h)
      BY <1>4 DEF CInv, Rows
    <3>2. pc[h] \in {"owner", "rotate"} => row[h] \in DOMAIN tokens
      BY DEF TypeRow, RowOK
    <3>3. pc[h] = "issue" /\ row[h] # NoRow => row[h] \in DOMAIN tokens
      BY DEF TypeRow, RowOK
    <3>4. row[h] \in DOMAIN tokens =>
            /\ OnlyTheRow(h) => OnlyTheRow(h)'
            /\ NoneOfFamily(h) => NoneOfFamily(h)'
            /\ tokens'[row[h]].since = tokens[row[h]].since
      BY <1>1, <1>2 DEF RowsStay, OnlyTheRow, NoneOfFamily
    <3> QED
      BY <1>2, <3>1, <3>2, <3>3, <3>4 DEF Found
  <2> QED
    BY <2>1, <2>2, <2>3 DEF Rows
<1> QED
  BY <1>3, <1>4

LEMMA CutStep ==
  ASSUME TypeRow, CInv, [Next]_vars
  PROVE  CInv'
<1>0. alone' = alone
  BY DEF Next, vars
<1>1. ASSUME NEW h \in Handlers, HandlerStart(h) \/ HandlerStep(h)
      PROVE  CInv'
  BY <1>0, <1>1, HandlerStartRows, HandlerStartNames, StepRows, StepNames DEF CInv
<1>2. ASSUME NEW i, TokenExpires(i)
      PROVE  CInv'
  BY <1>0, <1>2, ExpiryKeeps DEF CInv
<1>3. ASSUME UNCHANGED <<tokens, status, resetAt, handlerVars>>,
             \A u \in Users : password'[u] >= password[u] /\ password'[u] \in Nat
      PROVE  CInv'
  <2>1. RowsNamed'
    BY <1>3 DEF CInv, RowsNamed
  <2>2. ResetPast'
    BY <1>3 DEF CInv, ResetPast, TypeRow, StateTypes
  <2>3. alone => Rows'
    BY <1>3 DEF handlerVars, CInv, Rows, OneRequest, Working, RowsHold, Found, OnlyTheRow, NoneOfFamily
  <2> QED
    BY <1>0, <2>1, <2>2, <2>3 DEF CInv
<1>4. ASSUME NEW u \in Users, OnboardPassword(u)
      PROVE  CInv'
  <2>1. \A v \in Users : password'[v] >= password[v] /\ password'[v] \in Nat
    BY <1>4 DEF OnboardPassword, TypeRow, StateTypes
  <2>2. UNCHANGED <<tokens, status, resetAt, handlerVars>>
    BY <1>4 DEF OnboardPassword
  <2> QED
    BY <1>3, <2>1, <2>2
<1>5. ASSUME UNCHANGED <<tokens, status, resetAt, handlerVars, password>>
      PROVE  CInv'
  BY <1>3, <1>5 DEF TypeRow, StateTypes
<1> QED
  BY <1>1, <1>2, <1>4, <1>5 DEF Next, Step, vars, userVars, SendMail

LEMMA CutInit == Init => CInv
<1> SUFFICES ASSUME Init
             PROVE  CInv
  OBVIOUS
<1>1. DOMAIN tokens = {}
  BY DEF Init
<1>2. \A h \in Handlers : pc[h] = "idle"
  BY DEF Init
<1> QED
  BY <1>1, <1>2 DEF Init, CInv, RowsNamed, ResetPast, Rows, RowsHold, OneRequest, Working, Found

\* Where requests come one at a time, rotation leaves one live token in a family, and a
\* suspension, a deletion and a reset end every session there was.
THEOREM CutsAreComplete == Spec => []CutsHold
<1>1. IInv => TypeRow /\ TypeOK
  BY DEF IInv, TypeOK, TypeRow
<1>2. TypeRow /\ CInv /\ [Next]_vars => CInv'
  BY CutStep
<1>3. TypeOK /\ CInv => CutsHold
  <2> SUFFICES ASSUME TypeOK, CInv, alone
               PROVE  OneLivePerFamily /\ NoLiveTokenWhileInactive /\ NoSessionOutlivesReset
    BY DEF CutsHold, OneLivePerFamily, NoLiveTokenWhileInactive, NoSessionOutlivesReset
  <2>1. RowsHold
    BY DEF CInv, Rows
  <2> QED
    BY <2>1 DEF RowsHold, OneLivePerFamily, NoLiveTokenWhileInactive, NoSessionOutlivesReset
<1> QED
  BY <1>1, <1>2, <1>3, CutInit, Invariant, PTL DEF Spec

-----------------------------------------------------------------------------
(* Beside the other parts the sessions run as they do alone: what is       *)
(* proved of Spec holds of AccountsSpec.                                   *)

LEMMA SessionsRun == AccountsSpec => Spec
<1>1. AccountsInit => Init
  BY DEF AccountsInit
<1>2. [AccountsNext]_accountVars => [Next]_vars
  BY DEF AccountsNext, accountVars
<1> QED
  BY <1>1, <1>2, PTL DEF AccountsSpec, Spec

-----------------------------------------------------------------------------
(* Lockout: the counter of failures.                                       *)

Verifying(h) == lockPc[h] = "verify"

\* Of requests that come one at a time, the login that verifies a password is the only
\* one, and the count it has read is that of the row.
LoneLogin ==
  lockAlone => \A h \in Handlers : Verifying(h) =>
    /\ lockSeen[h] = failed[lockUser[h]]
    /\ \A g \in Handlers : Verifying(g) => g = h

\* The counter then says how many wrong passwords there were, and a lock that there were
\* enough.
CountIsMisses ==
  lockAlone => \A u \in Users :
    /\ failed[u] = misses[u]
    /\ locked[u] => failed[u] >= L!MaxFailures

LockIInv == L!TypeOK /\ LoneLogin /\ CountIsMisses

LEMMA LockInit == L!Init => LockIInv
BY DEF L!Init, LockIInv, L!TypeOK, LoneLogin, CountIsMisses, Verifying

LEMMA LockStep ==
  ASSUME LockIInv, [L!Next]_(L!vars)
  PROVE  LockIInv'
<1> USE DEF LockIInv, LoneLogin, CountIsMisses, Verifying, L!TypeOK
<1>1. ASSUME NEW h \in Handlers, NEW u \in Users, L!ReadUser(h, u), UNCHANGED lockAlone
      PROVE  LockIInv'
  BY <1>1 DEF L!ReadUser, L!Free, L!rowVars
<1>2. ASSUME NEW h \in Handlers, NEW u \in Users, L!ResetPassword(h, u), UNCHANGED lockAlone
      PROVE  LockIInv'
  BY <1>2 DEF L!ResetPassword, L!Free, L!Forget, L!handlerVars
<1>3. ASSUME NEW h \in Handlers, L!Fail(h), UNCHANGED lockAlone
      PROVE  LockIInv'
  BY <1>3 DEF L!Fail, L!End, L!MaxFailures
<1>4. ASSUME NEW h \in Handlers, L!Succeed(h), UNCHANGED lockAlone
      PROVE  LockIInv'
  BY <1>4 DEF L!Succeed, L!End, L!Forget
<1>5. ASSUME NEW h \in Handlers, L!Refuse(h), UNCHANGED lockAlone
      PROVE  LockIInv'
  BY <1>5 DEF L!Refuse, L!End, L!rowVars
<1>6. ASSUME NEW u \in Users, L!LockExpires(u), UNCHANGED lockAlone
      PROVE  LockIInv'
  BY <1>6 DEF L!LockExpires, L!handlerVars
<1>7. CASE UNCHANGED L!vars
  BY <1>7 DEF L!vars, L!rowVars, L!handlerVars
<1> QED
  BY <1>1, <1>2, <1>3, <1>4, <1>5, <1>6, <1>7 DEF L!Next, L!Step

LEMMA LockInvariant == L!Spec => []LockIInv
BY LockInit, LockStep, PTL DEF L!Spec

\* auth.service 120: where logins do not overlap, the fifth wrong password since the
\* counter was reset leaves the account locked.
LEMMA LockingFailure ==
  ASSUME LockIInv, L!Next, NEW u \in Users, lockAlone,
         misses'[u] > misses[u], misses'[u] >= L!MaxFailures
  PROVE  locked'[u]
<1> USE DEF LockIInv, LoneLogin, CountIsMisses, Verifying, L!TypeOK
<1>1. PICK h \in Handlers : L!Fail(h)
  BY DEF L!Next, L!Step, L!ReadUser, L!ResetPassword, L!Succeed, L!Refuse, L!LockExpires,
         L!Forget, L!rowVars
<1>2. /\ lockUser[h] = u
      /\ misses'[u] = misses[u] + 1
      /\ locked'[u] = (lockSeen[h] + 1 >= L!MaxFailures)
      /\ lockSeen[h] = failed[u] /\ failed[u] = misses[u]
  BY <1>1 DEF L!Fail
<1> QED
  BY <1>2

-----------------------------------------------------------------------------
(* How many guesses the logins have together.                              *)

\* What is left to a login that has read a count, and to one that would read it now: the
\* failures from that count to the lock.  A login has one left in any case.
Rest(n) == IF n < L!MaxFailures THEN L!MaxFailures - n ELSE 0

Left(h, u) ==
  IF Verifying(h) /\ lockUser[h] = u
  THEN IF lockSeen[h] < L!MaxFailures THEN Rest(lockSeen[h]) ELSE 1
  ELSE Rest(failed[u])

\* The logins that have less than k left, also if they are refused and begin anew.
Behind(k, u) == {h \in Handlers : Left(h, u) < k /\ Rest(failed[u]) < k}

Count(k, u) == Cardinality(Behind(k, u))

\* What it took to bring n logins behind k = 1, ..., 5: 120 times (n + k - 1 choose k).
Weight1(n) == 120 * n
Weight2(n) == 60 * (n * (n + 1))
Weight3(n) == 20 * (n * (n + 1) * (n + 2))
Weight4(n) == 5 * (n * (n + 1) * (n + 2) * (n + 3))
Weight5(n) == n * (n + 1) * (n + 2) * (n + 3) * (n + 4)

\* Each is a natural number, ...
LEMMA WeightNat == \A n \in Nat :
  /\ Weight1(n) \in Nat /\ Weight2(n) \in Nat /\ Weight3(n) \in Nat
  /\ Weight4(n) \in Nat /\ Weight5(n) \in Nat
BY DEF Weight1, Weight2, Weight3, Weight4, Weight5

\* ... and one login more weighs more than all that the lesser counts do.
LEMMA WeightNext == \A n \in Nat :
  /\ Weight1(n + 1) = 120 + Weight1(n)
  /\ Weight2(n + 1) = 120 + Weight1(n) + Weight2(n)
  /\ Weight3(n + 1) = 120 + Weight1(n) + Weight2(n) + Weight3(n)
  /\ Weight4(n + 1) = 120 + Weight1(n) + Weight2(n) + Weight3(n) + Weight4(n)
  /\ Weight5(n + 1) = 120 + Weight1(n) + Weight2(n) + Weight3(n) + Weight4(n) + Weight5(n)
BY DEF Weight1, Weight2, Weight3, Weight4, Weight5

LEMMA TimesGrows ==
  ASSUME NEW a \in Nat, NEW b \in Nat, NEW c \in Nat, NEW d \in Nat, a <= c, b <= d
  PROVE  a * b \in Nat /\ a * b <= c * d
<1>1. PICK i \in Nat : c = a + i
  <2>1. c - a \in Nat /\ c = a + (c - a)
    OBVIOUS
  <2> QED
    BY <2>1
<1>2. PICK j \in Nat : d = b + j
  <2>1. d - b \in Nat /\ d = b + (d - b)
    OBVIOUS
  <2> QED
    BY <2>1
<1>3. c * d = a * b + a * j + i * b + i * j
  BY <1>1, <1>2
<1>4. a * b \in Nat /\ a * j \in Nat /\ i * b \in Nat /\ i * j \in Nat
  BY <1>1, <1>2
<1> QED
  BY <1>3, <1>4

LEMMA WeightGrows ==
  ASSUME NEW m \in Nat, NEW n \in Nat, m <= n
  PROVE  /\ Weight1(m) <= Weight1(n) /\ Weight2(m) <= Weight2(n) /\ Weight3(m) <= Weight3(n)
         /\ Weight4(m) <= Weight4(n) /\ Weight5(m) <= Weight5(n)
<1>1. m * (m + 1) \in Nat /\ n * (n + 1) \in Nat /\ m * (m + 1) <= n * (n + 1)
  BY TimesGrows
<1>2. /\ m * (m + 1) * (m + 2) \in Nat /\ n * (n + 1) * (n + 2) \in Nat
      /\ m * (m + 1) * (m + 2) <= n * (n + 1) * (n + 2)
  BY <1>1, TimesGrows
<1>3. /\ m * (m + 1) * (m + 2) * (m + 3) \in Nat /\ n * (n + 1) * (n + 2) * (n + 3) \in Nat
      /\ m * (m + 1) * (m + 2) * (m + 3) <= n * (n + 1) * (n + 2) * (n + 3)
  BY <1>2, TimesGrows
<1>4. m * (m + 1) * (m + 2) * (m + 3) * (m + 4) <= n * (n + 1) * (n + 2) * (n + 3) * (n + 4)
  BY <1>3, TimesGrows
<1>5. Weight1(m) <= Weight1(n)
  BY DEF Weight1
<1>6. Weight2(m) <= Weight2(n)
  BY <1>1 DEF Weight2
<1>7. Weight3(m) <= Weight3(n)
  BY <1>2 DEF Weight3
<1>8. Weight4(m) <= Weight4(n)
  BY <1>3 DEF Weight4
<1>9. Weight5(m) <= Weight5(n)
  BY <1>4 DEF Weight5
<1> QED
  BY <1>5, <1>6, <1>7, <1>8, <1>9

\* What n logins weigh at all five counts.
LEMMA WeightSum == \A n \in Nat :
  Weight1(n) + Weight2(n) + Weight3(n) + Weight4(n) + Weight5(n) + 120
    = (n + 1) * (n + 2) * (n + 3) * (n + 4) * (n + 5)
BY DEF Weight1, Weight2, Weight3, Weight4, Weight5

\* The wrong passwords made are no more than what they have taken from the logins.
Spent(n1, n2, n3, n4, n5) ==
  Weight1(n1) + Weight2(n2) + Weight3(n3) + Weight4(n4) + Weight5(n5)

SpentBy(u) == Spent(Count(1, u), Count(2, u), Count(3, u), Count(4, u), Count(5, u))

\* Until a lock runs out, the account is locked while its count is five or more.
PaidFor(u) ==
  ~lapsed[u] =>
    /\ locked[u] <=> failed[u] >= L!MaxFailures
    /\ 120 * misses[u] <= SpentBy(u)

AllPaidFor == \A u \in Users : PaidFor(u)

\* Where no login gets more to spend, what is spent does not shrink ...
LEMMA SpentGrows ==
  ASSUME NEW m1 \in Nat, NEW m2 \in Nat, NEW m3 \in Nat, NEW m4 \in Nat, NEW m5 \in Nat,
         NEW n1 \in Nat, NEW n2 \in Nat, NEW n3 \in Nat, NEW n4 \in Nat, NEW n5 \in Nat,
         m1 <= n1, m2 <= n2, m3 <= n3, m4 <= n4, m5 <= n5
  PROVE  /\ Spent(m1, m2, m3, m4, m5) \in Nat /\ Spent(n1, n2, n3, n4, n5) \in Nat
         /\ Spent(m1, m2, m3, m4, m5) <= Spent(n1, n2, n3, n4, n5)
<1>1. /\ Weight1(m1) <= Weight1(n1) /\ Weight2(m2) <= Weight2(n2) /\ Weight3(m3) <= Weight3(n3)
      /\ Weight4(m4) <= Weight4(n4) /\ Weight5(m5) <= Weight5(n5)
  BY WeightGrows
<1>2. /\ Weight1(m1) \in Nat /\ Weight2(m2) \in Nat /\ Weight3(m3) \in Nat
      /\ Weight4(m4) \in Nat /\ Weight5(m5) \in Nat
  BY WeightNat
<1>3. /\ Weight1(n1) \in Nat /\ Weight2(n2) \in Nat /\ Weight3(n3) \in Nat
      /\ Weight4(n4) \in Nat /\ Weight5(n5) \in Nat
  BY WeightNat
<1> QED
  BY <1>1, <1>2, <1>3 DEF Spent

LEMMA SpentIsNat ==
  ASSUME NEW n1 \in Nat, NEW n2 \in Nat, NEW n3 \in Nat, NEW n4 \in Nat, NEW n5 \in Nat
  PROVE  Spent(n1, n2, n3, n4, n5) \in Nat
BY WeightNat DEF Spent

\* ... and a wrong password of a login that had x left spends, whatever the logins behind
\* it gain: they were no more than those with less than x.
LEMMA GuessSpends ==
  ASSUME NEW x \in 1..5, NEW m \in [1..5 -> Nat], NEW n \in [1..5 -> Nat],
         m[1] <= m[2], m[2] <= m[3], m[3] <= m[4], m[4] <= m[5],
         m[x] + 1 <= n[x], \A k \in 1..5 : x <= k => m[k] <= n[k]
  PROVE  Spent(m[1], m[2], m[3], m[4], m[5]) + 120 <= Spent(n[1], n[2], n[3], n[4], n[5])
<1>0. /\ m[1] \in Nat /\ m[2] \in Nat /\ m[3] \in Nat /\ m[4] \in Nat /\ m[5] \in Nat
      /\ n[1] \in Nat /\ n[2] \in Nat /\ n[3] \in Nat /\ n[4] \in Nat /\ n[5] \in Nat
  OBVIOUS
<1>1. /\ Weight1(m[1]) \in Nat /\ Weight2(m[2]) \in Nat /\ Weight3(m[3]) \in Nat
      /\ Weight4(m[4]) \in Nat /\ Weight5(m[5]) \in Nat
  BY <1>0, WeightNat
<1>2. /\ Weight1(n[1]) \in Nat /\ Weight2(n[2]) \in Nat /\ Weight3(n[3]) \in Nat
      /\ Weight4(n[4]) \in Nat /\ Weight5(n[5]) \in Nat
  BY <1>0, WeightNat
<1>3. CASE x = 1
  <2>1. Weight1(m[1] + 1) <= Weight1(n[1]) /\ Weight1(m[1] + 1) = 120 + Weight1(m[1])
    BY <1>0, <1>3, WeightGrows, WeightNext
  <2>2. /\ Weight2(m[2]) <= Weight2(n[2]) /\ Weight3(m[3]) <= Weight3(n[3])
        /\ Weight4(m[4]) <= Weight4(n[4]) /\ Weight5(m[5]) <= Weight5(n[5])
    BY <1>3, <1>0, WeightGrows
  <2> QED
    BY <1>1, <1>2, <2>1, <2>2 DEF Spent
<1>4. CASE x = 2
  <2>1. Weight2(m[2] + 1) <= Weight2(n[2])
    BY <1>4, <1>0, WeightGrows
  <2>2. Weight2(m[2] + 1) = 120 + Weight1(m[2]) + Weight2(m[2])
    BY <1>0, WeightNext
  <2>3. Weight1(m[1]) <= Weight1(m[2]) /\ Weight1(m[2]) \in Nat
    BY <1>0, WeightGrows, WeightNat
  <2>4. Weight3(m[3]) <= Weight3(n[3]) /\ Weight4(m[4]) <= Weight4(n[4]) /\ Weight5(m[5]) <= Weight5(n[5])
    BY <1>4, <1>0, WeightGrows
  <2> QED
    BY <1>1, <1>2, <2>1, <2>2, <2>3, <2>4 DEF Spent
<1>5. CASE x = 3
  <2>1. Weight3(m[3] + 1) <= Weight3(n[3])
    BY <1>5, <1>0, WeightGrows
  <2>2. Weight3(m[3] + 1) = 120 + Weight1(m[3]) + Weight2(m[3]) + Weight3(m[3])
    BY <1>0, WeightNext
  <2>3. Weight1(m[1]) <= Weight1(m[3]) /\ Weight2(m[2]) <= Weight2(m[3])
    BY <1>0, WeightGrows
  <2>4. Weight1(m[3]) \in Nat /\ Weight2(m[3]) \in Nat
    BY <1>0, WeightNat
  <2>5. Weight4(m[4]) <= Weight4(n[4]) /\ Weight5(m[5]) <= Weight5(n[5])
    BY <1>5, <1>0, WeightGrows
  <2> QED
    BY <1>1, <1>2, <2>1, <2>2, <2>3, <2>4, <2>5 DEF Spent
<1>6. CASE x = 4
  <2>1. Weight4(m[4] + 1) <= Weight4(n[4])
    BY <1>6, <1>0, WeightGrows
  <2>2. Weight4(m[4] + 1) = 120 + Weight1(m[4]) + Weight2(m[4]) + Weight3(m[4]) + Weight4(m[4])
    BY <1>0, WeightNext
  <2>3. Weight1(m[1]) <= Weight1(m[4]) /\ Weight2(m[2]) <= Weight2(m[4]) /\ Weight3(m[3]) <= Weight3(m[4])
    BY <1>0, WeightGrows
  <2>4. Weight1(m[4]) \in Nat /\ Weight2(m[4]) \in Nat /\ Weight3(m[4]) \in Nat
    BY <1>0, WeightNat
  <2>5. Weight5(m[5]) <= Weight5(n[5])
    BY <1>6, <1>0, WeightGrows
  <2> QED
    BY <1>1, <1>2, <2>1, <2>2, <2>3, <2>4, <2>5 DEF Spent
<1>7. CASE x = 5
  <2>1. Weight5(m[5] + 1) <= Weight5(n[5])
    BY <1>7, <1>0, WeightGrows
  <2>2. Weight5(m[5] + 1)
          = 120 + Weight1(m[5]) + Weight2(m[5]) + Weight3(m[5]) + Weight4(m[5]) + Weight5(m[5])
    BY <1>0, WeightNext
  <2>3. /\ Weight1(m[1]) <= Weight1(m[5]) /\ Weight2(m[2]) <= Weight2(m[5])
        /\ Weight3(m[3]) <= Weight3(m[5]) /\ Weight4(m[4]) <= Weight4(m[5])
    BY <1>0, WeightGrows
  <2>4. Weight1(m[5]) \in Nat /\ Weight2(m[5]) \in Nat /\ Weight3(m[5]) \in Nat /\ Weight4(m[5]) \in Nat
    BY <1>0, WeightNat
  <2> QED
    BY <1>1, <1>2, <2>1, <2>2, <2>3, <2>4 DEF Spent
<1> QED
  BY <1>3, <1>4, <1>5, <1>6, <1>7

\* How many logins are behind: among all of them, and more the higher the mark.
LEMMA Counts ==
  ASSUME NEW u \in Users
  PROVE  /\ \A k : Count(k, u) \in Nat /\ Count(k, u) <= Cardinality(Handlers)
         /\ \A k : IsFiniteSet(Behind(k, u))
         /\ Cardinality(Handlers) \in Nat
<1>1. \A k : Behind(k, u) \subseteq Handlers
  BY DEF Behind
<1> QED
  BY <1>1, AccountsAssumption, FS_CardinalityType, FS_Subset DEF Count

LEMMA CountsRise ==
  ASSUME L!TypeOK, NEW u \in Users, NEW k \in 1..5, NEW l \in 1..5, k <= l
  PROVE  Count(k, u) <= Count(l, u)
<1>1. \A h \in Handlers : Left(h, u) \in Int /\ Rest(failed[u]) \in Int
  BY DEF L!TypeOK, Left, Rest, L!MaxFailures
<1>2. Behind(k, u) \subseteq Behind(l, u)
  BY <1>1 DEF Behind
<1> QED
  BY <1>2, Counts, FS_Subset DEF Count

LEMMA LeftInRange ==
  ASSUME L!TypeOK, NEW h \in Handlers, NEW u \in Users
  PROVE  /\ Left(h, u) \in 0..5 /\ Rest(failed[u]) \in 0..5
         /\ Verifying(h) /\ lockUser[h] = u => Left(h, u) \in 1..5
BY DEF L!TypeOK, Left, Rest, Verifying, L!MaxFailures

LEMMA PaidInit ==
  ASSUME L!Init
  PROVE  AllPaidFor
<1> SUFFICES ASSUME NEW u \in Users
             PROVE  PaidFor(u)
  BY DEF AllPaidFor
<1>1. SpentBy(u) \in Nat
  BY Counts, SpentGrows DEF SpentBy
<1> QED
  BY <1>1 DEF L!Init, L!MaxFailures, PaidFor

\* Whoever is behind stays behind: what was paid is paid.
LEMMA PaidStays ==
  ASSUME NEW u \in Users, \A k \in 1..5 : Behind(k, u) \subseteq Behind(k, u)'
  PROVE  SpentBy(u) \in Nat /\ SpentBy(u)' \in Nat /\ SpentBy(u) <= SpentBy(u)'
<1>1. \A k : IsFiniteSet(Behind(k, u)')
  <2>1. \A k : Behind(k, u)' \subseteq Handlers
    BY DEF Behind
  <2> QED
    BY <2>1, AccountsAssumption, FS_Subset
<1>2. \A k \in 1..5 : /\ Count(k, u) \in Nat /\ Count(k, u)' \in Nat
                      /\ Count(k, u) <= Count(k, u)'
  BY <1>1, Counts, FS_Subset, FS_CardinalityType DEF Count
<1> HIDE DEF Count
<1>3. /\ Count(1, u) \in Nat /\ Count(2, u) \in Nat /\ Count(3, u) \in Nat
      /\ Count(4, u) \in Nat /\ Count(5, u) \in Nat
      /\ Count(1, u)' \in Nat /\ Count(2, u)' \in Nat /\ Count(3, u)' \in Nat
      /\ Count(4, u)' \in Nat /\ Count(5, u)' \in Nat
      /\ Count(1, u) <= Count(1, u)' /\ Count(2, u) <= Count(2, u)'
      /\ Count(3, u) <= Count(3, u)' /\ Count(4, u) <= Count(4, u)'
      /\ Count(5, u) <= Count(5, u)'
  BY <1>2
<1> QED
  BY <1>3, SpentGrows DEF SpentBy

\* A login that had x left has less now, and nobody has more for it but up to that.
LEMMA PaidMore ==
  ASSUME L!TypeOK, NEW u \in Users, NEW x \in 1..5, NEW h \in Handlers, h \notin Behind(x, u),
         h \in Behind(x, u)', \A k \in 1..5 : x <= k => Behind(k, u) \subseteq Behind(k, u)'
  PROVE  SpentBy(u) \in Nat /\ SpentBy(u)' \in Nat /\ SpentBy(u) + 120 <= SpentBy(u)'
<1>1. \A k : IsFiniteSet(Behind(k, u)')
  <2>1. \A k : Behind(k, u)' \subseteq Handlers
    BY DEF Behind
  <2> QED
    BY <2>1, AccountsAssumption, FS_Subset
<1>2. \A k \in 1..5 : /\ Count(k, u) \in Nat /\ Count(k, u)' \in Nat
                      /\ x <= k => Count(k, u) <= Count(k, u)'
  BY <1>1, Counts, FS_Subset, FS_CardinalityType DEF Count
<1>3. Count(x, u) + 1 <= Count(x, u)'
  <2>1. Behind(x, u) \cup {h} \subseteq Behind(x, u)'
    OBVIOUS
  <2>2. IsFiniteSet(Behind(x, u))
    BY Counts
  <2>3. Cardinality(Behind(x, u) \cup {h}) = Cardinality(Behind(x, u)) + 1
    BY <2>2, FS_AddElement
  <2>4. Cardinality(Behind(x, u) \cup {h}) <= Cardinality(Behind(x, u)')
    BY <1>1, <2>1, FS_Subset
  <2> QED
    BY <2>3, <2>4 DEF Count
<1>4. /\ Count(1, u) <= Count(2, u) /\ Count(2, u) <= Count(3, u)
      /\ Count(3, u) <= Count(4, u) /\ Count(4, u) <= Count(5, u)
  BY CountsRise
<1>5. PICK m \in [1..5 -> Nat] : \A k \in 1..5 : m[k] = Count(k, u)
  <2>1. [k \in 1..5 |-> Count(k, u)] \in [1..5 -> Nat]
    BY <1>2
  <2> QED
    BY <2>1
<1>6. PICK n \in [1..5 -> Nat] : \A k \in 1..5 : n[k] = Count(k, u)'
  <2>1. [k \in 1..5 |-> Count(k, u)'] \in [1..5 -> Nat]
    BY <1>2
  <2> QED
    BY <2>1
<1>7. /\ m[x] + 1 <= n[x] /\ \A k \in 1..5 : x <= k => m[k] <= n[k]
      /\ m[1] <= m[2] /\ m[2] <= m[3] /\ m[3] <= m[4] /\ m[4] <= m[5]
  BY <1>2, <1>3, <1>4, <1>5, <1>6
<1>12. /\ m[1] \in Nat /\ m[2] \in Nat /\ m[3] \in Nat /\ m[4] \in Nat /\ m[5] \in Nat
       /\ n[1] \in Nat /\ n[2] \in Nat /\ n[3] \in Nat /\ n[4] \in Nat /\ n[5] \in Nat
  OBVIOUS
<1>8. Spent(m[1], m[2], m[3], m[4], m[5]) + 120 <= Spent(n[1], n[2], n[3], n[4], n[5])
  BY <1>7, GuessSpends
<1>9. Spent(m[1], m[2], m[3], m[4], m[5]) \in Nat /\ Spent(n[1], n[2], n[3], n[4], n[5]) \in Nat
  BY <1>12, SpentIsNat
<1>10. SpentBy(u) = Spent(m[1], m[2], m[3], m[4], m[5])
  BY <1>5 DEF SpentBy
<1>11. SpentBy(u)' = Spent(n[1], n[2], n[3], n[4], n[5])
  BY <1>6 DEF SpentBy
<1> QED
  BY <1>8, <1>9, <1>10, <1>11

LEMMA PaidStep ==
  ASSUME LockIInv, LockIInv', AllPaidFor, [L!Next]_(L!vars)
  PROVE  AllPaidFor'
<1>0. L!TypeOK /\ L!TypeOK'
  BY DEF LockIInv
<1> DEFINE Same(u) == /\ failed'[u] = failed[u] /\ locked'[u] = locked[u]
                      /\ misses'[u] = misses[u] /\ lapsed'[u] = lapsed[u]
           Wide(u) == \A h \in Handlers : Left(h, u)' \in {Left(h, u), Rest(failed[u])}
           Zero(u) == failed'[u] = 0 /\ locked'[u] = FALSE /\ misses'[u] = 0
\* A member whose row rests loses nothing when a login of his is refused or begins.
<1>1. ASSUME NEW u \in Users, Same(u), Wide(u)
      PROVE  PaidFor(u)'
  <2>1. \A k \in 1..5 : Behind(k, u) \subseteq Behind(k, u)'
    BY <1>1 DEF Behind, Rest
  <2>2. SpentBy(u) \in Nat /\ SpentBy(u)' \in Nat /\ SpentBy(u) <= SpentBy(u)' /\ misses[u] \in Nat
    BY <1>0, <2>1, PaidStays DEF L!TypeOK
  <2>3. /\ ~lapsed[u] => /\ locked[u] <=> failed[u] >= L!MaxFailures
                         /\ 120 * misses[u] <= SpentBy(u)
    BY DEF AllPaidFor, PaidFor
  <2> QED
    BY <1>1, <2>2, <2>3 DEF PaidFor
\* One whose counter begins again has made no guess.
<1>2. ASSUME NEW u \in Users, Zero(u)
      PROVE  PaidFor(u)'
  <2>1. SpentBy(u)' \in Nat
    <3>1. \A k : Behind(k, u)' \subseteq Handlers
      BY DEF Behind
    <3>2. \A k : Count(k, u)' \in Nat
      BY <3>1, AccountsAssumption, FS_Subset, FS_CardinalityType DEF Count
    <3> HIDE DEF Count
    <3> QED
      BY <3>2, SpentIsNat DEF SpentBy
  <2> QED
    BY <1>2, <2>1 DEF L!MaxFailures, PaidFor
<1>3. ASSUME NEW h \in Handlers, NEW u \in Users, L!ReadUser(h, u)
      PROVE  AllPaidFor'
  <2>1. \A v \in Users : Same(v)
    BY <1>3 DEF L!ReadUser, L!rowVars
  <2>2. ASSUME NEW v \in Users PROVE PaidFor(v)' \/ Wide(v)
    <3>1. CASE v # u
      BY <1>0, <1>3, <3>1 DEF L!ReadUser, L!Free, L!rowVars, L!TypeOK, Left, Rest, Verifying
    <3>2. CASE v = u /\ lapsed[u]
      BY <2>1, <3>2 DEF PaidFor
    <3>3. CASE v = u /\ ~lapsed[u]
      <4>1. failed[u] < L!MaxFailures
        BY <1>0, <1>3, <3>3 DEF L!ReadUser, AllPaidFor, PaidFor, L!TypeOK, L!MaxFailures
      <4> QED
        BY <1>0, <1>3, <3>3, <4>1 DEF L!ReadUser, L!Free, L!rowVars, L!TypeOK, Left, Rest, Verifying
    <3> QED
      BY <3>1, <3>2, <3>3
  <2> QED
    BY <1>1, <2>1, <2>2 DEF AllPaidFor
<1>4. ASSUME NEW h \in Handlers, NEW u \in Users, L!ResetPassword(h, u)
      PROVE  AllPaidFor'
  <2>1. \A v \in Users \ {u} : Same(v) /\ Wide(v)
    BY <1>0, <1>4 DEF L!ResetPassword, L!Forget, L!handlerVars, L!TypeOK, Left, Rest, Verifying
  <2>2. Zero(u)
    BY <1>0, <1>4 DEF L!ResetPassword, L!Forget, L!TypeOK
  <2> QED
    BY <1>1, <1>2, <2>1, <2>2 DEF AllPaidFor
<1>5. ASSUME NEW h \in Handlers, L!Fail(h)
      PROVE  AllPaidFor'
  <2> PICK u \in Users : u = lockUser[h]
    BY <1>0 DEF L!TypeOK
  <2>1. \A v \in Users \ {u} : Same(v) /\ Wide(v)
    BY <1>0, <1>5 DEF L!Fail, L!End, L!TypeOK, Left, Rest, Verifying
  <2>2. /\ lapsed'[u] = lapsed[u] /\ misses'[u] = misses[u] + 1 /\ misses[u] \in Nat
        /\ locked'[u] <=> failed'[u] >= L!MaxFailures
    BY <1>0, <1>5 DEF L!Fail, L!TypeOK
  <2>3. PICK x \in 1..5 : x = Left(h, u)
    BY <1>0, <1>5, LeftInRange DEF L!Fail, Verifying
  <2>4. /\ Rest(failed'[u]) = x - 1 /\ Left(h, u)' = x - 1
        /\ \A g \in Handlers \ {h} : Left(g, u)' \in {Left(g, u), x - 1}
    BY <1>0, <1>5, <2>3 DEF L!Fail, L!End, L!TypeOK, Left, Rest, Verifying, L!MaxFailures
  <2>5. h \notin Behind(x, u) /\ h \in Behind(x, u)'
    BY <2>3, <2>4 DEF Behind, Rest
  <2>6. ASSUME NEW k \in 1..5, x <= k
        PROVE  Behind(k, u) \subseteq Behind(k, u)'
    <3> SUFFICES ASSUME NEW g \in Behind(k, u)
                 PROVE  g \in Handlers /\ Left(g, u)' < k /\ Rest(failed'[u]) < k
      BY DEF Behind, Rest
    <3>1. g \in Handlers /\ Left(g, u) < k
      BY DEF Behind
    <3>2. x - 1 < k
      BY <2>6
    <3> QED
      BY <2>4, <3>1, <3>2
  <2>7. SpentBy(u) \in Nat /\ SpentBy(u)' \in Nat /\ SpentBy(u) + 120 <= SpentBy(u)'
    BY <1>0, <2>5, <2>6, PaidMore
  <2>8. PaidFor(u)'
    <3>1. ~lapsed[u] => 120 * misses[u] <= SpentBy(u)
      BY DEF AllPaidFor, PaidFor
    <3>2. 120 * (misses[u] + 1) = 120 * misses[u] + 120
      BY <2>2
    <3>3. ~lapsed[u] => 120 * (misses[u] + 1) <= SpentBy(u)'
      BY <2>2, <2>7, <3>1, <3>2
    <3> QED
      BY <2>2, <3>3 DEF PaidFor
  <2> QED
    BY <1>1, <2>1, <2>8 DEF AllPaidFor
<1>6. ASSUME NEW h \in Handlers, L!Succeed(h)
      PROVE  AllPaidFor'
  <2> PICK u \in Users : u = lockUser[h]
    BY <1>0 DEF L!TypeOK
  <2>1. \A v \in Users \ {u} : Same(v)
    BY <1>0, <1>6 DEF L!Succeed, L!Forget, L!TypeOK
  <2>2. \A v \in Users \ {u} : Wide(v)
    BY <1>0, <1>6, <2>1 DEF L!Succeed, L!End, L!TypeOK, Left, Rest, Verifying
  <2>3. Zero(u)
    BY <1>0, <1>6 DEF L!Succeed, L!Forget, L!TypeOK
  <2> QED
    BY <1>1, <1>2, <2>1, <2>2, <2>3 DEF AllPaidFor
<1>7. ASSUME NEW h \in Handlers, L!Refuse(h)
      PROVE  AllPaidFor'
  <2>1. \A v \in Users : Same(v)
    BY <1>7 DEF L!Refuse, L!rowVars
  <2>2. \A v \in Users : Wide(v)
    BY <1>0, <1>7, <2>1 DEF L!Refuse, L!End, L!rowVars, L!TypeOK, Left, Rest, Verifying
  <2> QED
    BY <1>1, <2>1, <2>2 DEF AllPaidFor
<1>8. ASSUME NEW u \in Users, L!LockExpires(u)
      PROVE  AllPaidFor'
  <2>1. \A v \in Users \ {u} : Same(v) /\ Wide(v)
    BY <1>0, <1>8 DEF L!LockExpires, L!handlerVars, L!TypeOK, Left, Rest, Verifying
  <2>2. PaidFor(u)'
    BY <1>0, <1>8 DEF L!LockExpires, L!TypeOK, PaidFor
  <2> QED
    BY <1>1, <2>1, <2>2 DEF AllPaidFor
<1>9. CASE UNCHANGED L!vars
  <2>1. \A v \in Users : Same(v) /\ Wide(v)
    BY <1>9 DEF L!vars, L!rowVars, L!handlerVars, Left, Rest, Verifying
  <2> QED
    BY <1>1, <2>1 DEF AllPaidFor
<1> QED
  BY <1>3, <1>4, <1>5, <1>6, <1>7, <1>8, <1>9 DEF L!Next, L!Step

-----------------------------------------------------------------------------
(* The lock beside the other parts.                                        *)

LEMMA LockRuns == AccountsSpec => L!Spec
<1>1. AccountsInit => L!Init
  BY DEF AccountsInit
<1>2. [AccountsNext]_accountVars => [L!Next]_(L!vars)
  BY DEF AccountsNext, accountVars, lockOnly, L!vars, L!rowVars, L!handlerVars
<1> QED
  BY <1>1, <1>2, PTL DEF AccountsSpec, L!Spec

\* FiveFailuresLock, for any number of users and of logins: where they do not overlap, the
\* fifth wrong password since the counter was reset leaves the account locked.
THEOREM FifthFailureLocks == AccountsSpec => FiveFailuresLock
<1>1. LockIInv /\ [L!Next]_(L!vars) =>
        [\A u \in Users : (lockAlone /\ misses'[u] > misses[u] /\ misses'[u] >= L!MaxFailures)
                          => locked'[u]]_(L!vars)
  BY LockingFailure
<1> QED
  BY <1>1, LockRuns, LockInvariant, PTL DEF FiveFailuresLock, L!FiveFailuresLock, L!Spec

\* Cardinality is the same operator in Lockout.
LEMMA LockCardinality == ASSUME NEW S PROVE L!Cardinality(S) = Cardinality(S)
BY DEF L!Cardinality, L!IsFiniteSet, Cardinality, IsFiniteSet

\* LockHolds, for any number of logins at a time: fewer than five failures do not lock, and
\* those that overlap lift each other's lock only so often (auth.service 116-126).
THEOREM GuessesStayBounded == AccountsSpec => []LockHolds
<1>1. L!Init => AllPaidFor
  BY PaidInit
<1>2. LockIInv /\ LockIInv' /\ AllPaidFor /\ [L!Next]_(L!vars) => AllPaidFor'
  BY PaidStep
<1>3. LockIInv /\ AllPaidFor => LockHolds
  <2> SUFFICES ASSUME LockIInv, AllPaidFor
               PROVE  L!GuessesAreBounded
    BY DEF LockHolds, L!LockHolds, LockIInv, CountIsMisses, L!FewFailuresDoNotLock
  <2> SUFFICES ASSUME NEW u \in Users, ~lapsed[u]
               PROVE  misses[u] <= L!Guesses
    BY DEF L!GuessesAreBounded
  <2> DEFINE n == Cardinality(Handlers)
             p == (n + 1) * (n + 2) * (n + 3) * (n + 4) * (n + 5)
  <2>1. misses[u] \in Nat /\ 120 * misses[u] <= SpentBy(u)
    BY DEF LockIInv, L!TypeOK, AllPaidFor, PaidFor
  <2>2. n \in Nat
    BY Counts
  <2> HIDE DEF n
  <2>3. SpentBy(u) \in Nat /\ Spent(n, n, n, n, n) \in Nat /\ SpentBy(u) <= Spent(n, n, n, n, n)
    <3>1. /\ Count(1, u) \in Nat /\ Count(1, u) <= n /\ Count(2, u) \in Nat /\ Count(2, u) <= n
          /\ Count(3, u) \in Nat /\ Count(3, u) <= n /\ Count(4, u) \in Nat /\ Count(4, u) <= n
          /\ Count(5, u) \in Nat /\ Count(5, u) <= n
      BY Counts DEF n
    <3> QED
      BY <2>2, <3>1, SpentGrows DEF SpentBy
  <2>4. Spent(n, n, n, n, n) + 120 = p
    BY <2>2, WeightSum DEF Spent
  <2> HIDE DEF p
  <2>5. p \in Nat /\ 120 * (misses[u] + 1) <= p
    BY <2>1, <2>3, <2>4
  <2>6. misses[u] + 1 <= p \div 120
    BY <2>1, <2>5
  <2>7. L!Guesses = p \div 120 - 1
    BY LockCardinality DEF L!Guesses, n, p
  <2> QED
    BY <2>1, <2>5, <2>6, <2>7
<1> QED
  BY <1>1, <1>2, <1>3, LockRuns, LockInvariant, PTL DEF L!Spec

-----------------------------------------------------------------------------
(* TwoFactor: who must have a second factor.                               *)

\* A handler about to write a secret has one, and who has a secret never loses it.
Carries ==
  \A h \in Handlers :
    /\ enrolPc[h] \in {"begin", "confirm", "replace"} => enrolSeen[h] # F!NoSecret
    /\ enrolPc[h] = "grant" => enrolUser[h] \in exists
    /\ enrolPc[h] = "confirm" => secret[enrolUser[h]] # F!NoSecret

\* A grant on its way answers for the role as long as the role asks for what it did.
GrantAnswers ==
  enrolAlone \/ ~edited => \A h \in Handlers :
    enrolPc[h] = "grant" /\ requires[enrolRole[h]] =>
      enrolSeen[h] = 1 \/ secret[enrolUser[h]] # F!NoSecret

\* Where requests come one at a time, the one there is finds what it has read.
LoneEnrolment ==
  enrolAlone => \A h \in Handlers : enrolPc[h] # "idle" =>
    /\ \A g \in Handlers : enrolPc[g] # "idle" => g = h
    /\ enrolPc[h] = "update" => enrolSeen[h] = IF requires[enrolRole[h]] THEN 1 ELSE 0
    /\ enrolPc[h] = "begin" => enrolment[enrolUser[h]]
    /\ enrolPc[h] = "confirm" => secret[enrolUser[h]] \in proven
    /\ enrolPc[h] = "replace" => enrolSeen[h] \in proven

EnrolIInv ==
  /\ F!TypeOK
  /\ Carries
  /\ GrantAnswers
  /\ LoneEnrolment
  /\ F!EnforcedUnlessEditsOverlap
  /\ F!SecretIsProven

LEMMA EnrolInit == F!Init => EnrolIInv
<1> SUFFICES ASSUME F!Init
             PROVE  EnrolIInv
  OBVIOUS
<1>1. F!TypeOK
  BY DEF F!Init, F!TypeOK, F!NoSecret
<1>2. \A h \in Handlers : enrolPc[h] = "idle"
  BY DEF F!Init
<1>3. Carries /\ GrantAnswers /\ LoneEnrolment
  BY <1>2 DEF Carries, GrantAnswers, LoneEnrolment
<1>4. F!EnforcedUnlessEditsOverlap /\ F!SecretIsProven
  BY <1>1 DEF F!Init, F!TypeOK, F!EnforcedUnlessEditsOverlap, F!RequiredIsEnforced, F!SecretIsProven
<1> QED
  BY <1>1, <1>3, <1>4 DEF EnrolIInv

LEMMA EnrolStep ==
  ASSUME EnrolIInv, [F!Next]_(F!vars)
  PROVE  EnrolIInv'
<1> USE AccountsAssumption DEF EnrolIInv, F!TypeOK, Carries, GrantAnswers, LoneEnrolment, F!NoSecret,
       F!EnforcedUnlessEditsOverlap, F!RequiredIsEnforced, F!SecretIsProven, F!dbVars, F!secretVars, F!handlerVars, F!Change, F!Start, F!End
<1>0. CASE UNCHANGED F!vars
  BY <1>0 DEF F!vars
<1>1. ASSUME NEW u \in Users, NEW rs \in Invites, F!CreateMember(u, rs), UNCHANGED enrolAlone
      PROVE  EnrolIInv'
  BY <1>1 DEF F!CreateMember
<1>2. ASSUME NEW h \in Handlers, NEW u \in Users, NEW r \in Roles, F!ReadGrant(h, u, r), UNCHANGED enrolAlone
      PROVE  EnrolIInv'
  BY <1>2 DEF F!ReadGrant
<1>3. ASSUME NEW h \in Handlers, F!CommitGrant(h), UNCHANGED enrolAlone
      PROVE  EnrolIInv'
  BY <1>3 DEF F!CommitGrant
<1>4. ASSUME NEW u \in Users, NEW r \in Roles, F!RevokeRole(u, r), UNCHANGED enrolAlone
      PROVE  EnrolIInv'
  BY <1>4 DEF F!RevokeRole
<1>5. ASSUME NEW h \in Handlers, NEW r \in Roles, F!ReadRole(h, r), UNCHANGED enrolAlone
      PROVE  EnrolIInv'
  BY <1>5 DEF F!ReadRole
<1>6. ASSUME NEW h \in Handlers, NEW on \in Edits, F!CommitRole(h, on), UNCHANGED enrolAlone
      PROVE  EnrolIInv'
  <2>1. F!TypeOK'
    <3>1. on \in BOOLEAN
      OBVIOUS
    <3>2. enrolment' \in [Users -> BOOLEAN]
      BY <1>6 DEF F!CommitRole
    <3>3. edited' \in BOOLEAN
      BY <1>6 DEF F!CommitRole
    <3>4. requires' \in [Roles -> BOOLEAN]
      BY <1>6, <3>1 DEF F!CommitRole
    <3>5. unasked' \in [Users -> SUBSET Roles]
      BY <1>6 DEF F!CommitRole, F!Asked
    <3> QED
      BY <1>6, <3>2, <3>3, <3>4, <3>5 DEF F!CommitRole
  <2>2. Carries'
    BY <1>6 DEF F!CommitRole
  <2>6. GrantAnswers'
    BY <1>6 DEF F!CommitRole
  <2>3. LoneEnrolment'
    BY <1>6, <2>1 DEF F!CommitRole
  <2>4. F!EnforcedUnlessEditsOverlap'
    <3> SUFFICES ASSUME enrolAlone \/ ~edited', NEW u \in exists,
                        NEW r \in holds[u], r \notin unasked'[u], requires'[r]
                 PROVE  secret[u] # F!NoSecret \/ enrolment'[u]
      BY <1>6 DEF F!CommitRole
    <3>1. u \in Users /\ r \in Roles
      OBVIOUS
    <3>2. enrolment[u] => enrolment'[u]
      BY <1>6, <3>1 DEF F!CommitRole
    <3>3. CASE requires[r] /\ r \notin unasked[u]
      <4>1. ~edited' => ~edited
        BY <1>6 DEF F!CommitRole
      <4> QED
        BY <3>1, <3>2, <3>3, <4>1
    <3>5. CASE r \in unasked[u]
      <4>1. on /\ enrolSeen[h] = 0 /\ r = enrolRole[h]
        BY <1>6, <3>1, <3>5 DEF F!CommitRole, F!Asked
      <4> QED
        BY <1>6, <3>1, <4>1 DEF F!CommitRole, F!Holders
    <3>4. CASE ~requires[r]
      <4>1. r = enrolRole[h] /\ on /\ edited'
        BY <1>6, <3>1, <3>4 DEF F!CommitRole
      <4>2. enrolSeen[h] = 0
        BY <1>6, <4>1, <3>4 DEF F!CommitRole
      <4> QED
        BY <1>6, <3>1, <4>1, <4>2 DEF F!CommitRole, F!Holders
    <3> QED
      BY <3>3, <3>4, <3>5
  <2>5. F!SecretIsProven'
    BY <1>6, <2>1 DEF F!CommitRole
  <2> QED
    BY <2>1, <2>2, <2>6, <2>3, <2>4, <2>5
<1>7. ASSUME NEW h \in Handlers, NEW u \in Users, F!ReadBegin(h, u), UNCHANGED enrolAlone
      PROVE  EnrolIInv'
  BY <1>7 DEF F!ReadBegin, F!Generate, F!Fresh
<1>8. ASSUME NEW h \in Handlers, F!StoreSecret(h), UNCHANGED enrolAlone
      PROVE  EnrolIInv'
  BY <1>8 DEF F!StoreSecret
<1>9. ASSUME NEW h \in Handlers, NEW u \in Users, F!VerifyCode(h, u), UNCHANGED enrolAlone
      PROVE  EnrolIInv'
  <2>0. proven' = proven \cup {secret[u]} /\ secret[u] \in Nat
    BY <1>9 DEF F!VerifyCode
  <2>1. F!TypeOK' /\ proven \subseteq proven'
    <3>1. proven' \subseteq Nat /\ proven \subseteq proven'
      BY <2>0
    <3> QED
      BY <1>9, <3>1 DEF F!VerifyCode
  <2>2. Carries' /\ GrantAnswers'
    BY <1>9 DEF F!VerifyCode
  <2>3. LoneEnrolment'
    BY <1>9 DEF F!VerifyCode
  <2>4. F!EnforcedUnlessEditsOverlap'
    BY <1>9 DEF F!VerifyCode
  <2>5. F!SecretIsProven'
    BY <1>9, <2>1 DEF F!VerifyCode
  <2> QED
    BY <2>1, <2>2, <2>3, <2>4, <2>5
<1>10. ASSUME NEW h \in Handlers, F!ClearFlag(h), UNCHANGED enrolAlone
      PROVE  EnrolIInv'
  BY <1>10 DEF F!ClearFlag
<1>11. ASSUME NEW u \in Users, F!BeginAgain(u), UNCHANGED enrolAlone
      PROVE  EnrolIInv'
  BY <1>11 DEF F!BeginAgain, F!Generate, F!Fresh
<1>12. ASSUME NEW h \in Handlers, NEW u \in Users, F!VerifyAgain(h, u), UNCHANGED enrolAlone
      PROVE  EnrolIInv'
  <2>0. proven' = proven \cup {pending[u]} /\ pending[u] \in Nat
    BY <1>12 DEF F!VerifyAgain
  <2>1. F!TypeOK' /\ proven \subseteq proven'
    <3>1. proven' \subseteq Nat /\ proven \subseteq proven'
      BY <2>0
    <3> QED
      BY <1>12, <3>1 DEF F!VerifyAgain
  <2>2. Carries' /\ GrantAnswers'
    BY <1>12 DEF F!VerifyAgain
  <2>3. LoneEnrolment'
    BY <1>12 DEF F!VerifyAgain
  <2>4. F!EnforcedUnlessEditsOverlap'
    BY <1>12 DEF F!VerifyAgain
  <2>5. F!SecretIsProven'
    BY <1>12, <2>1 DEF F!VerifyAgain
  <2> QED
    BY <2>1, <2>2, <2>3, <2>4, <2>5
<1>13. ASSUME NEW h \in Handlers, F!ReplaceSecret(h), UNCHANGED enrolAlone
      PROVE  EnrolIInv'
  BY <1>13 DEF F!ReplaceSecret
<1>14. ASSUME NEW h \in Handlers, F!DropPending(h), UNCHANGED enrolAlone
      PROVE  EnrolIInv'
  BY <1>14 DEF F!DropPending
<1>15. ASSUME NEW u \in Users, F!PendingExpires(u), UNCHANGED enrolAlone
      PROVE  EnrolIInv'
  BY <1>15 DEF F!PendingExpires
<1> QED
  BY <1>0, <1>1, <1>2, <1>3, <1>4, <1>5, <1>6, <1>7, <1>8, <1>9, <1>10, <1>11, <1>12, <1>13, <1>14, <1>15
     DEF F!Next, F!Step, F!HandlerStart, F!HandlerStep

LEMMA EnrolmentRuns == AccountsSpec => F!Spec
<1>1. AccountsInit => F!Init
  BY DEF AccountsInit
<1>2. [AccountsNext]_accountVars => [F!Next]_(F!vars)
  BY DEF AccountsNext, accountVars, enrolOnly, F!vars, F!dbVars, F!secretVars, F!handlerVars
<1> QED
  BY <1>1, <1>2, PTL DEF AccountsSpec, F!Spec

\* EnrolmentHolds: who holds a role that asks for a second factor has one or is held in
\* onboarding, unless the role was given to him at his creation and has not asked him since,
\* or an edit of it overlaps; and where requests do not overlap the secret of who is through
\* is one he has shown (members.service, roles.service, auth.service).
THEOREM EnrolmentStands == AccountsSpec => []EnrolmentHolds
<1>1. EnrolIInv /\ [F!Next]_(F!vars) => EnrolIInv'
  BY EnrolStep
<1>2. EnrolIInv => EnrolmentHolds
  BY DEF EnrolIInv, EnrolmentHolds, F!EnrolmentHolds
<1> QED
  BY <1>1, <1>2, EnrolInit, EnrolmentRuns, PTL DEF F!Spec

-----------------------------------------------------------------------------
(* EmailChange: the address a member logs in by.                           *)

Outcome == {"PENDING", "CONFIRMED", "CANCELLED", "EXPIRED"}
Asked   == [user : Neighbours, new : Addresses, late : BOOLEAN, status : Outcome]
Call    == [at : {"idle", "issue", "request", "confirm", "cancel"},
            user : Neighbours \cup {E!Nobody}, id : 0..MaxRequests,
            address : Addresses \cup {E!Anonymous}]

\* A request on its way knows its member, and the change it is about.
CallsKnow ==
  \A h \in Handlers :
    /\ call[h].at # "idle" => call[h].user \in Neighbours
    /\ call[h].at \in {"issue", "request"} => /\ call[h].address \in Addresses
                                              /\ standing[call[h].user] # "none"
    /\ call[h].at \in {"confirm", "cancel"} => /\ call[h].id \in DOMAIN requests
                                               /\ requests[call[h].id].user = call[h].user

\* One change at a time, and what is confirmed has changed the address.
OnePending ==
  \A i, j \in DOMAIN requests :
    requests[i].user = requests[j].user /\ requests[i].status = "PENDING"
                                        /\ requests[j].status = "PENDING" => i = j

Recorded ==
  \A i \in DOMAIN requests :
    /\ requests[i].status = "CONFIRMED" => i \in moved
    /\ emailAlone /\ i \in moved => requests[i].status = "CONFIRMED"

\* Who is here has an address, and who has a session is or was here.
Reachable ==
  /\ \A u \in Neighbours : standing[u] = "here" => email[u] \in Addresses
  /\ \A s \in sessions : standing[s.user] # "none"

\* What an anonymized member had asked for has lapsed, and nobody is at work on it.
AtPeace ==
  \A u \in Neighbours : standing[u] = "anonymized" =>
    /\ email[u] = E!Anonymous
    /\ \A h \in Handlers : call[h].at # "idle" => call[h].user # u
    /\ \A i \in DOMAIN requests :
         requests[i].user = u /\ requests[i].status = "PENDING" => requests[i].late

\* Where requests come one at a time, the one there is finds what it has read.
LoneCall ==
  emailAlone => \A h \in Handlers : call[h].at # "idle" =>
    /\ \A g \in Handlers : call[g].at # "idle" => g = h
    /\ call[h].at = "issue" => call[h].address = email[call[h].user]
    /\ call[h].at = "cancel" => call[h].id \notin moved

EmailIInv ==
  /\ E!TypeOK /\ Len(requests) <= MaxRequests
  /\ CallsKnow /\ OnePending /\ Recorded /\ Reachable /\ AtPeace /\ LoneCall
  /\ E!SessionsFollow


\* What the operators on the rows return.
LEMMA AskedRow ==
  ASSUME E!TypeOK, NEW i \in DOMAIN requests
  PROVE  /\ requests[i] \in Asked
         /\ [requests[i] EXCEPT !.late = TRUE] \in Asked
         /\ \A s \in Outcome : [requests[i] EXCEPT !.status = s] \in Asked
<1>1. requests \in Seq(Asked)
  BY DEF E!TypeOK, Asked, Outcome
<1>2. requests[i] \in Asked
  BY <1>1
<1> QED
  BY <1>2 DEF Asked

LEMMA OutcomeSet ==
  ASSUME E!TypeOK, NEW i \in DOMAIN requests, NEW s \in Outcome,
         requests' = [requests EXCEPT ![i].status = s]
  PROVE  /\ requests' \in Seq(Asked) /\ DOMAIN requests' = DOMAIN requests /\ Len(requests') = Len(requests)
         /\ \A j \in DOMAIN requests :
              /\ requests'[j].user = requests[j].user /\ requests'[j].new = requests[j].new
              /\ requests'[j].late = requests[j].late
              /\ requests'[j].status = IF j = i THEN s ELSE requests[j].status
<1>1. requests \in Seq(Asked)
  BY DEF E!TypeOK, Asked, Outcome
<1>2. \A j \in DOMAIN requests : requests[j] \in Asked
  BY <1>1
<1>3. [requests[i] EXCEPT !.status = s] \in Asked
  BY AskedRow
<1>4. requests' \in Seq(Asked) /\ DOMAIN requests' = DOMAIN requests /\ Len(requests') = Len(requests)
  BY <1>1, <1>3
<1> QED
  BY <1>1, <1>2, <1>4 DEF Asked

LEMMA LateSet ==
  ASSUME E!TypeOK, NEW i \in DOMAIN requests,
         requests' = [requests EXCEPT ![i].late = TRUE]
  PROVE  /\ requests' \in Seq(Asked) /\ DOMAIN requests' = DOMAIN requests /\ Len(requests') = Len(requests)
         /\ \A j \in DOMAIN requests :
              /\ requests'[j].user = requests[j].user /\ requests'[j].new = requests[j].new
              /\ requests'[j].status = requests[j].status
              /\ requests[j].late => requests'[j].late
<1>1. requests \in Seq(Asked)
  BY DEF E!TypeOK, Asked, Outcome
<1>2. \A j \in DOMAIN requests : requests[j] \in Asked
  BY <1>1
<1>3. [requests[i] EXCEPT !.late = TRUE] \in Asked
  BY AskedRow
<1>4. requests' \in Seq(Asked) /\ DOMAIN requests' = DOMAIN requests /\ Len(requests') = Len(requests)
  BY <1>1, <1>3
<1> QED
  BY <1>1, <1>2, <1>4 DEF Asked

LEMMA ExpiredRows ==
  ASSUME E!TypeOK, NEW u \in Neighbours
  PROVE  /\ E!Expired(u) \in Seq(Asked) /\ DOMAIN E!Expired(u) = DOMAIN requests
         /\ Len(E!Expired(u)) = Len(requests)
         /\ \A j \in DOMAIN requests :
              /\ E!Expired(u)[j].user = requests[j].user
              /\ E!Expired(u)[j].new = requests[j].new
              /\ E!Expired(u)[j].late = requests[j].late
              /\ \/ E!Expired(u)[j].status = requests[j].status
                 \/ requests[j].status = "PENDING" /\ E!Expired(u)[j].status = "EXPIRED"
<1>1. requests \in Seq(Asked)
  BY DEF E!TypeOK, Asked, Outcome
<1>2. \A j \in DOMAIN requests : /\ requests[j] \in Asked
                                 /\ [requests[j] EXCEPT !.status = "EXPIRED"] \in Asked
  BY <1>1, AskedRow DEF Outcome
<1> DEFINE R(j) == IF j \in E!Pending(u) /\ requests[j].late
                   THEN [requests[j] EXCEPT !.status = "EXPIRED"] ELSE requests[j]
<1>3. E!Expired(u) = [j \in DOMAIN requests |-> R(j)]
  BY DEF E!Expired, E!Ids
<1>4. \A j \in DOMAIN requests : R(j) \in Asked
  BY <1>2
<1>5. /\ E!Expired(u) \in Seq(Asked) /\ DOMAIN E!Expired(u) = DOMAIN requests
      /\ Len(E!Expired(u)) = Len(requests)
  <2> HIDE DEF R
  <2> QED
    BY <1>1, <1>3, <1>4
<1> QED
  BY <1>2, <1>3, <1>5 DEF Asked, E!Pending, E!Ids

LEMMA EmailInit ==
  ASSUME E!Init, MaxRequests \in Nat PROVE EmailIInv
BY DEF E!Init, EmailIInv, E!TypeOK, E!Ids, CallsKnow, OnePending, Recorded, Reachable, AtPeace, LoneCall, E!SessionsFollow, E!Waiting, E!Nobody, E!Anonymous

LEMMA EmailStep ==
  ASSUME EmailIInv, [E!Next]_(E!emailVars), MaxRequests \in Nat
  PROVE  EmailIInv'
<1> USE DEF EmailIInv
<1>0. CASE UNCHANGED E!emailVars
  BY <1>0 DEF E!emailVars, E!TypeOK, E!Ids, CallsKnow, OnePending, Recorded, Reachable, AtPeace, LoneCall, E!SessionsFollow
<1>1. ASSUME NEW u \in Neighbours, NEW a \in Addresses, E!SignUp(u, a)
      PROVE  EmailIInv'
  <2>1. E!TypeOK' /\ Len(requests') <= MaxRequests
    BY <1>1 DEF E!SignUp, E!TypeOK, E!Ids, Asked, Outcome, Call
  <2>2. CallsKnow'
    BY <1>1 DEF E!SignUp, E!TypeOK, CallsKnow, Reachable, Asked
  <2>3. OnePending'
    BY <1>1 DEF E!SignUp, OnePending
  <2>4. Recorded'
    BY <1>1 DEF E!SignUp, Recorded, CallsKnow, LoneCall, E!TypeOK, E!Ids
  <2>5. Reachable'
    BY <1>1 DEF E!SignUp, E!TypeOK, Reachable, CallsKnow, Asked
  <2>6. AtPeace'
    BY <1>1 DEF E!SignUp, E!TypeOK, AtPeace, CallsKnow
  <2>7. LoneCall'
    BY <1>1 DEF E!SignUp, E!TypeOK, LoneCall, CallsKnow, Recorded
  <2>8. E!SessionsFollow'
    BY <1>1 DEF E!SignUp, E!TypeOK, E!SessionsFollow, Reachable, CallsKnow, LoneCall
  <2> QED
    BY <2>1, <2>2, <2>3, <2>4, <2>5, <2>6, <2>7, <2>8
<1>2. ASSUME NEW u \in Neighbours, E!Show(u)
      PROVE  EmailIInv'
  <2>1. /\ requests' \in Seq(Asked) /\ DOMAIN requests' = DOMAIN requests
        /\ Len(requests') = Len(requests)
        /\ \A j \in DOMAIN requests :
             /\ requests'[j].user = requests[j].user /\ requests'[j].new = requests[j].new
             /\ requests'[j].late = requests[j].late
             /\ \/ requests'[j].status = requests[j].status
                \/ requests[j].status = "PENDING" /\ requests'[j].status = "EXPIRED"
    BY <1>2, ExpiredRows DEF E!Show
  <2>2. E!TypeOK' /\ Len(requests') <= MaxRequests
    BY <1>2, <2>1 DEF E!Show, E!TypeOK, E!Ids, Asked, Outcome, Call
  <2>3. CallsKnow'
    BY <1>2, <2>1 DEF E!Show, E!TypeOK, CallsKnow, Reachable, Asked
  <2>4. OnePending'
    BY <1>2, <2>1 DEF E!Show, OnePending
  <2>5. Recorded'
    BY <1>2, <2>1 DEF E!Show, Recorded, CallsKnow, LoneCall, E!TypeOK, E!Ids
  <2>6. Reachable'
    BY <1>2, <2>1 DEF E!Show, E!TypeOK, Reachable, CallsKnow, Asked
  <2>7. AtPeace'
    <3>1. \A i \in DOMAIN requests : requests'[i].status = "PENDING" => requests[i].status = "PENDING"
      BY <2>1
    <3> QED
      BY <1>2, <2>1, <3>1 DEF E!Show, AtPeace
  <2>8. LoneCall'
    BY <1>2, <2>1 DEF E!Show, E!TypeOK, LoneCall, CallsKnow, Recorded
  <2>9. E!SessionsFollow'
    BY <1>2, <2>1 DEF E!Show, E!TypeOK, E!SessionsFollow, Reachable, CallsKnow, LoneCall
  <2> QED
    BY <2>2, <2>3, <2>4, <2>5, <2>6, <2>7, <2>8, <2>9
<1>3. ASSUME NEW u \in Neighbours, E!Delete(u)
      PROVE  EmailIInv'
  <2>1. E!TypeOK' /\ Len(requests') <= MaxRequests
    BY <1>3 DEF E!Delete, E!TypeOK, E!Ids, Asked, Outcome, Call
  <2>2. CallsKnow'
    BY <1>3 DEF E!Delete, E!TypeOK, CallsKnow, Reachable, Asked
  <2>3. OnePending'
    BY <1>3 DEF E!Delete, OnePending
  <2>4. Recorded'
    BY <1>3 DEF E!Delete, Recorded, CallsKnow, LoneCall, E!TypeOK, E!Ids
  <2>5. Reachable'
    BY <1>3 DEF E!Delete, E!TypeOK, Reachable, CallsKnow, Asked
  <2>6. AtPeace'
    BY <1>3 DEF E!Delete, E!TypeOK, AtPeace, CallsKnow
  <2>7. LoneCall'
    BY <1>3 DEF E!Delete, E!TypeOK, LoneCall, CallsKnow, Recorded
  <2>8. E!SessionsFollow'
    BY <1>3 DEF E!Delete, E!TypeOK, E!SessionsFollow, Reachable, CallsKnow, LoneCall
  <2> QED
    BY <2>1, <2>2, <2>3, <2>4, <2>5, <2>6, <2>7, <2>8
<1>4. ASSUME NEW u \in Neighbours, E!Anonymize(u)
      PROVE  EmailIInv'
  <2>1. E!TypeOK' /\ Len(requests') <= MaxRequests
    BY <1>4 DEF E!Anonymize, E!Pending, E!Ids, E!TypeOK, E!Ids, Asked, Outcome, Call
  <2>2. CallsKnow'
    BY <1>4 DEF E!Anonymize, E!Pending, E!Ids, E!TypeOK, CallsKnow, Reachable, Asked
  <2>3. OnePending'
    BY <1>4 DEF E!Anonymize, E!Pending, E!Ids, OnePending
  <2>4. Recorded'
    BY <1>4 DEF E!Anonymize, E!Pending, E!Ids, Recorded, CallsKnow, LoneCall, E!TypeOK, E!Ids
  <2>5. Reachable'
    BY <1>4 DEF E!Anonymize, E!Pending, E!Ids, E!TypeOK, Reachable, CallsKnow, Asked
  <2>6. AtPeace'
    BY <1>4 DEF E!Anonymize, E!Pending, E!Ids, E!TypeOK, AtPeace, CallsKnow
  <2>7. LoneCall'
    BY <1>4 DEF E!Anonymize, E!Pending, E!Ids, E!TypeOK, LoneCall, CallsKnow, Recorded
  <2>8. E!SessionsFollow'
    BY <1>4 DEF E!Anonymize, E!Pending, E!Ids, E!TypeOK, E!SessionsFollow, Reachable, CallsKnow, LoneCall
  <2> QED
    BY <2>1, <2>2, <2>3, <2>4, <2>5, <2>6, <2>7, <2>8
<1>5. ASSUME NEW i \in DOMAIN requests, E!Lapse(i)
      PROVE  EmailIInv'
  <2>1. /\ requests' \in Seq(Asked) /\ DOMAIN requests' = DOMAIN requests
        /\ Len(requests') = Len(requests)
        /\ \A j \in DOMAIN requests :
             /\ requests'[j].user = requests[j].user /\ requests'[j].new = requests[j].new
             /\ requests'[j].status = requests[j].status
             /\ requests[j].late => requests'[j].late
    BY <1>5, LateSet DEF E!Lapse
  <2>2. E!TypeOK' /\ Len(requests') <= MaxRequests
    BY <1>5, <2>1 DEF E!Lapse, E!TypeOK, E!Ids, Asked, Outcome, Call
  <2>3. CallsKnow'
    BY <1>5, <2>1 DEF E!Lapse, E!TypeOK, CallsKnow, Reachable, Asked
  <2>4. OnePending'
    BY <1>5, <2>1 DEF E!Lapse, OnePending
  <2>5. Recorded'
    BY <1>5, <2>1 DEF E!Lapse, Recorded, CallsKnow, LoneCall, E!TypeOK, E!Ids
  <2>6. Reachable'
    BY <1>5, <2>1 DEF E!Lapse, E!TypeOK, Reachable, CallsKnow, Asked
  <2>7. AtPeace'
    BY <1>5, <2>1 DEF E!Lapse, E!TypeOK, AtPeace, CallsKnow
  <2>8. LoneCall'
    BY <1>5, <2>1 DEF E!Lapse, E!TypeOK, LoneCall, CallsKnow, Recorded
  <2>9. E!SessionsFollow'
    BY <1>5, <2>1 DEF E!Lapse, E!TypeOK, E!SessionsFollow, Reachable, CallsKnow, LoneCall
  <2> QED
    BY <2>2, <2>3, <2>4, <2>5, <2>6, <2>7, <2>8, <2>9
<1>6. ASSUME NEW h \in Handlers, NEW u \in Neighbours, E!ReadLogin(h, u)
      PROVE  EmailIInv'
  <2>1. /\ call \in [Handlers -> Call] /\ E!Waiting \in Call
    BY DEF E!TypeOK, E!Waiting, Call
  <2>2. u \in Neighbours /\ 0 \in 0..MaxRequests /\ email[u] \in Addresses \cup {E!Anonymous}
    BY <1>6 DEF E!ReadLogin, E!TypeOK, Asked
  <2>3. /\ call' \in [Handlers -> Call]
        /\ \A g \in Handlers \ {h} : call'[g] = call[g]
        /\ call'[h].at = "issue" /\ call'[h].user = u /\ call'[h].id = 0
        /\ call'[h].address = email[u]
    BY <1>6, <2>1, <2>2 DEF E!ReadLogin, E!Begin, E!Waiting, Call
  <2>4. E!TypeOK' /\ Len(requests') <= MaxRequests
    BY <1>6, <2>3 DEF E!ReadLogin, E!Begin, E!TypeOK, E!Ids, Asked, Outcome, Call
  <2>5. CallsKnow'
    BY <1>6, <2>3 DEF E!ReadLogin, E!Begin, E!TypeOK, CallsKnow, Reachable, Asked
  <2>6. OnePending'
    BY <1>6, <2>3 DEF E!ReadLogin, E!Begin, OnePending
  <2>11. Recorded'
    BY <1>6, <2>3 DEF E!ReadLogin, E!Begin, Recorded, CallsKnow, LoneCall, E!TypeOK, E!Ids
  <2>7. Reachable'
    BY <1>6, <2>3 DEF E!ReadLogin, E!Begin, E!TypeOK, Reachable, CallsKnow, Asked
  <2>8. AtPeace'
    BY <1>6, <2>3 DEF E!ReadLogin, E!Begin, E!TypeOK, AtPeace, CallsKnow
  <2>9. LoneCall'
    BY <1>6, <2>3 DEF E!ReadLogin, E!Begin, E!TypeOK, LoneCall, CallsKnow, Recorded
  <2>10. E!SessionsFollow'
    BY <1>6, <2>3 DEF E!ReadLogin, E!Begin, E!TypeOK, E!SessionsFollow, Reachable, CallsKnow, LoneCall
  <2> QED
    BY <2>4, <2>5, <2>6, <2>11, <2>7, <2>8, <2>9, <2>10
<1>7. ASSUME NEW h \in Handlers, E!Issue(h)
      PROVE  EmailIInv'
  <2>1. /\ call' \in [Handlers -> Call]
        /\ \A g \in Handlers \ {h} : call'[g] = call[g]
        /\ call'[h].at = "idle"
    BY <1>7 DEF E!Issue, E!End, E!Waiting, E!TypeOK, Call
  <2>2. E!TypeOK' /\ Len(requests') <= MaxRequests
    <3>1. call[h].user \in Neighbours /\ call[h].address \in Addresses
      BY <1>7 DEF E!Issue, CallsKnow
    <3>2. sessions' \subseteq [user : Neighbours, by : Addresses]
      BY <1>7, <3>1 DEF E!Issue, E!TypeOK
    <3> QED
      BY <1>7, <2>1, <3>2 DEF E!Issue, E!TypeOK, E!Ids, Call
  <2>3. CallsKnow'
    BY <1>7, <2>1 DEF E!Issue, E!End, E!Waiting, E!TypeOK, CallsKnow, Reachable, Asked
  <2>4. OnePending'
    BY <1>7, <2>1 DEF E!Issue, E!End, E!Waiting, OnePending
  <2>5. Recorded'
    BY <1>7, <2>1 DEF E!Issue, E!End, E!Waiting, Recorded, CallsKnow, LoneCall, E!TypeOK, E!Ids
  <2>6. Reachable'
    BY <1>7, <2>1 DEF E!Issue, E!End, E!Waiting, E!TypeOK, Reachable, CallsKnow, Asked
  <2>7. AtPeace'
    BY <1>7, <2>1 DEF E!Issue, E!End, E!Waiting, E!TypeOK, AtPeace, CallsKnow
  <2>8. LoneCall'
    BY <1>7, <2>1 DEF E!Issue, E!End, E!Waiting, E!TypeOK, LoneCall, CallsKnow, Recorded
  <2>9. E!SessionsFollow'
    BY <1>7, <2>1 DEF E!Issue, E!End, E!Waiting, E!TypeOK, E!SessionsFollow, Reachable, CallsKnow, LoneCall
  <2> QED
    BY <2>2, <2>3, <2>4, <2>5, <2>6, <2>7, <2>8, <2>9
<1>8. ASSUME NEW h \in Handlers, NEW u \in Neighbours, NEW a \in Addresses, E!ReadRequest(h, u, a)
      PROVE  EmailIInv'
  <2>1. /\ requests' \in Seq(Asked) /\ DOMAIN requests' = DOMAIN requests
        /\ Len(requests') = Len(requests)
        /\ \A j \in DOMAIN requests :
             /\ requests'[j].user = requests[j].user /\ requests'[j].new = requests[j].new
             /\ requests'[j].late = requests[j].late
             /\ \/ requests'[j].status = requests[j].status
                \/ requests[j].status = "PENDING" /\ requests'[j].status = "EXPIRED"
    BY <1>8, ExpiredRows DEF E!ReadRequest
  <2>2. /\ call \in [Handlers -> Call] /\ E!Waiting \in Call
    BY DEF E!TypeOK, E!Waiting, Call
  <2>3. u \in Neighbours /\ 0 \in 0..MaxRequests /\ a \in Addresses \cup {E!Anonymous}
    BY <1>8, <2>1 DEF E!ReadRequest, E!TypeOK, Asked
  <2>4. /\ call' \in [Handlers -> Call]
        /\ \A g \in Handlers \ {h} : call'[g] = call[g]
        /\ call'[h].at = "request" /\ call'[h].user = u /\ call'[h].id = 0
        /\ call'[h].address = a
    BY <1>8, <2>2, <2>3 DEF E!ReadRequest, E!Begin, E!Waiting, Call
  <2>5. E!TypeOK' /\ Len(requests') <= MaxRequests
    BY <1>8, <2>1, <2>4 DEF E!ReadRequest, E!Begin, E!TypeOK, E!Ids, Asked, Outcome, Call
  <2>6. CallsKnow'
    BY <1>8, <2>1, <2>4 DEF E!ReadRequest, E!Begin, E!TypeOK, CallsKnow, Reachable, Asked
  <2>7. OnePending'
    BY <1>8, <2>1, <2>4 DEF E!ReadRequest, E!Begin, OnePending
  <2>12. Recorded'
    BY <1>8, <2>1, <2>4 DEF E!ReadRequest, E!Begin, Recorded, CallsKnow, LoneCall, E!TypeOK, E!Ids
  <2>8. Reachable'
    BY <1>8, <2>1, <2>4 DEF E!ReadRequest, E!Begin, E!TypeOK, Reachable, CallsKnow, Asked
  <2>9. AtPeace'
    BY <1>8, <2>1, <2>4 DEF E!ReadRequest, E!Begin, E!TypeOK, AtPeace, CallsKnow
  <2>10. LoneCall'
    BY <1>8, <2>1, <2>4 DEF E!ReadRequest, E!Begin, E!TypeOK, LoneCall, CallsKnow, Recorded
  <2>11. E!SessionsFollow'
    BY <1>8, <2>1, <2>4 DEF E!ReadRequest, E!Begin, E!TypeOK, E!SessionsFollow, Reachable, CallsKnow, LoneCall
  <2> QED
    BY <2>5, <2>6, <2>7, <2>12, <2>8, <2>9, <2>10, <2>11
<1>9. ASSUME NEW h \in Handlers, E!CreateRequest(h)
      PROVE  EmailIInv'
  <2>1. /\ call' \in [Handlers -> Call]
        /\ \A g \in Handlers \ {h} : call'[g] = call[g]
        /\ call'[h].at = "idle"
    BY <1>9 DEF E!CreateRequest, E!End, E!Waiting, E!TypeOK, Call
  <2>2. E!TypeOK' /\ Len(requests') <= MaxRequests
    <3>1. requests \in Seq(Asked)
      BY DEF E!TypeOK, Asked, Outcome
    <3>2. [user |-> call[h].user, new |-> call[h].address, status |-> "PENDING", late |-> FALSE]
            \in Asked
      BY <1>9 DEF E!CreateRequest, CallsKnow, Asked, Outcome
    <3>3. requests' \in Seq(Asked) /\ Len(requests') <= MaxRequests
                                  /\ DOMAIN requests \subseteq DOMAIN requests'
      BY <1>9, <3>1, <3>2 DEF E!CreateRequest
    <3> QED
      BY <1>9, <2>1, <3>3 DEF E!CreateRequest, E!TypeOK, E!Ids, Call, Asked, Outcome
  <2>3. CallsKnow'
    BY <1>9, <2>1 DEF E!CreateRequest, E!Pending, E!Ids, E!End, E!Waiting, E!TypeOK, CallsKnow, Reachable, Asked
  <2>4. OnePending'
    BY <1>9, <2>1 DEF E!CreateRequest, E!Pending, E!Ids, E!End, E!Waiting, OnePending
  <2>5. Recorded'
    BY <1>9, <2>1 DEF E!CreateRequest, E!Pending, E!Ids, E!End, E!Waiting, Recorded, CallsKnow, LoneCall, E!TypeOK, E!Ids
  <2>6. Reachable'
    BY <1>9, <2>1 DEF E!CreateRequest, E!Pending, E!Ids, E!End, E!Waiting, E!TypeOK, Reachable, CallsKnow, Asked
  <2>7. AtPeace'
    BY <1>9, <2>1 DEF E!CreateRequest, E!Pending, E!Ids, E!End, E!Waiting, E!TypeOK, AtPeace, CallsKnow
  <2>8. LoneCall'
    BY <1>9, <2>1 DEF E!CreateRequest, E!Pending, E!Ids, E!End, E!Waiting, E!TypeOK, LoneCall, CallsKnow, Recorded
  <2>9. E!SessionsFollow'
    BY <1>9, <2>1 DEF E!CreateRequest, E!Pending, E!Ids, E!End, E!Waiting, E!TypeOK, E!SessionsFollow, Reachable, CallsKnow, LoneCall
  <2> QED
    BY <2>2, <2>3, <2>4, <2>5, <2>6, <2>7, <2>8, <2>9
<1>10. ASSUME NEW h \in Handlers, NEW i \in DOMAIN requests, E!ReadConfirm(h, i)
      PROVE  EmailIInv'
  <2>1. requests[i] \in Asked
    BY AskedRow
  <2>2. /\ call \in [Handlers -> Call] /\ E!Waiting \in Call
    BY DEF E!TypeOK, E!Waiting, Call
  <2>3. requests[i].user \in Neighbours /\ i \in 0..MaxRequests /\ E!Anonymous \in Addresses \cup {E!Anonymous}
    BY <1>10, <2>1 DEF E!ReadConfirm, E!TypeOK, Asked
  <2>4. /\ call' \in [Handlers -> Call]
        /\ \A g \in Handlers \ {h} : call'[g] = call[g]
        /\ call'[h].at = "confirm" /\ call'[h].user = requests[i].user /\ call'[h].id = i
        /\ call'[h].address = E!Anonymous
    BY <1>10, <2>2, <2>3 DEF E!ReadConfirm, E!Begin, E!Waiting, Call
  <2>5. E!TypeOK' /\ Len(requests') <= MaxRequests
    BY <1>10, <2>1, <2>4 DEF E!ReadConfirm, E!Begin, E!TypeOK, E!Ids, Asked, Outcome, Call
  <2>6. CallsKnow'
    BY <1>10, <2>1, <2>4 DEF E!ReadConfirm, E!Begin, E!TypeOK, CallsKnow, Reachable, Asked
  <2>7. OnePending'
    BY <1>10, <2>1, <2>4 DEF E!ReadConfirm, E!Begin, OnePending
  <2>12. Recorded'
    BY <1>10, <2>1, <2>4 DEF E!ReadConfirm, E!Begin, Recorded, CallsKnow, LoneCall, E!TypeOK, E!Ids
  <2>8. Reachable'
    BY <1>10, <2>1, <2>4 DEF E!ReadConfirm, E!Begin, E!TypeOK, Reachable, CallsKnow, Asked
  <2>9. AtPeace'
    BY <1>10, <2>1, <2>4 DEF E!ReadConfirm, E!Begin, E!TypeOK, AtPeace, CallsKnow
  <2>10. LoneCall'
    BY <1>10, <2>1, <2>4 DEF E!ReadConfirm, E!Begin, E!TypeOK, LoneCall, CallsKnow, Recorded
  <2>11. E!SessionsFollow'
    BY <1>10, <2>1, <2>4 DEF E!ReadConfirm, E!Begin, E!TypeOK, E!SessionsFollow, Reachable, CallsKnow, LoneCall
  <2> QED
    BY <2>5, <2>6, <2>7, <2>12, <2>8, <2>9, <2>10, <2>11
<1>11. ASSUME NEW h \in Handlers, NEW i \in DOMAIN requests, E!ReadCancel(h, i)
      PROVE  EmailIInv'
  <2>1. requests[i] \in Asked
    BY AskedRow
  <2>2. /\ call \in [Handlers -> Call] /\ E!Waiting \in Call
    BY DEF E!TypeOK, E!Waiting, Call
  <2>3. requests[i].user \in Neighbours /\ i \in 0..MaxRequests /\ E!Anonymous \in Addresses \cup {E!Anonymous}
    BY <1>11, <2>1 DEF E!ReadCancel, E!TypeOK, Asked
  <2>4. /\ call' \in [Handlers -> Call]
        /\ \A g \in Handlers \ {h} : call'[g] = call[g]
        /\ call'[h].at = "cancel" /\ call'[h].user = requests[i].user /\ call'[h].id = i
        /\ call'[h].address = E!Anonymous
    BY <1>11, <2>2, <2>3 DEF E!ReadCancel, E!Begin, E!Waiting, Call
  <2>5. E!TypeOK' /\ Len(requests') <= MaxRequests
    BY <1>11, <2>1, <2>4 DEF E!ReadCancel, E!Begin, E!TypeOK, E!Ids, Asked, Outcome, Call
  <2>6. CallsKnow'
    BY <1>11, <2>1, <2>4 DEF E!ReadCancel, E!Begin, E!TypeOK, CallsKnow, Reachable, Asked
  <2>7. OnePending'
    BY <1>11, <2>1, <2>4 DEF E!ReadCancel, E!Begin, OnePending
  <2>12. Recorded'
    BY <1>11, <2>1, <2>4 DEF E!ReadCancel, E!Begin, Recorded, CallsKnow, LoneCall, E!TypeOK, E!Ids
  <2>8. Reachable'
    BY <1>11, <2>1, <2>4 DEF E!ReadCancel, E!Begin, E!TypeOK, Reachable, CallsKnow, Asked
  <2>9. AtPeace'
    BY <1>11, <2>1, <2>4 DEF E!ReadCancel, E!Begin, E!TypeOK, AtPeace, CallsKnow
  <2>10. LoneCall'
    BY <1>11, <2>1, <2>4 DEF E!ReadCancel, E!Begin, E!TypeOK, LoneCall, CallsKnow, Recorded
  <2>11. E!SessionsFollow'
    BY <1>11, <2>1, <2>4 DEF E!ReadCancel, E!Begin, E!TypeOK, E!SessionsFollow, Reachable, CallsKnow, LoneCall
  <2> QED
    BY <2>5, <2>6, <2>7, <2>12, <2>8, <2>9, <2>10, <2>11
<1>12. ASSUME NEW h \in Handlers, E!Confirm(h)
      PROVE  EmailIInv'
  <2>1. call[h].id \in DOMAIN requests
    BY <1>12 DEF E!Confirm, CallsKnow
  <2>2. /\ requests' \in Seq(Asked) /\ DOMAIN requests' = DOMAIN requests
        /\ Len(requests') = Len(requests)
        /\ \A j \in DOMAIN requests :
             /\ requests'[j].user = requests[j].user /\ requests'[j].new = requests[j].new
             /\ requests'[j].late = requests[j].late
             /\ requests'[j].status = IF j = call[h].id THEN "CONFIRMED" ELSE requests[j].status
    BY <1>12, <2>1, OutcomeSet DEF E!Confirm, Outcome
  <2>3. /\ call' \in [Handlers -> Call]
        /\ \A g \in Handlers \ {h} : call'[g] = call[g]
        /\ call'[h].at = "idle"
    BY <1>12 DEF E!Confirm, E!End, E!Waiting, E!TypeOK, Call
  <2>4. E!TypeOK' /\ Len(requests') <= MaxRequests
    <3>1. requests[call[h].id].new \in Addresses
      BY <2>1, AskedRow DEF Asked
    <3>2. email' \in [Neighbours -> Addresses \cup {E!Anonymous}]
      BY <1>12, <3>1 DEF E!Confirm, E!TypeOK
    <3>3. moved' \subseteq DOMAIN requests'
      BY <1>12, <2>1, <2>2 DEF E!Confirm, E!TypeOK, E!Ids
    <3>4. sessions' \subseteq sessions
      BY <1>12 DEF E!Confirm
    <3>5. UNCHANGED <<emailAlone, standing>>
      BY <1>12 DEF E!Confirm
    <3> QED
      BY <2>2, <2>3, <3>2, <3>3, <3>4, <3>5 DEF E!TypeOK, E!Ids, Call, Asked, Outcome
  <2>5. CallsKnow'
    BY <1>12, <2>1, <2>2, <2>3 DEF E!Confirm, E!End, E!Waiting, E!TypeOK, CallsKnow, Reachable, Asked
  <2>6. OnePending'
    BY <1>12, <2>1, <2>2, <2>3 DEF E!Confirm, E!End, E!Waiting, OnePending
  <2>7. Recorded'
    BY <1>12, <2>1, <2>2, <2>3 DEF E!Confirm, E!End, E!Waiting, Recorded, CallsKnow, LoneCall, E!TypeOK, E!Ids
  <2>8. Reachable'
    BY <1>12, <2>1, <2>2, <2>3 DEF E!Confirm, E!End, E!Waiting, E!TypeOK, Reachable, CallsKnow, Asked
  <2>9. AtPeace'
    BY <1>12, <2>1, <2>2, <2>3 DEF E!Confirm, E!End, E!Waiting, E!TypeOK, AtPeace, CallsKnow
  <2>10. LoneCall'
    BY <1>12, <2>1, <2>2, <2>3 DEF E!Confirm, E!End, E!Waiting, E!TypeOK, LoneCall, CallsKnow, Recorded
  <2>11. E!SessionsFollow'
    BY <1>12, <2>1, <2>2, <2>3 DEF E!Confirm, E!End, E!Waiting, E!TypeOK, E!SessionsFollow, Reachable, CallsKnow, LoneCall
  <2> QED
    BY <2>4, <2>5, <2>6, <2>7, <2>8, <2>9, <2>10, <2>11
<1>13. ASSUME NEW h \in Handlers, E!ConfirmTaken(h)
      PROVE  EmailIInv'
  <2>1. /\ call' \in [Handlers -> Call]
        /\ \A g \in Handlers \ {h} : call'[g] = call[g]
        /\ call'[h].at = "idle"
    BY <1>13 DEF E!ConfirmTaken, E!End, E!Waiting, E!TypeOK, Call
  <2>2. E!TypeOK' /\ Len(requests') <= MaxRequests
    BY <1>13, <2>1 DEF E!ConfirmTaken, E!End, E!Waiting, E!TypeOK, E!Ids, Asked, Outcome, Call
  <2>3. CallsKnow'
    BY <1>13, <2>1 DEF E!ConfirmTaken, E!End, E!Waiting, E!TypeOK, CallsKnow, Reachable, Asked
  <2>4. OnePending'
    BY <1>13, <2>1 DEF E!ConfirmTaken, E!End, E!Waiting, OnePending
  <2>5. Recorded'
    BY <1>13, <2>1 DEF E!ConfirmTaken, E!End, E!Waiting, Recorded, CallsKnow, LoneCall, E!TypeOK, E!Ids
  <2>6. Reachable'
    BY <1>13, <2>1 DEF E!ConfirmTaken, E!End, E!Waiting, E!TypeOK, Reachable, CallsKnow, Asked
  <2>7. AtPeace'
    BY <1>13, <2>1 DEF E!ConfirmTaken, E!End, E!Waiting, E!TypeOK, AtPeace, CallsKnow
  <2>8. LoneCall'
    BY <1>13, <2>1 DEF E!ConfirmTaken, E!End, E!Waiting, E!TypeOK, LoneCall, CallsKnow, Recorded
  <2>9. E!SessionsFollow'
    BY <1>13, <2>1 DEF E!ConfirmTaken, E!End, E!Waiting, E!TypeOK, E!SessionsFollow, Reachable, CallsKnow, LoneCall
  <2> QED
    BY <2>2, <2>3, <2>4, <2>5, <2>6, <2>7, <2>8, <2>9
<1>14. ASSUME NEW h \in Handlers, E!Cancel(h)
      PROVE  EmailIInv'
  <2>1. call[h].id \in DOMAIN requests
    BY <1>14 DEF E!Cancel, CallsKnow
  <2>2. /\ requests' \in Seq(Asked) /\ DOMAIN requests' = DOMAIN requests
        /\ Len(requests') = Len(requests)
        /\ \A j \in DOMAIN requests :
             /\ requests'[j].user = requests[j].user /\ requests'[j].new = requests[j].new
             /\ requests'[j].late = requests[j].late
             /\ requests'[j].status = IF j = call[h].id THEN "CANCELLED" ELSE requests[j].status
    BY <1>14, <2>1, OutcomeSet DEF E!Cancel, Outcome
  <2>3. /\ call' \in [Handlers -> Call]
        /\ \A g \in Handlers \ {h} : call'[g] = call[g]
        /\ call'[h].at = "idle"
    BY <1>14 DEF E!Cancel, E!End, E!Waiting, E!TypeOK, Call
  <2>4. E!TypeOK' /\ Len(requests') <= MaxRequests
    BY <1>14, <2>1, <2>2, <2>3 DEF E!Cancel, E!End, E!Waiting, E!TypeOK, E!Ids, Asked, Outcome, Call
  <2>5. CallsKnow'
    BY <1>14, <2>1, <2>2, <2>3 DEF E!Cancel, E!End, E!Waiting, E!TypeOK, CallsKnow, Reachable, Asked
  <2>6. OnePending'
    BY <1>14, <2>1, <2>2, <2>3 DEF E!Cancel, E!End, E!Waiting, OnePending
  <2>7. Recorded'
    BY <1>14, <2>1, <2>2, <2>3 DEF E!Cancel, E!End, E!Waiting, Recorded, CallsKnow, LoneCall, E!TypeOK, E!Ids
  <2>8. Reachable'
    BY <1>14, <2>1, <2>2, <2>3 DEF E!Cancel, E!End, E!Waiting, E!TypeOK, Reachable, CallsKnow, Asked
  <2>9. AtPeace'
    BY <1>14, <2>1, <2>2, <2>3 DEF E!Cancel, E!End, E!Waiting, E!TypeOK, AtPeace, CallsKnow
  <2>10. LoneCall'
    BY <1>14, <2>1, <2>2, <2>3 DEF E!Cancel, E!End, E!Waiting, E!TypeOK, LoneCall, CallsKnow, Recorded
  <2>11. E!SessionsFollow'
    BY <1>14, <2>1, <2>2, <2>3 DEF E!Cancel, E!End, E!Waiting, E!TypeOK, E!SessionsFollow, Reachable, CallsKnow, LoneCall
  <2> QED
    BY <2>4, <2>5, <2>6, <2>7, <2>8, <2>9, <2>10, <2>11
<1> QED
  BY <1>0, <1>1, <1>2, <1>3, <1>4, <1>5, <1>6, <1>7, <1>8, <1>9, <1>10, <1>11, <1>12, <1>13, <1>14
     DEF E!Next, E!Ids

LEMMA EmailInvariant ==
  ASSUME MaxRequests \in Nat
  PROVE  E!Spec => []EmailIInv
<1>1. E!Init => EmailIInv
  BY EmailInit
<1>2. EmailIInv /\ [E!Next]_(E!emailVars) => EmailIInv'
  BY EmailStep
<1> QED
  BY <1>1, <1>2, PTL DEF E!Spec

LEMMA EmailRuns == AccountsSpec => E!Spec
<1>1. AccountsInit => E!Init
  BY DEF AccountsInit
<1>2. [AccountsNext]_accountVars => [E!Next]_(E!emailVars)
  BY DEF AccountsNext, accountVars, emailOnly, E!emailVars
<1> QED
  BY <1>1, <1>2, PTL DEF AccountsSpec, E!Spec

\* The module's instance counts as this one does.
LEMMA EmailCardinality == ASSUME NEW S PROVE E!Cardinality(S) = Cardinality(S)
BY Zenon DEF E!Cardinality, Cardinality, E!IsFiniteSet, IsFiniteSet

\* AddressHolds: a member has one change of address at a time; where requests come one at
\* a time it is done if and only if it was confirmed, and ends the sessions of the old
\* address; and an anonymized account gets none, however requests overlap.
THEOREM AddressesHold == AccountsSpec => []AddressHolds
<1>1. ASSUME EmailIInv
      PROVE  AddressHolds
  <2>1. \A u \in Neighbours : E!Cardinality(E!Pending(u)) <= 1
    <3> SUFFICES ASSUME NEW u \in Neighbours
                 PROVE  Cardinality(E!Pending(u)) <= 1
      BY EmailCardinality
    <3>1. CASE E!Pending(u) = {}
      BY <3>1, FS_EmptySet
    <3>2. CASE E!Pending(u) # {}
      <4>1. PICK i : E!Pending(u) = {i}
        BY <1>1, <3>2 DEF EmailIInv, OnePending, E!Pending, E!Ids
      <4> QED
        BY <4>1, FS_Singleton
    <3> QED
      BY <3>1, <3>2
  <2>2. E!RecordHolds
    <3>1. Recorded
      BY <1>1 DEF EmailIInv
    <3> QED
      BY <2>1, <3>1 DEF Recorded, E!RecordHolds, E!Ids
  <2> QED
    BY <1>1, <2>2 DEF EmailIInv, AtPeace, AddressHolds, E!AddressHolds, E!AnonymousStays
<1> QED
  BY <1>1, EmailInvariant, EmailRuns, AccountsAssumption, PTL
=============================================================================
