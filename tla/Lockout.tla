------------------------------ MODULE Lockout ------------------------------
(***************************************************************************)
(* Password attempts of AuthService.login: the counter of failures and the *)
(* lock of 15 minutes.  A login reads the users row, spends a while on the *)
(* password hash, and writes the row back from what it had read.           *)
(***************************************************************************)
EXTENDS Integers, FiniteSets

CONSTANTS
  Users,
  Handlers,      \* logins in progress at the same time
  MaxMisses,     \* bound on misses
  MaxFailed      \* bound on the count that a login starts from

MaxFailures == 5    \* MAX_FAILED_LOGINS

VARIABLES
  alone,      \* environment: requests come one at a time
  failed,     \* users.failed_login_count
  locked,     \* users.locked_until lies in the future
  active,     \* users.status = ACTIVE
  misses,     \* history: wrong passwords since the counter was last reset
  lapsed,     \* history: a lock has run out since then
  pc, user, seen   \* the handlers: step, user, failed_login_count as read

rowVars     == <<failed, locked, active, misses, lapsed>>
handlerVars == <<pc, user, seen>>
vars == <<alone, rowVars, handlerVars>>

Init ==
  /\ alone \in BOOLEAN
  /\ failed = [u \in Users |-> 0]
  /\ locked = [u \in Users |-> FALSE]
  /\ active \in [Users -> BOOLEAN]
  /\ misses = [u \in Users |-> 0]
  /\ lapsed = [u \in Users |-> FALSE]
  /\ pc = [h \in Handlers |-> "idle"]
  /\ user \in [Handlers -> Users]
  /\ seen = [h \in Handlers |-> 0]

Free(h) ==
  /\ pc[h] = "idle"
  /\ alone => \A g \in Handlers : pc[g] = "idle"

End(h) ==
  /\ pc' = [pc EXCEPT ![h] = "idle"]
  /\ seen' = [seen EXCEPT ![h] = 0]
  /\ UNCHANGED user

\* The histories begin again with the counter.
Forget(u) ==
  /\ misses' = [misses EXCEPT ![u] = 0]
  /\ lapsed' = [lapsed EXCEPT ![u] = FALSE]

\* The row is read; a locked account is refused before its password is looked at.
ReadUser(h, u) ==
  /\ Free(h)
  /\ ~locked[u]
  /\ misses[u] < MaxMisses
  /\ failed[u] <= MaxFailed
  /\ pc' = [pc EXCEPT ![h] = "verify"]
  /\ user' = [user EXCEPT ![h] = u]
  /\ seen' = [seen EXCEPT ![h] = failed[u]]
  /\ UNCHANGED rowVars

\* Mutant of Fail: one failure too many before the lock.
FailLate(h) ==
  /\ pc[h] = "verify"
  /\ LET count == seen[h] + 1
     IN /\ failed' = [failed EXCEPT ![user[h]] = count]
        /\ locked' = [locked EXCEPT ![user[h]] = (count > MaxFailures)]
  /\ misses' = [misses EXCEPT ![user[h]] = @ + 1]
  /\ End(h)
  /\ UNCHANGED <<active, lapsed>>

\* A wrong password: the count read plus one, and a lock or no lock with it.
Fail(h) ==
  /\ pc[h] = "verify"
  /\ LET count == seen[h] + 1
     IN /\ failed' = [failed EXCEPT ![user[h]] = count]
        /\ locked' = [locked EXCEPT ![user[h]] = (count >= MaxFailures)]
  /\ misses' = [misses EXCEPT ![user[h]] = @ + 1]
  /\ End(h)
  /\ UNCHANGED <<active, lapsed>>

\* Mutants of Succeed: one failure is forgiven; none is.
SucceedForgivesOne(h) ==
  /\ pc[h] = "verify"
  /\ active[user[h]]
  /\ failed' = [failed EXCEPT ![user[h]] = @ - 1]
  /\ locked' = [locked EXCEPT ![user[h]] = FALSE]
  /\ Forget(user[h])
  /\ End(h)
  /\ UNCHANGED active

SucceedKeepsCount(h) ==
  /\ pc[h] = "verify"
  /\ active[user[h]]
  /\ locked' = [locked EXCEPT ![user[h]] = FALSE]
  /\ Forget(user[h])
  /\ End(h)
  /\ UNCHANGED <<failed, active>>

\* The right password of an ACTIVE user resets the counter; of another user it
\* is refused and resets nothing.
Succeed(h) ==
  /\ pc[h] = "verify"
  /\ active[user[h]]
  /\ failed' = [failed EXCEPT ![user[h]] = 0]
  /\ locked' = [locked EXCEPT ![user[h]] = FALSE]
  /\ Forget(user[h])
  /\ End(h)
  /\ UNCHANGED active

Refuse(h) ==
  /\ pc[h] = "verify"
  /\ ~active[user[h]]
  /\ End(h)
  /\ UNCHANGED rowVars

\* resetPassword, one transaction of another request, clears the counter and
\* the lock.
ResetPassword(h, u) ==
  /\ Free(h)
  /\ failed' = [failed EXCEPT ![u] = 0]
  /\ locked' = [locked EXCEPT ![u] = FALSE]
  /\ Forget(u)
  /\ UNCHANGED <<active, handlerVars>>

\* 15 minutes pass; the counter stays.
LockExpires(u) ==
  /\ locked[u]
  /\ locked' = [locked EXCEPT ![u] = FALSE]
  /\ lapsed' = [lapsed EXCEPT ![u] = TRUE]
  /\ UNCHANGED <<failed, active, misses, handlerVars>>

Step ==
  \/ \E h \in Handlers, u \in Users : ReadUser(h, u) \/ ResetPassword(h, u)
  \/ \E h \in Handlers : Fail(h) \/ Succeed(h) \/ Refuse(h)
  \/ \E u \in Users : LockExpires(u)

Next == Step /\ UNCHANGED alone

Spec == Init /\ [][Next]_vars

-----------------------------------------------------------------------------
(* Properties                                                              *)

TypeOK ==
  /\ alone \in BOOLEAN
  /\ failed \in [Users -> Nat]
  /\ locked \in [Users -> BOOLEAN]
  /\ active \in [Users -> BOOLEAN]
  /\ misses \in [Users -> Nat]
  /\ lapsed \in [Users -> BOOLEAN]
  /\ pc \in [Handlers -> {"idle", "verify"}]
  /\ user \in [Handlers -> Users]
  /\ seen \in [Handlers -> Nat]

\* Five failures lock the account (auth.service 120): a wrong password that is
\* at least the fifth since the last reset leaves it locked, while logins do not
\* overlap.  One that overlaps others may write a lower count over theirs.
FiveFailuresLock ==
  [][\A u \in Users :
       (alone /\ misses'[u] > misses[u] /\ misses'[u] >= MaxFailures) => locked'[u]]_vars

\* Fewer than five failures never lock the account, and a success or a reset
\* starts from zero again; a login that overlaps a reset writes the count of
\* before it.
FewFailuresDoNotLock ==
  alone => \A u \in Users : locked[u] => misses[u] >= MaxFailures

\* What n logins at a time can make of five failures: (n + 5 choose 5) - 1.
Guesses ==
  LET n == Cardinality(Handlers)
  IN  ((n + 1) * (n + 2) * (n + 3) * (n + 4) * (n + 5)) \div 120 - 1

\* Overlapping logins overwrite each other's count and lift each other's lock,
\* but do not make the lock vain: each write is one more than a count that some
\* login read, so the wrong passwords before all are refused stay bounded.
GuessesAreBounded ==
  \A u \in Users : ~lapsed[u] => misses[u] <= Guesses

\* What the counter of failures keeps, as one.
LockHolds == TypeOK /\ FewFailuresDoNotLock /\ GuessesAreBounded
=============================================================================
