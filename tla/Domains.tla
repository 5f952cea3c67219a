------------------------------ MODULE Domains ------------------------------
(***************************************************************************)
(* One domain of the domains module: its verification over DNS by a        *)
(* background worker, its transfer to another owner, rename and deletion,  *)
(* and the purge of a deleted owner's domains.                             *)
(*                                                                         *)
(* The row of the domain is shared by all of them.  Only accept locks it   *)
(* (FOR UPDATE) before it decides; the others decide on what they read     *)
(* earlier and then write.  Grants of the domain are not in this module.   *)
(***************************************************************************)
EXTENDS Integers, Sequences, SequencesExt

CONSTANTS
  Users,
  Fqdns,
  Controlled,     \* the names whose DNS the domain's owners control
  Handlers,       \* requests in progress
  Workers,        \* instances running the verification worker
  MaxAttempts,    \* bound: verification attempts
  MaxTransfers,   \* bound: transfers proposed
  MaxTokens       \* bound: verification tokens issued

\* A domain has a token from its creation on.
ASSUME DomainsAssumption == MaxTokens \in Nat \ {0}

NoToken == 0

VARIABLES
  alone,       \* environment: requests come one at a time, and let a worker's run end
  owner, fqdn, status, deleted, token,   \* the domains row
  alive,       \* users that are ACTIVE; the others are deleted
  dns,         \* TXT records: pairs of a name and a token
  issued,      \* tokens issued so far
  attempts,    \* states of domain_verification_attempts, by creation
  wpc, job, read,          \* the workers: step, attempt, name and token read
  orphaned,        \* history: attempts whose run has ended without its end being written
  transfers,   \* domain_transfers, by creation
  pc, draft, row,          \* the handlers: step, proposer and recipient, transfer
  purging      \* the owner cleanup has this domain among its targets

domainVars  == <<owner, fqdn, status, deleted, token>>
workerVars  == <<attempts, wpc, job, read, orphaned>>
handlerVars == <<pc, draft, row>>
vars == <<alone, domainVars, alive, dns, issued, workerVars, transfers, handlerVars, purging>>

Inflight == {"PENDING", "RUNNING"}
Finished == {"ACCEPTED", "CANCELLED", "EXPIRED", "INVALIDATED"}
Transfer == [from : Users, to : Users, status : Finished \union {"PENDING"}, late : BOOLEAN]

NoDraft     == << >>
NothingRead == [fqdn |-> "none", token |-> NoToken]

Init ==
  /\ alone \in BOOLEAN
  /\ owner \in Users
  /\ fqdn \in Fqdns
  /\ status = "UNVERIFIED"
  /\ deleted = FALSE
  /\ token = 1
  /\ alive = Users
  /\ dns = {}
  /\ issued = 1
  /\ attempts = << >>
  /\ wpc = [w \in Workers |-> "idle"]
  /\ job = [w \in Workers |-> 0]
  /\ read = [w \in Workers |-> NothingRead]
  /\ orphaned = {}
  /\ transfers = << >>
  /\ pc = [h \in Handlers |-> "idle"]
  /\ draft = [h \in Handlers |-> NoDraft]
  /\ row = [h \in Handlers |-> 0]
  /\ purging = FALSE

\* accept holds the lock of the domain row from its check to its commit.
Unlocked == \A h \in Handlers : pc[h] # "accept"

\* A change of the row by anyone else; alone, it comes between requests.
Quiet == alone => /\ \A w \in Workers : wpc[w] = "idle"
                  /\ \A h \in Handlers : pc[h] = "idle"

Writable == Unlocked /\ Quiet

\* What a request on the row has checked before it writes: not deleted, neither
\* is the owner.  Its write does not check again, so where requests overlap it
\* may come at any later time.
Checked == alone => ~deleted /\ owner \in alive

-----------------------------------------------------------------------------
(* Requests on the row (the loader hides a deleted owner's)                *)

\* Mutant of Rename: the verification is kept.
RenameKeepsStatus(f) ==
  /\ Checked
  /\ alone => f # fqdn
  /\ Writable
  /\ issued < MaxTokens
  /\ fqdn' = f
  /\ token' = issued + 1
  /\ issued' = issued + 1
  /\ UNCHANGED <<owner, status, deleted, alive, dns, workerVars, transfers, handlerVars, purging>>

\* update: a new name voids the verification and issues a new token.
Rename(f) ==
  /\ Checked
  /\ alone => f # fqdn
  /\ Writable
  /\ issued < MaxTokens
  /\ fqdn' = f
  /\ status' = "UNVERIFIED"
  /\ token' = issued + 1
  /\ issued' = issued + 1
  /\ UNCHANGED <<owner, deleted, alive, dns, workerVars, transfers, handlerVars, purging>>

\* Mutant of SoftDelete: deleted_at alone.
SoftDeleteKeepsStatus ==
  /\ Checked
  /\ Writable
  /\ deleted' = TRUE
  /\ token' = NoToken
  /\ attempts' = [i \in DOMAIN attempts |->
                    IF attempts[i] \in Inflight THEN "FAILED" ELSE attempts[i]]
  /\ UNCHANGED <<owner, fqdn, status, alive, dns, issued, wpc, job, read, orphaned,
                 transfers, handlerVars, purging>>

\* softDelete: the row, its token and the attempts in flight.
SoftDelete ==
  /\ Checked
  /\ Writable
  /\ status' = "DELETED"
  /\ deleted' = TRUE
  /\ token' = NoToken
  /\ attempts' = [i \in DOMAIN attempts |->
                    IF attempts[i] \in Inflight THEN "FAILED" ELSE attempts[i]]
  /\ UNCHANGED <<owner, fqdn, alive, dns, issued, wpc, job, read, orphaned, transfers, handlerVars,
                 purging>>

\* The owner publishes the token under a name he controls.
Publish(f) ==
  /\ token # NoToken
  /\ f = fqdn
  /\ f \in Controlled
  /\ dns' = dns \union {<<f, token>>}
  /\ UNCHANGED <<domainVars, alive, issued, workerVars, transfers, handlerVars, purging>>

\* request: a token to look for, and one attempt in flight (a unique index).
RequestVerification ==
  /\ Checked
  /\ alone => token # NoToken
  /\ \A i \in DOMAIN attempts : attempts[i] \notin Inflight
  /\ Len(attempts) < MaxAttempts
  /\ attempts' = Append(attempts, "PENDING")
  /\ UNCHANGED <<domainVars, alive, dns, issued, wpc, job, read, orphaned, transfers, handlerVars,
                 purging>>

-----------------------------------------------------------------------------
(* The verification worker                                                 *)

\* Mutant of Claim: an attempt that is running is taken again.
ClaimRunning(w) ==
  /\ wpc[w] = "idle"
  /\ \E i \in DOMAIN attempts :
       /\ attempts[i] \in Inflight
       /\ attempts' = [attempts EXCEPT ![i] = "RUNNING"]
       /\ job' = [job EXCEPT ![w] = i]
  /\ wpc' = [wpc EXCEPT ![w] = "claimed"]
  /\ UNCHANGED <<domainVars, alive, dns, issued, read, orphaned, transfers, handlerVars, purging>>

\* claim: UPDATE ... FOR UPDATE SKIP LOCKED, one atomic statement.
Claim(w) ==
  /\ wpc[w] = "idle"
  /\ \E i \in DOMAIN attempts :
       /\ attempts[i] = "PENDING"
       /\ attempts' = [attempts EXCEPT ![i] = "RUNNING"]
       /\ job' = [job EXCEPT ![w] = i]
  /\ wpc' = [wpc EXCEPT ![w] = "claimed"]
  /\ UNCHANGED <<domainVars, alive, dns, issued, read, orphaned, transfers, handlerVars, purging>>

Goto(w, step) ==
  /\ wpc' = [wpc EXCEPT ![w] = step]
  /\ UNCHANGED job

\* run reads the domain ...
ReadDomain(w) ==
  /\ wpc[w] = "claimed"
  /\ \/ /\ ~deleted /\ token # NoToken
        /\ read' = [read EXCEPT ![w] = [fqdn |-> fqdn, token |-> token]]
        /\ Goto(w, "lookup")
     \/ /\ deleted \/ token = NoToken
        /\ Goto(w, "fail")
        /\ UNCHANGED read
  /\ UNCHANGED <<domainVars, alive, dns, issued, attempts, orphaned, transfers,
                 handlerVars, purging>>

\* ... looks the token up under the name it read ...
Lookup(w) ==
  /\ wpc[w] = "lookup"
  /\ Goto(w, IF <<read[w].fqdn, read[w].token>> \in dns THEN "found" ELSE "fail")
  /\ UNCHANGED <<domainVars, alive, dns, issued, attempts, read, orphaned, transfers, handlerVars,
                 purging>>

Rest(w) ==
  /\ wpc' = [wpc EXCEPT ![w] = "idle"]
  /\ job' = [job EXCEPT ![w] = 0]
  /\ read' = [read EXCEPT ![w] = NothingRead]

\* ... and marks the row VERIFIED, the attempt SUCCEEDED.
CommitVerified(w) ==
  /\ wpc[w] = "found"
  /\ Unlocked
  /\ status' = "VERIFIED"
  /\ token' = NoToken
  /\ attempts' = [attempts EXCEPT ![job[w]] = "SUCCEEDED"]
  /\ Rest(w)
  /\ UNCHANGED <<owner, fqdn, deleted, alive, dns, issued, orphaned, transfers, handlerVars,
                 purging>>

\* Mutant of Fail: the attempt is left RUNNING.
FailUnfinished(w) ==
  /\ wpc[w] = "fail"
  /\ Rest(w)
  /\ UNCHANGED <<attempts, domainVars, alive, dns, issued, orphaned, transfers, handlerVars,
                 purging>>

Fail(w) ==
  /\ wpc[w] = "fail"
  /\ attempts' = [attempts EXCEPT ![job[w]] = "FAILED"]
  /\ Rest(w)
  /\ UNCHANGED <<domainVars, alive, dns, issued, orphaned, transfers, handlerVars,
                 purging>>

\* A reading, the resolver or the transaction fails: the attempt is to be FAILED.
Stumble(w) ==
  /\ wpc[w] \in {"claimed", "lookup", "found"}
  /\ Goto(w, "fail")
  /\ UNCHANGED <<domainVars, alive, dns, issued, attempts, read, orphaned, transfers, handlerVars,
                 purging>>

\* The process dies, or the update to FAILED fails and is swallowed: the attempt stays
\* RUNNING, and only PENDING ones are taken.
Vanish(w) ==
  /\ wpc[w] # "idle"
  /\ orphaned' = orphaned \union {job[w]}
  /\ Rest(w)
  /\ UNCHANGED <<domainVars, alive, dns, issued, attempts, transfers, handlerVars, purging>>

-----------------------------------------------------------------------------
(* Transfers                                                               *)

Call(h, u, t, step) ==
  /\ pc[h] = "idle"
  /\ Quiet
  /\ u \in alive
  /\ pc' = [pc EXCEPT ![h] = step]
  /\ row' = [row EXCEPT ![h] = t]

Return(h) ==
  /\ pc' = [pc EXCEPT ![h] = "idle"]
  /\ row' = [row EXCEPT ![h] = 0]
  /\ draft' = [draft EXCEPT ![h] = NoDraft]

Advance(h, step) ==
  /\ pc' = [pc EXCEPT ![h] = step]
  /\ UNCHANGED <<draft, row>>

SetTransfer(t, s) == transfers' = [transfers EXCEPT ![t].status = s]

ExpireLate == [t \in DOMAIN transfers |->
                 IF transfers[t].status = "PENDING" /\ transfers[t].late
                 THEN [transfers[t] EXCEPT !.status = "EXPIRED"] ELSE transfers[t]]

\* propose: the guard finds the caller to be the owner, the recipient is active.
GuardPropose(h, u, v) ==
  /\ u = owner
  /\ ~deleted
  /\ v \in alive \ {u}
  /\ Len(transfers) < MaxTransfers
  /\ Call(h, u, 0, "stale")
  /\ draft' = [draft EXCEPT ![h] = <<u, v>>]
  /\ UNCHANGED <<domainVars, alive, dns, issued, workerVars, transfers, purging>>

\* expireStale clears what would block the new proposal ...
ExpireStale(h) ==
  /\ pc[h] = "stale"
  /\ transfers' = ExpireLate
  /\ Advance(h, "create")
  /\ UNCHANGED <<domainVars, alive, dns, issued, workerVars, purging>>

\* ... which is created unless one is PENDING (checked, and a unique index).
CreateTransfer(h) ==
  /\ pc[h] = "create"
  /\ IF (\E t \in DOMAIN transfers : transfers[t].status = "PENDING") \/ Len(transfers) = MaxTransfers
     THEN UNCHANGED transfers
     ELSE transfers' = Append(transfers,
            [from |-> draft[h][1], to |-> draft[h][2], status |-> "PENDING", late |-> FALSE])
  /\ Return(h)
  /\ UNCHANGED <<domainVars, alive, dns, issued, workerVars, purging>>

\* accept: the caller is the recipient ...
ReadAccept(h, t) ==
  /\ t \in DOMAIN transfers
  /\ Call(h, transfers[t].to, t, "lock")
  /\ UNCHANGED <<draft, domainVars, alive, dns, issued, workerVars, transfers, purging>>

\* Mutant of CanAccept: the proposer need not be the owner any more.
CanAcceptFromAnyone(t) ==
  /\ ~deleted
  /\ transfers[t].status = "PENDING"
  /\ ~transfers[t].late
  /\ transfers[t].from \in alive
  /\ status \in {"UNVERIFIED", "VERIFIED"}

\* ... canAcceptTransfer on what is read under the lock of the domain ...
CanAccept(t) ==
  /\ ~deleted
  /\ transfers[t].status = "PENDING"
  /\ ~transfers[t].late
  /\ transfers[t].from = owner
  /\ transfers[t].from \in alive
  /\ status \in {"UNVERIFIED", "VERIFIED"}

LockAccept(h) ==
  /\ pc[h] = "lock"
  /\ Unlocked
  /\ Advance(h, IF CanAccept(row[h]) THEN "accept" ELSE "invalidate")
  /\ UNCHANGED <<domainVars, alive, dns, issued, workerVars, transfers, purging>>

\* ... the owner changes and the transfer is ACCEPTED;
CommitAccept(h) ==
  /\ pc[h] = "accept"
  /\ owner' = transfers[row[h]].to
  /\ SetTransfer(row[h], "ACCEPTED")
  /\ Return(h)
  /\ UNCHANGED <<fqdn, status, deleted, token, alive, dns, issued, workerVars, purging>>

\* Mutant of Invalidate: a transfer that has ended is invalidated too.
InvalidateAny(h) ==
  /\ pc[h] = "invalidate"
  /\ SetTransfer(row[h], "INVALIDATED")
  /\ Return(h)
  /\ UNCHANGED <<domainVars, alive, dns, issued, workerVars, purging>>

\* or it was refused and a PENDING transfer is invalidated.
Invalidate(h) ==
  /\ pc[h] = "invalidate"
  /\ IF transfers[row[h]].status = "PENDING" THEN SetTransfer(row[h], "INVALIDATED")
                                             ELSE UNCHANGED transfers
  /\ Return(h)
  /\ UNCHANGED <<domainVars, alive, dns, issued, workerVars, purging>>

\* cancel, by the owner: PENDING when read ...
ReadCancel(h, t) ==
  /\ t \in DOMAIN transfers
  /\ transfers[t].status = "PENDING"
  /\ ~deleted
  /\ Call(h, owner, t, "cancel")
  /\ UNCHANGED <<draft, domainVars, alive, dns, issued, workerVars, transfers, purging>>

\* ... and CANCELLED, whatever it is now.
CommitCancel(h) ==
  /\ pc[h] = "cancel"
  /\ SetTransfer(row[h], "CANCELLED")
  /\ Return(h)
  /\ UNCHANGED <<domainVars, alive, dns, issued, workerVars, purging>>

\* The clock passes expires_at; the sweep runs once a day.
TransferLate(t) ==
  /\ t \in DOMAIN transfers
  /\ transfers[t].status = "PENDING"
  /\ ~transfers[t].late
  /\ transfers' = [transfers EXCEPT ![t].late = TRUE]
  /\ UNCHANGED <<domainVars, alive, dns, issued, workerVars, handlerVars, purging>>

SweepExpired ==
  /\ Quiet
  /\ transfers' = ExpireLate
  /\ transfers' # transfers
  /\ UNCHANGED <<domainVars, alive, dns, issued, workerVars, handlerVars, purging>>

-----------------------------------------------------------------------------
(* A deleted owner                                                         *)

\* MembersService.softDelete; the cleanup job is queued with it.
DeleteUser(u) ==
  /\ u \in alive
  /\ alive' = alive \ {u}
  /\ UNCHANGED <<domainVars, dns, issued, workerVars, transfers, handlerVars, purging>>

\* purgeOwnerDeleted lists the domains of the deleted owner ...
PurgeList ==
  /\ ~purging
  /\ owner \notin alive
  /\ ~deleted
  /\ purging' = TRUE
  /\ UNCHANGED <<domainVars, alive, dns, issued, workerVars, transfers, handlerVars>>

\* ... and deletes them by id, invalidating what is PENDING.
PurgeDelete ==
  /\ purging
  /\ Writable
  /\ status' = "DELETED"
  /\ deleted' = TRUE
  /\ transfers' = [t \in DOMAIN transfers |->
                     IF transfers[t].status = "PENDING"
                     THEN [transfers[t] EXCEPT !.status = "INVALIDATED"] ELSE transfers[t]]
  /\ purging' = FALSE
  /\ UNCHANGED <<owner, fqdn, token, alive, dns, issued, workerVars, handlerVars>>

-----------------------------------------------------------------------------
WorkerStep(w) ==
  \/ Claim(w)
  \/ ReadDomain(w)
  \/ Lookup(w)
  \/ CommitVerified(w)
  \/ Fail(w)

HandlerStep(h) ==
  \/ ExpireStale(h)
  \/ CreateTransfer(h)
  \/ LockAccept(h)
  \/ CommitAccept(h)
  \/ Invalidate(h)
  \/ CommitCancel(h)

TransferNext ==
  \/ \E h \in Handlers : HandlerStep(h)
  \/ \E h \in Handlers, u, v \in Users : GuardPropose(h, u, v)
  \/ \E h \in Handlers, t \in 1..MaxTransfers : ReadAccept(h, t) \/ ReadCancel(h, t)
  \/ \E t \in 1..MaxTransfers : TransferLate(t)
  \/ SweepExpired

VerificationNext ==
  \/ \E w \in Workers : WorkerStep(w) \/ Stumble(w) \/ Vanish(w)
  \/ \E f \in Fqdns : Publish(f)
  \/ RequestVerification

Step ==
  \/ VerificationNext
  \/ TransferNext
  \/ \E f \in Fqdns : Rename(f)
  \/ SoftDelete
  \/ \E u \in Users : DeleteUser(u)
  \/ PurgeList
  \/ PurgeDelete

Next == Step /\ UNCHANGED alone

Spec == Init /\ [][Next]_vars

\* Timers keep calling the worker, and a run or a request that has started goes on to
\* its end, unless the worker vanishes.
Fairness ==
  /\ \A w \in Workers : WF_vars(WorkerStep(w) /\ UNCHANGED alone)
  /\ \A h \in Handlers : WF_vars(HandlerStep(h) /\ UNCHANGED alone)

-----------------------------------------------------------------------------
(* Properties                                                              *)

TypeOK ==
  /\ alone \in BOOLEAN
  /\ owner \in Users
  /\ fqdn \in Fqdns
  /\ status \in {"UNVERIFIED", "VERIFIED", "DELETED"}
  /\ deleted \in BOOLEAN
  /\ token \in 0..MaxTokens
  /\ alive \subseteq Users
  /\ dns \subseteq Fqdns \X (1..MaxTokens)
  /\ \A i \in DOMAIN attempts : attempts[i] \in Inflight \union {"SUCCEEDED", "FAILED"}
  /\ wpc \in [Workers -> {"idle", "claimed", "lookup", "found", "fail"}]
  /\ \A w \in Workers : wpc[w] # "idle" => job[w] \in DOMAIN attempts
  /\ orphaned \subseteq DOMAIN attempts
  /\ \A t \in DOMAIN transfers : transfers[t] \in Transfer
  /\ pc \in [Handlers -> {"idle", "stale", "create", "lock", "accept", "invalidate", "cancel"}]
  /\ \A h \in Handlers : pc[h] \in {"stale", "create"} => draft[h] \in Users \X Users
  /\ \A h \in Handlers : pc[h] \in {"lock", "accept", "invalidate", "cancel"}
                           => row[h] \in DOMAIN transfers
  /\ purging \in BOOLEAN

\* A verified domain is one whose DNS its owners control: renaming voids the
\* verification (domains.service 123).
VerifiedIsControlled == status = "VERIFIED" => fqdn \in Controlled

\* It is so while a rename lets a worker's run end; a run that a rename overtakes
\* marks the new name VERIFIED with the proof of the old one.
VerifiedUnlessOvertaken == alone => VerifiedIsControlled

\* status and deleted_at say the same (domains.service 158), while a deletion
\* lets a worker's run end.
DeletedTogether == alone => (deleted <=> status = "DELETED")

\* No attempt is run by two workers, however many instances poll
\* (verification.service 138-140).
OneWorkerPerAttempt ==
  \A v, w \in Workers : (v # w /\ wpc[v] # "idle" /\ wpc[w] # "idle") => job[v] # job[w]

\* A run that fails at whatever point does not leave its attempt RUNNING
\* (verification.service 157), which would block the domain: only one whose end could not
\* be written does.
NoneLeftRunning ==
  \A i \in DOMAIN attempts : attempts[i] = "RUNNING" =>
    i \in orphaned \/ \E w \in Workers : wpc[w] # "idle" /\ job[w] = i

\* What the verification of a domain keeps, as one.
VerificationHolds ==
  /\ TypeOK
  /\ VerifiedUnlessOvertaken
  /\ DeletedTogether
  /\ OneWorkerPerAttempt
  /\ NoneLeftRunning

\* A domain changes hands only by a transfer that its owner of that moment
\* proposed to the new one, and never once it is deleted (transfers 120-121).
HandedByOwner ==
  [][owner' # owner =>
       /\ ~deleted
       /\ \E t \in DOMAIN transfers :
            /\ transfers[t].from = owner
            /\ transfers[t].to = owner'
            /\ transfers'[t].status = "ACCEPTED"]_vars

\* A transfer that has ended stays as it ended (transfers 214), while requests
\* come one at a time; a cancel that overlaps an acceptance overwrites it.
FinishedStaysFinished ==
  [][alone => \A t \in DOMAIN transfers :
       transfers[t].status \in Finished => transfers'[t].status = transfers[t].status]_vars

\* What the owners of a domain and their transfers keep, as one.
TransfersHold == HandedByOwner /\ FinishedStaysFinished

\* Every requested verification ends, with a verdict or a failure, or in a run whose end
\* could not be written.
AttemptsEnd ==
  \A i \in 1..MaxAttempts :
    (i \in DOMAIN attempts) ~>
      (i \in DOMAIN attempts /\ (attempts[i] \notin Inflight \/ i \in orphaned))
=============================================================================
