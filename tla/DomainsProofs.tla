--------------------------- MODULE DomainsProofs ---------------------------
(***************************************************************************)
(* Proofs about the transfers and the verification of Domains for any      *)
(* users, any number of requests and workers, and any bounds.              *)
(***************************************************************************)
EXTENDS Domains, TLAPS

Steps == {"idle", "stale", "create", "lock", "accept", "invalidate", "cancel"}

RowTypes ==
  /\ owner \in Users /\ alive \subseteq Users
  /\ transfers \in Seq(Transfer)
  /\ pc \in [Handlers -> Steps]
  /\ row \in [Handlers -> Nat]
  /\ draft \in [Handlers -> Users \X Users \cup {NoDraft}]
  /\ \A h \in Handlers : pc[h] \in {"stale", "create"} => draft[h] \in Users \X Users
  /\ \A h \in Handlers : pc[h] \in {"lock", "accept", "invalidate", "cancel"}
                           => row[h] \in DOMAIN transfers

\* The lock of accept: what was checked under it is so until the commit.
LockHolds ==
  \A h \in Handlers : pc[h] = "accept" =>
    /\ ~deleted
    /\ transfers[row[h]].from = owner
    /\ \A g \in Handlers : pc[g] = "accept" => g = h

\* A request that comes alone finds its transfer as it read it.
Undisturbed ==
  /\ \A g, h \in Handlers : pc[g] # "idle" /\ pc[h] # "idle" => g = h
  /\ \A h \in Handlers : pc[h] \in {"accept", "cancel"} => transfers[row[h]].status = "PENDING"

IInv == RowTypes /\ LockHolds /\ (alone => Undisturbed)

-----------------------------------------------------------------------------
(* What a step does to the transfers there were.                           *)

TransfersStay ==
  /\ DOMAIN transfers \subseteq DOMAIN transfers'
  /\ \A t \in DOMAIN transfers :
       transfers'[t].from = transfers[t].from /\ transfers'[t].to = transfers[t].to

\* Nor does it end one that has ended already.
EndsPending ==
  \A t \in DOMAIN transfers :
    transfers[t].status \in Finished => transfers'[t].status = transfers[t].status

LEMMA TransferTypes ==
  ASSUME RowTypes, NEW t \in DOMAIN transfers
  PROVE  /\ transfers[t] \in Transfer
         /\ transfers[t].from \in Users /\ transfers[t].to \in Users
         /\ transfers[t].status \in Finished \cup {"PENDING"}
<1>1. transfers[t] \in Transfer
  BY DEF RowTypes
<1> QED
  BY <1>1 DEF Transfer

LEMMA SetTransferStay ==
  ASSUME RowTypes, NEW t \in DOMAIN transfers, NEW s \in Finished, SetTransfer(t, s)
  PROVE  /\ transfers' \in Seq(Transfer) /\ DOMAIN transfers' = DOMAIN transfers /\ TransfersStay
         /\ transfers'[t].status = s
         /\ \A i \in DOMAIN transfers : i # t => transfers'[i] = transfers[i]
<1>1. \A i \in DOMAIN transfers : transfers[i] \in Transfer
  BY TransferTypes
<1>2. [transfers[t] EXCEPT !.status = s] \in Transfer
  BY <1>1 DEF Transfer
<1>3. transfers' = [transfers EXCEPT ![t] = [transfers[t] EXCEPT !.status = s]]
  BY DEF SetTransfer
<1>4. transfers' \in Seq(Transfer) /\ DOMAIN transfers' = DOMAIN transfers
  BY <1>2, <1>3 DEF RowTypes
<1>5. \A i \in DOMAIN transfers : i # t => transfers'[i] = transfers[i]
  BY <1>3
<1>6. /\ transfers'[t].status = s
      /\ transfers'[t].from = transfers[t].from /\ transfers'[t].to = transfers[t].to
  BY <1>1, <1>3 DEF Transfer
<1> QED
  BY <1>4, <1>5, <1>6 DEF TransfersStay

\* A statement over all the rows that ends some of those that are PENDING.
LEMMA SweepStay ==
  ASSUME RowTypes, NEW s \in Finished, NEW S,
         transfers' = [t \in DOMAIN transfers |->
                         IF transfers[t].status = "PENDING" /\ t \in S
                         THEN [transfers[t] EXCEPT !.status = s] ELSE transfers[t]]
  PROVE  /\ transfers' \in Seq(Transfer) /\ DOMAIN transfers' = DOMAIN transfers
         /\ TransfersStay /\ EndsPending
<1>1. \A i \in DOMAIN transfers : transfers[i] \in Transfer
  BY TransferTypes
<1>2. \A i \in DOMAIN transfers :
        (IF transfers[i].status = "PENDING" /\ i \in S
         THEN [transfers[i] EXCEPT !.status = s] ELSE transfers[i]) \in Transfer
  BY <1>1 DEF Transfer
<1>3. DOMAIN transfers' = DOMAIN transfers
  OBVIOUS
<1>4. transfers' \in Seq(Transfer)
  BY <1>2 DEF RowTypes
<1>5. \A i \in DOMAIN transfers :
        transfers'[i].from = transfers[i].from /\ transfers'[i].to = transfers[i].to
  BY <1>1 DEF Transfer
<1>6. "PENDING" \notin Finished
  BY DEF Finished
<1>7. EndsPending
  BY <1>1, <1>6 DEF EndsPending, Transfer
<1> QED
  BY <1>3, <1>4, <1>5, <1>7 DEF TransfersStay

LEMMA ExpireStay ==
  ASSUME RowTypes, transfers' = ExpireLate
  PROVE  /\ transfers' \in Seq(Transfer) /\ DOMAIN transfers' = DOMAIN transfers
         /\ TransfersStay /\ EndsPending
<1> DEFINE S == {t \in DOMAIN transfers : transfers[t].late}
<1>1. transfers' = [t \in DOMAIN transfers |->
                      IF transfers[t].status = "PENDING" /\ t \in S
                      THEN [transfers[t] EXCEPT !.status = "EXPIRED"] ELSE transfers[t]]
  BY DEF ExpireLate
<1>2. "EXPIRED" \in Finished
  BY DEF Finished
<1> HIDE DEF S
<1> QED
  BY <1>1, <1>2, SweepStay

LEMMA LateStay ==
  ASSUME RowTypes, NEW t \in DOMAIN transfers,
         transfers' = [transfers EXCEPT ![t].late = TRUE]
  PROVE  /\ transfers' \in Seq(Transfer) /\ DOMAIN transfers' = DOMAIN transfers
         /\ TransfersStay
         /\ \A i \in DOMAIN transfers : transfers'[i].status = transfers[i].status
<1>1. \A i \in DOMAIN transfers : transfers[i] \in Transfer
  BY TransferTypes
<1>2. [transfers[t] EXCEPT !.late = TRUE] \in Transfer
  BY <1>1 DEF Transfer
<1>3. transfers' \in Seq(Transfer) /\ DOMAIN transfers' = DOMAIN transfers
  BY <1>2 DEF RowTypes
<1>4. \A i \in DOMAIN transfers :
        /\ transfers'[i].from = transfers[i].from /\ transfers'[i].to = transfers[i].to
        /\ transfers'[i].status = transfers[i].status
  BY <1>1 DEF Transfer
<1> QED
  BY <1>3, <1>4 DEF TransfersStay

-----------------------------------------------------------------------------
(* What a step does to the requests.                                       *)

\* Rows, lock and what a single request found survive a step that leaves the requests
\* alone and does not touch the owner of a domain under the lock.
LEMMA QuietKeeps ==
  ASSUME IInv, alone' = alone, UNCHANGED <<owner, pc, row, draft>>, alive' \subseteq alive,
         transfers' \in Seq(Transfer), TransfersStay,
         deleted' = deleted \/ Unlocked,
         \/ \A t \in DOMAIN transfers : transfers'[t].status = transfers[t].status
         \/ Quiet
  PROVE  IInv'
<1>1. RowTypes'
  BY DEF IInv, RowTypes, TransfersStay
<1>2. LockHolds'
  BY DEF IInv, RowTypes, LockHolds, TransfersStay, Unlocked
<1>3. ASSUME alone
      PROVE  Undisturbed'
  <2>1. Undisturbed
    BY <1>3 DEF IInv
  <2>2. \A h \in Handlers : pc[h] \in {"accept", "cancel"} => row[h] \in DOMAIN transfers
    BY DEF IInv, RowTypes
  <2>3. CASE Quiet
    BY <1>3, <2>1, <2>3 DEF Quiet, Undisturbed
  <2>4. CASE \A t \in DOMAIN transfers : transfers'[t].status = transfers[t].status
    BY <2>1, <2>2, <2>4 DEF Undisturbed
  <2> QED
    BY <2>3, <2>4
<1> QED
  BY <1>1, <1>2, <1>3 DEF IInv

\* A request that returns.
LEMMA ReturnKeeps ==
  ASSUME IInv, alone' = alone, NEW h \in Handlers, pc[h] # "idle", Return(h),
         UNCHANGED <<alive, deleted>>, owner' \in Users,
         owner' = owner \/ pc[h] = "accept",
         transfers' \in Seq(Transfer), TransfersStay
  PROVE  IInv'
<1>1. /\ pc'[h] = "idle" /\ \A g \in Handlers : g # h =>
           pc'[g] = pc[g] /\ row'[g] = row[g] /\ draft'[g] = draft[g]
  BY DEF Return, IInv, RowTypes
<1>2. /\ pc' \in [Handlers -> Steps] /\ row' \in [Handlers -> Nat]
      /\ draft' \in [Handlers -> Users \X Users \cup {NoDraft}]
  BY DEF Return, IInv, RowTypes, Steps
<1>3. RowTypes'
  BY <1>1, <1>2 DEF IInv, RowTypes, TransfersStay
<1>4. LockHolds'
  BY <1>1 DEF IInv, LockHolds, RowTypes, TransfersStay
<1>5. alone => Undisturbed'
  BY <1>1 DEF IInv, Undisturbed
<1> QED
  BY <1>3, <1>4, <1>5 DEF IInv

\* A request that starts or goes on to a step where it holds no lock.
LEMMA GoesOn ==
  ASSUME IInv, alone' = alone, NEW h \in Handlers, NEW step \in Steps \ {"accept"},
         pc' = [pc EXCEPT ![h] = step], UNCHANGED <<alive, deleted, owner>>,
         pc[h] # "accept",
         pc[h] # "idle" \/ Quiet,
         \A g \in Handlers : g # h => row'[g] = row[g] /\ draft'[g] = draft[g],
         row' \in [Handlers -> Nat], draft' \in [Handlers -> Users \X Users \cup {NoDraft}],
         step \in {"stale", "create"} => draft'[h] \in Users \X Users,
         step \in {"lock", "invalidate", "cancel"} => row'[h] \in DOMAIN transfers,
         step = "cancel" => transfers[row'[h]].status = "PENDING",
         transfers' \in Seq(Transfer), TransfersStay, transfers' = transfers \/ step # "cancel"
  PROVE  IInv'
<1>1. pc'[h] = step /\ \A g \in Handlers : g # h => pc'[g] = pc[g]
  BY DEF IInv, RowTypes
<1>2. pc' \in [Handlers -> Steps]
  BY DEF IInv, RowTypes
<1>3. RowTypes'
  BY <1>1, <1>2 DEF IInv, RowTypes, TransfersStay
<1>4. LockHolds'
  <2> SUFFICES ASSUME NEW g \in Handlers, pc'[g] = "accept"
               PROVE  /\ ~deleted'
                      /\ transfers'[row'[g]].from = owner'
                      /\ \A k \in Handlers : pc'[k] = "accept" => k = g
    BY DEF LockHolds
  <2>1. g # h /\ pc[g] = "accept" /\ row'[g] = row[g]
    BY <1>1
  <2>2. row[g] \in DOMAIN transfers
    BY <2>1 DEF IInv, RowTypes
  <2>3. /\ ~deleted /\ transfers[row[g]].from = owner
        /\ \A k \in Handlers : pc[k] = "accept" => k = g
    BY <2>1 DEF IInv, LockHolds
  <2>4. \A k \in Handlers : pc'[k] = "accept" => k = g
    BY <1>1, <2>3
  <2> QED
    BY <2>1, <2>2, <2>3, <2>4 DEF TransfersStay
<1>5. ASSUME alone
      PROVE  Undisturbed'
  <2>1. \A g \in Handlers : g # h => pc'[g] = "idle"
    BY <1>1, <1>5 DEF IInv, Undisturbed, Quiet
  <2>2. step = "cancel" => transfers'[row'[h]].status = "PENDING"
    OBVIOUS
  <2> QED
    BY <1>1, <2>1, <2>2 DEF Undisturbed
<1> QED
  BY <1>3, <1>4, <1>5 DEF IInv

-----------------------------------------------------------------------------
(* The steps.                                                              *)

HandsOver == owner' # owner =>
  /\ ~deleted
  /\ \E t \in DOMAIN transfers :
       /\ transfers[t].from = owner
       /\ transfers[t].to = owner'
       /\ transfers'[t].status = "ACCEPTED"

Kept == IInv' /\ HandsOver /\ (alone => EndsPending)

LEMMA SameTransfers ==
  ASSUME RowTypes, transfers' = transfers
  PROVE  transfers' \in Seq(Transfer) /\ TransfersStay /\ EndsPending
  BY DEF RowTypes, TransfersStay, EndsPending

LEMMA CommitAcceptKeeps ==
  ASSUME IInv, alone' = alone, NEW h \in Handlers, CommitAccept(h)
  PROVE  Kept
<1> DEFINE t == row[h]
<1>1. RowTypes /\ pc[h] = "accept" /\ t \in DOMAIN transfers
  BY DEF CommitAccept, IInv, RowTypes
<1>2. "ACCEPTED" \in Finished /\ "PENDING" \notin Finished
  BY DEF Finished
<1>3. /\ transfers' \in Seq(Transfer) /\ TransfersStay /\ transfers'[t].status = "ACCEPTED"
      /\ \A i \in DOMAIN transfers : i # t => transfers'[i] = transfers[i]
  BY <1>1, <1>2, SetTransferStay DEF CommitAccept
<1>4. owner' = transfers[t].to /\ owner' \in Users
  BY <1>1, TransferTypes DEF CommitAccept
<1>5. IInv'
  BY <1>1, <1>3, <1>4, ReturnKeeps DEF CommitAccept
<1>6. HandsOver
  BY <1>1, <1>3, <1>4 DEF IInv, LockHolds, HandsOver
<1>7. alone => EndsPending
  BY <1>1, <1>2, <1>3 DEF IInv, Undisturbed, EndsPending
<1> QED
  BY <1>5, <1>6, <1>7 DEF Kept

LEMMA InvalidateKeeps ==
  ASSUME IInv, alone' = alone, NEW h \in Handlers, Invalidate(h)
  PROVE  Kept
<1> DEFINE t == row[h]
<1>1. RowTypes /\ pc[h] = "invalidate" /\ t \in DOMAIN transfers /\ Return(h)
  BY DEF Invalidate, IInv, RowTypes
<1>2. "INVALIDATED" \in Finished /\ "PENDING" \notin Finished
  BY DEF Finished
<1>3. transfers' \in Seq(Transfer) /\ TransfersStay /\ EndsPending
  <2>1. CASE transfers' = transfers
    BY <1>1, <2>1, SameTransfers
  <2>2. CASE transfers[t].status = "PENDING" /\ SetTransfer(t, "INVALIDATED")
    BY <1>1, <1>2, <2>2, SetTransferStay DEF EndsPending
  <2> QED
    BY <2>1, <2>2 DEF Invalidate
<1>4. UNCHANGED <<owner, alive, deleted>>
  BY DEF Invalidate, domainVars
<1>5. owner' \in Users
  BY <1>1, <1>4 DEF RowTypes
<1>6. IInv'
  BY <1>1, <1>3, <1>4, <1>5, ReturnKeeps
<1> QED
  BY <1>3, <1>4, <1>6 DEF Kept, HandsOver

LEMMA CommitCancelKeeps ==
  ASSUME IInv, alone' = alone, NEW h \in Handlers, CommitCancel(h)
  PROVE  Kept
<1> DEFINE t == row[h]
<1>1. RowTypes /\ pc[h] = "cancel" /\ t \in DOMAIN transfers /\ Return(h)
  BY DEF CommitCancel, IInv, RowTypes
<1>2. "CANCELLED" \in Finished /\ "PENDING" \notin Finished
  BY DEF Finished
<1>3. /\ transfers' \in Seq(Transfer) /\ TransfersStay
      /\ \A i \in DOMAIN transfers : i # t => transfers'[i] = transfers[i]
  BY <1>1, <1>2, SetTransferStay DEF CommitCancel
<1>4. alone => EndsPending
  BY <1>1, <1>2, <1>3 DEF IInv, Undisturbed, EndsPending
<1>5. UNCHANGED <<owner, alive, deleted>>
  BY DEF CommitCancel, domainVars
<1>6. owner' \in Users
  BY <1>1, <1>5 DEF RowTypes
<1>7. IInv'
  BY <1>1, <1>3, <1>5, <1>6, ReturnKeeps
<1> QED
  BY <1>4, <1>5, <1>7 DEF Kept, HandsOver

LEMMA CreateTransferKeeps ==
  ASSUME IInv, alone' = alone, NEW h \in Handlers, CreateTransfer(h)
  PROVE  Kept
<1> DEFINE new == [from |-> draft[h][1], to |-> draft[h][2], status |-> "PENDING", late |-> FALSE]
<1>1. RowTypes /\ pc[h] = "create" /\ draft[h] \in Users \X Users /\ Return(h)
  BY DEF CreateTransfer, IInv, RowTypes
<1>2. transfers' \in Seq(Transfer) /\ TransfersStay /\ EndsPending
  <2>1. CASE transfers' = transfers
    BY <1>1, <2>1, SameTransfers
  <2>2. CASE transfers' = Append(transfers, new)
    <3>1. new \in Transfer
      BY <1>1 DEF Transfer
    <3>2. transfers \in Seq(Transfer)
      BY <1>1 DEF RowTypes
    <3> HIDE DEF new
    <3>3. /\ transfers' \in Seq(Transfer) /\ DOMAIN transfers \subseteq DOMAIN transfers'
          /\ \A t \in DOMAIN transfers : transfers'[t] = transfers[t]
      BY <2>2, <3>1, <3>2
    <3> QED
      BY <3>3 DEF TransfersStay, EndsPending
  <2> QED
    BY <2>1, <2>2 DEF CreateTransfer
<1>3. UNCHANGED <<owner, alive, deleted>>
  BY DEF CreateTransfer, domainVars
<1>4. owner' \in Users
  BY <1>1, <1>3 DEF RowTypes
<1>5. IInv'
  BY <1>1, <1>2, <1>3, <1>4, ReturnKeeps
<1> QED
  BY <1>2, <1>3, <1>5 DEF Kept, HandsOver

LEMMA LockAcceptKeeps ==
  ASSUME IInv, alone' = alone, NEW h \in Handlers, LockAccept(h)
  PROVE  Kept
<1>1. RowTypes /\ pc[h] = "lock" /\ row[h] \in DOMAIN transfers /\ Unlocked
  BY DEF LockAccept, IInv, RowTypes
<1>2. UNCHANGED <<owner, alive, deleted, transfers, row, draft>>
  BY DEF LockAccept, domainVars, Advance
<1>3. transfers' \in Seq(Transfer) /\ TransfersStay /\ EndsPending
  BY <1>1, <1>2, SameTransfers
<1>4. CASE ~CanAccept(row[h])
  <2>1. pc' = [pc EXCEPT ![h] = "invalidate"]
    BY <1>4 DEF LockAccept, Advance
  <2>2. IInv'
    BY <1>1, <1>2, <1>3, <2>1, GoesOn DEF RowTypes, Steps
  <2> QED
    BY <1>2, <1>3, <2>2 DEF Kept, HandsOver
<1>5. CASE CanAccept(row[h])
  <2>1. pc' = [pc EXCEPT ![h] = "accept"]
    BY <1>5 DEF LockAccept, Advance
  <2>2. pc'[h] = "accept" /\ \A g \in Handlers : g # h => pc'[g] = pc[g]
    BY <1>1, <2>1 DEF RowTypes
  <2>3. pc' \in [Handlers -> Steps]
    BY <1>1, <2>1 DEF RowTypes, Steps
  <2>4. RowTypes'
    BY <1>1, <1>2, <2>2, <2>3 DEF RowTypes
  <2>5. ~deleted /\ transfers[row[h]].from = owner /\ transfers[row[h]].status = "PENDING"
    BY <1>5 DEF CanAccept
  <2>6. LockHolds'
    BY <1>1, <1>2, <2>2, <2>5 DEF LockHolds, Unlocked
  <2>7. alone => Undisturbed'
    BY <1>1, <1>2, <2>2, <2>5 DEF IInv, Undisturbed
  <2> QED
    BY <1>2, <1>3, <2>4, <2>6, <2>7 DEF Kept, HandsOver, IInv
<1> QED
  BY <1>4, <1>5

LEMMA ExpireStaleKeeps ==
  ASSUME IInv, alone' = alone, NEW h \in Handlers, ExpireStale(h)
  PROVE  Kept
<1>1. RowTypes /\ pc[h] = "stale" /\ draft[h] \in Users \X Users
  BY DEF ExpireStale, IInv, RowTypes
<1>2. transfers' \in Seq(Transfer) /\ TransfersStay /\ EndsPending
  BY <1>1, ExpireStay DEF ExpireStale
<1>3. UNCHANGED <<owner, alive, deleted, row, draft>> /\ pc' = [pc EXCEPT ![h] = "create"]
  BY DEF ExpireStale, domainVars, Advance
<1>4. IInv'
  BY <1>1, <1>2, <1>3, GoesOn DEF RowTypes, Steps
<1> QED
  BY <1>2, <1>3, <1>4 DEF Kept, HandsOver

LEMMA CallKeeps ==
  ASSUME IInv, alone' = alone, NEW h \in Handlers, NEW u, NEW t \in Nat,
         NEW step \in {"stale", "lock", "cancel"}, Call(h, u, t, step),
         UNCHANGED <<domainVars, alive, transfers>>,
         draft' = draft \/ \E d \in Users \X Users : draft' = [draft EXCEPT ![h] = d],
         step = "stale" => draft'[h] \in Users \X Users,
         step # "stale" => t \in DOMAIN transfers,
         step = "cancel" => transfers[t].status = "PENDING"
  PROVE  Kept
<1>1. RowTypes /\ pc[h] = "idle" /\ Quiet /\ pc' = [pc EXCEPT ![h] = step]
  BY DEF Call, IInv
<1>2. UNCHANGED <<owner, deleted, alive>>
  BY DEF domainVars
<1>3. transfers' \in Seq(Transfer) /\ TransfersStay /\ EndsPending
  BY <1>1, SameTransfers
<1>4. row' \in [Handlers -> Nat] /\ row'[h] = t /\ \A g \in Handlers : g # h => row'[g] = row[g]
  BY <1>1 DEF Call, RowTypes
<1>5. /\ draft' \in [Handlers -> Users \X Users \cup {NoDraft}]
      /\ \A g \in Handlers : g # h => draft'[g] = draft[g]
  BY <1>1 DEF RowTypes
<1>6. IInv'
  BY <1>1, <1>2, <1>3, <1>4, <1>5, GoesOn DEF Steps
<1> QED
  BY <1>2, <1>3, <1>6 DEF Kept, HandsOver

LEMMA HandlerStepKeeps ==
  ASSUME IInv, alone' = alone, NEW h \in Handlers, HandlerStep(h)
  PROVE  Kept
  BY ExpireStaleKeeps, CreateTransferKeeps, LockAcceptKeeps, CommitAcceptKeeps, InvalidateKeeps,
     CommitCancelKeeps DEF HandlerStep

\* Whatever leaves the requests and the owner alone.
LEMMA QuietKept ==
  ASSUME IInv, alone' = alone, UNCHANGED <<owner, pc, row, draft>>, alive' \subseteq alive,
         transfers' \in Seq(Transfer), TransfersStay, EndsPending,
         deleted' = deleted \/ Unlocked,
         \/ \A t \in DOMAIN transfers : transfers'[t].status = transfers[t].status
         \/ Quiet
  PROVE  Kept
  BY QuietKeeps DEF Kept, HandsOver

LEMMA StepKeeps ==
  ASSUME IInv, [Next]_vars
  PROVE  Kept
<1>0. RowTypes /\ alone' = alone
  BY DEF IInv, Next, vars
<1>1. ASSUME NEW h \in Handlers, HandlerStep(h)
      PROVE  Kept
  BY <1>0, <1>1, HandlerStepKeeps
<1>2. ASSUME NEW h \in Handlers, NEW u \in Users, NEW v \in Users, GuardPropose(h, u, v)
      PROVE  Kept
  <2>1. <<u, v>> \in Users \X Users /\ draft' = [draft EXCEPT ![h] = <<u, v>>]
    BY <1>2 DEF GuardPropose
  <2>2. draft'[h] \in Users \X Users
    BY <1>0, <2>1 DEF RowTypes
  <2>3. Call(h, u, 0, "stale") /\ UNCHANGED <<domainVars, alive, transfers>>
    BY <1>2 DEF GuardPropose
  <2> QED
    BY <1>0, <2>1, <2>2, <2>3, CallKeeps
<1>3. ASSUME NEW h \in Handlers, NEW t \in 1..MaxTransfers, ReadAccept(h, t) \/ ReadCancel(h, t)
      PROVE  Kept
  <2>1. t \in DOMAIN transfers /\ UNCHANGED <<draft, domainVars, alive, transfers>>
    BY <1>3 DEF ReadAccept, ReadCancel
  <2>2. t \in Nat
    BY <1>0, <2>1 DEF RowTypes
  <2>3. CASE ReadAccept(h, t)
    <3>1. Call(h, transfers[t].to, t, "lock")
      BY <2>3 DEF ReadAccept
    <3> QED
      BY <1>0, <2>1, <2>2, <3>1, CallKeeps
  <2>4. CASE ReadCancel(h, t)
    <3>1. Call(h, owner, t, "cancel") /\ transfers[t].status = "PENDING"
      BY <2>4 DEF ReadCancel
    <3> QED
      BY <1>0, <2>1, <2>2, <3>1, CallKeeps
  <2> QED
    BY <1>3, <2>3, <2>4
<1>4. ASSUME NEW t \in 1..MaxTransfers, TransferLate(t)
      PROVE  Kept
  <2>1. t \in DOMAIN transfers /\ transfers' = [transfers EXCEPT ![t].late = TRUE]
    BY <1>4 DEF TransferLate
  <2>2. UNCHANGED <<owner, deleted, alive, pc, row, draft>>
    BY <1>4 DEF TransferLate, domainVars, handlerVars
  <2>3. /\ transfers' \in Seq(Transfer) /\ TransfersStay
        /\ \A i \in DOMAIN transfers : transfers'[i].status = transfers[i].status
    BY <1>0, <2>1, LateStay
  <2> QED
    BY <1>0, <2>2, <2>3, QuietKept DEF EndsPending
<1>5. CASE SweepExpired
  <2>1. transfers' \in Seq(Transfer) /\ TransfersStay /\ EndsPending /\ Quiet
    BY <1>0, <1>5, ExpireStay DEF SweepExpired
  <2>2. UNCHANGED <<owner, deleted, alive, pc, row, draft>>
    BY <1>5 DEF SweepExpired, domainVars, handlerVars
  <2> QED
    BY <1>0, <2>1, <2>2, QuietKept
<1>6. CASE PurgeDelete
  <2>1. Unlocked /\ Quiet
    BY <1>6 DEF PurgeDelete, Writable
  <2>2. UNCHANGED <<owner, alive, pc, row, draft>>
    BY <1>6 DEF PurgeDelete, handlerVars
  <2>3. "INVALIDATED" \in Finished
    BY DEF Finished
  <2>4. transfers' = [t \in DOMAIN transfers |->
                        IF transfers[t].status = "PENDING" /\ t \in DOMAIN transfers
                        THEN [transfers[t] EXCEPT !.status = "INVALIDATED"] ELSE transfers[t]]
    BY <1>6 DEF PurgeDelete
  <2>5. transfers' \in Seq(Transfer) /\ TransfersStay /\ EndsPending
    BY <1>0, <2>3, <2>4, SweepStay
  <2> QED
    BY <1>0, <2>1, <2>2, <2>5, QuietKept
<1>7. ASSUME UNCHANGED <<owner, pc, row, draft, transfers>>, alive' \subseteq alive,
             deleted' = deleted \/ Unlocked
      PROVE  Kept
  BY <1>0, <1>7, SameTransfers, QuietKept
<1>8. ASSUME NEW w \in Workers, WorkerStep(w) \/ Stumble(w) \/ Vanish(w)
      PROVE  Kept
  BY <1>7, <1>8 DEF WorkerStep, Claim, ReadDomain, Lookup, CommitVerified, Fail, Stumble, Vanish,
     domainVars, handlerVars
<1>9. ASSUME NEW f \in Fqdns, Publish(f) \/ Rename(f)
      PROVE  Kept
  BY <1>7, <1>9 DEF Publish, Rename, domainVars, handlerVars
<1>10. CASE RequestVerification \/ SoftDelete \/ PurgeList
  BY <1>7, <1>10 DEF RequestVerification, SoftDelete, PurgeList, Writable, domainVars, handlerVars
<1>11. ASSUME NEW u \in Users, DeleteUser(u)
       PROVE  Kept
  BY <1>7, <1>11 DEF DeleteUser, domainVars, handlerVars
<1>12. CASE UNCHANGED vars
  BY <1>7, <1>12 DEF vars, domainVars, handlerVars
<1> QED
  BY <1>1, <1>2, <1>3, <1>4, <1>5, <1>6, <1>8, <1>9, <1>10, <1>11, <1>12
     DEF Next, Step, VerificationNext, TransferNext

LEMMA InitHolds == Init => IInv
<1> SUFFICES ASSUME Init
             PROVE  IInv
  OBVIOUS
<1>1. transfers \in Seq(Transfer) /\ transfers = << >>
  BY DEF Init
<1>2. RowTypes
  BY <1>1 DEF Init, RowTypes, Steps
<1> QED
  BY <1>2 DEF Init, IInv, LockHolds, Undisturbed

\* What the lock of an acceptance and the rows of the transfers keep at every step.
THEOREM Invariant == Spec => []IInv
<1>1. IInv /\ [Next]_vars => IInv'
  BY StepKeeps DEF Kept
<1> QED
  BY <1>1, InitHolds, PTL DEF Spec

\* However many requests, renames, deletions and purges interleave, a domain changes hands
\* only by a transfer of its present owner, and never when it is deleted; and where
\* requests come one at a time a transfer that has ended stays as it ended.
THEOREM HandedOverOnlyByOwners == Spec => TransfersHold
<1>1. IInv /\ [Next]_vars => [HandsOver]_vars /\ [alone => EndsPending]_vars
  BY StepKeeps DEF Kept
<1>2. HandsOver <=> (owner' # owner =>
        /\ ~deleted
        /\ \E t \in DOMAIN transfers :
             /\ transfers[t].from = owner
             /\ transfers[t].to = owner'
             /\ transfers'[t].status = "ACCEPTED")
  BY DEF HandsOver
<1>3. (alone => EndsPending) <=> (alone => \A t \in DOMAIN transfers :
        transfers[t].status \in Finished => transfers'[t].status = transfers[t].status)
  BY DEF EndsPending
<1> QED
  BY <1>1, <1>2, <1>3, Invariant, PTL DEF Spec, TransfersHold, HandedByOwner, FinishedStaysFinished

-----------------------------------------------------------------------------
(* The verification.                                                       *)

WorkerSteps == {"idle", "claimed", "lookup", "found", "fail"}
Verdicts    == Inflight \cup {"SUCCEEDED", "FAILED"}

VerificationTypes ==
  /\ alone \in BOOLEAN /\ deleted \in BOOLEAN /\ purging \in BOOLEAN
  /\ fqdn \in Fqdns /\ status \in {"UNVERIFIED", "VERIFIED", "DELETED"}
  /\ issued \in 1..MaxTokens /\ token \in 0..MaxTokens
  /\ dns \subseteq Fqdns \X (1..MaxTokens)
  /\ attempts \in Seq(Verdicts)
  /\ wpc \in [Workers -> WorkerSteps]
  /\ job \in [Workers -> Nat]
  /\ read \in [Workers -> {NothingRead} \cup [fqdn : Fqdns, token : 1..MaxTokens]]

\* An attempt that is run was taken off the queue, by its worker alone.
TakenOnce ==
  /\ \A w \in Workers : wpc[w] # "idle" =>
       job[w] \in DOMAIN attempts /\ attempts[job[w]] # "PENDING"
  /\ OneWorkerPerAttempt

\* What is published is under a name the owners control, and what is found is published.
ProofsAreControlled ==
  /\ \A record \in dns : record[1] \in Controlled
  /\ \A w \in Workers : wpc[w] = "found" => <<read[w].fqdn, read[w].token>> \in dns

\* A run that nothing overtakes works for the name and the row that there are.
RunIsCurrent ==
  \A w \in Workers : wpc[w] \in {"lookup", "found"} => ~deleted /\ read[w].fqdn = fqdn

VerificationIInv ==
  /\ VerificationTypes
  /\ TakenOnce
  /\ ProofsAreControlled
  /\ alone => RunIsCurrent
  /\ VerifiedUnlessOvertaken
  /\ DeletedTogether

\* A step of a request, or of an owner, that leaves row and runs alone.
LEMMA RunsUntouched ==
  ASSUME VerificationIInv, purging' \in BOOLEAN,
         UNCHANGED <<alone, fqdn, status, deleted, token, dns, issued, attempts, wpc, job, read>>
  PROVE  VerificationIInv'
BY DEF VerificationIInv, VerificationTypes, TakenOnce, OneWorkerPerAttempt, ProofsAreControlled,
       RunIsCurrent, VerifiedUnlessOvertaken, VerifiedIsControlled, DeletedTogether

LEMMA ClaimKeeps ==
  ASSUME VerificationIInv, alone' = alone, NEW w \in Workers, Claim(w)
  PROVE  VerificationIInv'
<1>1. PICK i \in DOMAIN attempts :
        attempts[i] = "PENDING" /\ attempts' = [attempts EXCEPT ![i] = "RUNNING"] /\ job' = [job EXCEPT ![w] = i]
  BY DEF Claim
<1>2. /\ wpc[w] = "idle" /\ wpc' = [wpc EXCEPT ![w] = "claimed"]
      /\ UNCHANGED <<fqdn, status, deleted, token, dns, issued, read, purging>>
  BY DEF Claim, domainVars
<1>3. VerificationTypes'
  <2>1. i \in Nat /\ "RUNNING" \in Verdicts /\ "claimed" \in WorkerSteps
    BY DEF VerificationIInv, VerificationTypes, Verdicts, Inflight, WorkerSteps
  <2>2. attempts' \in Seq(Verdicts) /\ wpc' \in [Workers -> WorkerSteps] /\ job' \in [Workers -> Nat]
    BY <1>1, <1>2, <2>1 DEF VerificationIInv, VerificationTypes
  <2> QED
    BY <1>2, <2>2 DEF VerificationIInv, VerificationTypes
<1>4. /\ \A v \in Workers : wpc'[v] = IF v = w THEN "claimed" ELSE wpc[v]
      /\ \A v \in Workers : job'[v] = IF v = w THEN i ELSE job[v]
      /\ DOMAIN attempts' = DOMAIN attempts
      /\ \A j \in DOMAIN attempts : attempts'[j] = IF j = i THEN "RUNNING" ELSE attempts[j]
  BY <1>1, <1>2 DEF VerificationIInv, VerificationTypes
<1>5. TakenOnce'
  BY <1>1, <1>2, <1>4 DEF VerificationIInv, TakenOnce, OneWorkerPerAttempt
<1> QED
  BY <1>2, <1>3, <1>4, <1>5 DEF VerificationIInv, ProofsAreControlled, RunIsCurrent,
     VerifiedUnlessOvertaken, VerifiedIsControlled, DeletedTogether

LEMMA ReadDomainKeeps ==
  ASSUME VerificationIInv, alone' = alone, NEW w \in Workers, ReadDomain(w)
  PROVE  VerificationIInv'
<1>1. /\ wpc[w] = "claimed"
      /\ UNCHANGED <<fqdn, status, deleted, token, dns, issued, purging, attempts, job>>
  BY DEF ReadDomain, domainVars, Goto
<1>2. \/ /\ ~deleted /\ token # NoToken /\ wpc' = [wpc EXCEPT ![w] = "lookup"]
         /\ read' = [read EXCEPT ![w] = [fqdn |-> fqdn, token |-> token]]
      \/ wpc' = [wpc EXCEPT ![w] = "fail"] /\ read' = read
  BY DEF ReadDomain, Goto
<1>3. \A v \in Workers : v # w => wpc'[v] = wpc[v] /\ read'[v] = read[v]
  BY <1>2 DEF VerificationIInv, VerificationTypes
<1>4. \/ wpc'[w] = "lookup" /\ ~deleted /\ read'[w].fqdn = fqdn
      \/ wpc'[w] = "fail"
  BY <1>2 DEF VerificationIInv, VerificationTypes
<1>5. VerificationTypes'
  <2>1. wpc' \in [Workers -> WorkerSteps]
    BY <1>2 DEF VerificationIInv, VerificationTypes, WorkerSteps
  <2>2. read' \in [Workers -> {NothingRead} \cup [fqdn : Fqdns, token : 1..MaxTokens]]
    <3>1. CASE token # NoToken /\ read' = [read EXCEPT ![w] = [fqdn |-> fqdn, token |-> token]]
      <4>1. token \in 1..MaxTokens
        BY <3>1, DomainsAssumption DEF VerificationIInv, VerificationTypes, NoToken
      <4> QED
        BY <3>1, <4>1 DEF VerificationIInv, VerificationTypes
    <3> QED
      BY <1>2, <3>1 DEF VerificationIInv, VerificationTypes
  <2> QED
    BY <1>1, <2>1, <2>2 DEF VerificationIInv, VerificationTypes
<1>6. TakenOnce'
  BY <1>1, <1>3 DEF VerificationIInv, TakenOnce, OneWorkerPerAttempt
<1>7. ProofsAreControlled' /\ (alone => RunIsCurrent)'
  BY <1>1, <1>3, <1>4 DEF VerificationIInv, ProofsAreControlled, RunIsCurrent
<1> QED
  BY <1>1, <1>5, <1>6, <1>7 DEF VerificationIInv, VerifiedUnlessOvertaken, VerifiedIsControlled,
     DeletedTogether

LEMMA LookupKeeps ==
  ASSUME VerificationIInv, alone' = alone, NEW w \in Workers, Lookup(w)
  PROVE  VerificationIInv'
<1>1. /\ wpc[w] = "lookup"
      /\ UNCHANGED <<fqdn, status, deleted, token, dns, issued, purging, attempts, job, read>>
  BY DEF Lookup, domainVars, Goto
<1>2. \/ wpc' = [wpc EXCEPT ![w] = "found"] /\ <<read[w].fqdn, read[w].token>> \in dns
      \/ wpc' = [wpc EXCEPT ![w] = "fail"]
  BY DEF Lookup, Goto
<1>3. \A v \in Workers : v # w => wpc'[v] = wpc[v]
  BY <1>2 DEF VerificationIInv, VerificationTypes
<1>4. \/ wpc'[w] = "found" /\ <<read[w].fqdn, read[w].token>> \in dns
      \/ wpc'[w] = "fail"
  BY <1>2 DEF VerificationIInv, VerificationTypes
<1>5. wpc' \in [Workers -> WorkerSteps]
  BY <1>2 DEF VerificationIInv, VerificationTypes, WorkerSteps
<1>6. TakenOnce'
  BY <1>1, <1>3 DEF VerificationIInv, TakenOnce, OneWorkerPerAttempt
<1>7. ProofsAreControlled' /\ (alone => RunIsCurrent)'
  BY <1>1, <1>3, <1>4 DEF VerificationIInv, ProofsAreControlled, RunIsCurrent
<1> QED
  BY <1>1, <1>5, <1>6, <1>7 DEF VerificationIInv, VerificationTypes, VerifiedUnlessOvertaken,
     VerifiedIsControlled, DeletedTogether

LEMMA StumbleKeeps ==
  ASSUME VerificationIInv, alone' = alone, NEW w \in Workers, Stumble(w)
  PROVE  VerificationIInv'
<1>1. /\ wpc[w] # "idle" /\ wpc' = [wpc EXCEPT ![w] = "fail"]
      /\ UNCHANGED <<fqdn, status, deleted, token, dns, issued, purging, attempts, job, read>>
  BY DEF Stumble, domainVars, Goto
<1>2. wpc' \in [Workers -> WorkerSteps]
  BY <1>1 DEF VerificationIInv, VerificationTypes, WorkerSteps
<1>3. \A v \in Workers : wpc'[v] = IF v = w THEN "fail" ELSE wpc[v]
  BY <1>1 DEF VerificationIInv, VerificationTypes
<1>4. TakenOnce'
  BY <1>1, <1>3 DEF VerificationIInv, TakenOnce, OneWorkerPerAttempt
<1>5. ProofsAreControlled' /\ (alone => RunIsCurrent)'
  BY <1>1, <1>3 DEF VerificationIInv, ProofsAreControlled, RunIsCurrent
<1> QED
  BY <1>1, <1>2, <1>4, <1>5 DEF VerificationIInv, VerificationTypes, VerifiedUnlessOvertaken,
     VerifiedIsControlled, DeletedTogether

\* A worker is gone: its attempt stays as it is.
LEMMA VanishKeeps ==
  ASSUME VerificationIInv, alone' = alone, NEW w \in Workers, Vanish(w)
  PROVE  VerificationIInv'
<1>1. /\ wpc' = [wpc EXCEPT ![w] = "idle"] /\ job' = [job EXCEPT ![w] = 0]
      /\ read' = [read EXCEPT ![w] = NothingRead]
      /\ UNCHANGED <<fqdn, status, deleted, token, dns, issued, purging, attempts>>
  BY DEF Vanish, Rest, domainVars
<1>2. \A v \in Workers : IF v = w THEN wpc'[v] = "idle"
                         ELSE wpc'[v] = wpc[v] /\ job'[v] = job[v] /\ read'[v] = read[v]
  BY <1>1 DEF VerificationIInv, VerificationTypes
<1>3. /\ wpc' \in [Workers -> WorkerSteps] /\ job' \in [Workers -> Nat]
      /\ read' \in [Workers -> {NothingRead} \cup [fqdn : Fqdns, token : 1..MaxTokens]]
  BY <1>1 DEF VerificationIInv, VerificationTypes, WorkerSteps
<1>4. TakenOnce'
  BY <1>1, <1>2 DEF VerificationIInv, TakenOnce, OneWorkerPerAttempt
<1>5. ProofsAreControlled' /\ (alone => RunIsCurrent)'
  BY <1>1, <1>2 DEF VerificationIInv, ProofsAreControlled, RunIsCurrent
<1> QED
  BY <1>1, <1>3, <1>4, <1>5 DEF VerificationIInv, VerificationTypes, VerifiedUnlessOvertaken,
     VerifiedIsControlled, DeletedTogether

\* A run ends: its attempt has an end, and the row is as it was or VERIFIED.
LEMMA RunEnds ==
  ASSUME VerificationIInv, alone' = alone, NEW w \in Workers, wpc[w] \in {"found", "fail"}, Rest(w),
         NEW verdict \in {"SUCCEEDED", "FAILED"},
         attempts' = [attempts EXCEPT ![job[w]] = verdict],
         UNCHANGED <<fqdn, deleted, dns, issued, purging>>,
         \/ UNCHANGED <<status, token>>
         \/ status' = "VERIFIED" /\ token' = NoToken /\ wpc[w] = "found"
  PROVE  VerificationIInv'
<1>1. /\ wpc' = [wpc EXCEPT ![w] = "idle"] /\ job' = [job EXCEPT ![w] = 0]
      /\ read' = [read EXCEPT ![w] = NothingRead]
  BY DEF Rest
<1>2. \A v \in Workers : IF v = w THEN wpc'[v] = "idle"
                         ELSE wpc'[v] = wpc[v] /\ job'[v] = job[v] /\ read'[v] = read[v]
  BY <1>1 DEF VerificationIInv, VerificationTypes
<1>3. /\ DOMAIN attempts' = DOMAIN attempts /\ attempts' \in Seq(Verdicts)
      /\ \A j \in DOMAIN attempts : attempts'[j] = IF j = job[w] THEN verdict ELSE attempts[j]
  <2>1. attempts \in Seq(Verdicts) /\ verdict \in Verdicts
    BY DEF VerificationIInv, VerificationTypes, Verdicts
  <2>2. PICK i \in DOMAIN attempts : i = job[w] /\ attempts' = [attempts EXCEPT ![i] = verdict]
    BY DEF VerificationIInv, TakenOnce
  <2>3. attempts' \in Seq(Verdicts)
    BY <2>1, <2>2
  <2>4. /\ DOMAIN attempts' = DOMAIN attempts
        /\ \A j \in DOMAIN attempts : attempts'[j] = IF j = i THEN verdict ELSE attempts[j]
    BY <2>2
  <2> QED
    BY <2>2, <2>3, <2>4
<1>4. VerificationTypes'
  <2>1. /\ wpc' \in [Workers -> WorkerSteps] /\ job' \in [Workers -> Nat]
        /\ read' \in [Workers -> {NothingRead} \cup [fqdn : Fqdns, token : 1..MaxTokens]]
    BY <1>1 DEF VerificationIInv, VerificationTypes, WorkerSteps
  <2>2. token' \in 0..MaxTokens
    BY DomainsAssumption DEF VerificationIInv, VerificationTypes, NoToken
  <2> QED
    BY <1>3, <2>1, <2>2 DEF VerificationIInv, VerificationTypes
<1>5. TakenOnce'
  BY <1>2, <1>3 DEF VerificationIInv, TakenOnce, OneWorkerPerAttempt
<1>6. ProofsAreControlled' /\ (alone => RunIsCurrent)'
  BY <1>2 DEF VerificationIInv, ProofsAreControlled, RunIsCurrent
<1>7. ASSUME alone, wpc[w] = "found" PROVE ~deleted /\ fqdn \in Controlled
  <2>1. ~deleted /\ read[w].fqdn = fqdn
    BY <1>7 DEF VerificationIInv, RunIsCurrent
  <2>2. <<read[w].fqdn, read[w].token>> \in dns
    BY <1>7 DEF VerificationIInv, ProofsAreControlled
  <2>3. <<read[w].fqdn, read[w].token>>[1] \in Controlled
    BY <2>2 DEF VerificationIInv, ProofsAreControlled
  <2> QED
    BY <2>1, <2>3
<1>8. VerifiedUnlessOvertaken' /\ DeletedTogether'
  BY <1>7 DEF VerificationIInv, VerifiedUnlessOvertaken, VerifiedIsControlled, DeletedTogether
<1> QED
  BY <1>4, <1>5, <1>6, <1>8 DEF VerificationIInv

LEMMA PublishKeeps ==
  ASSUME VerificationIInv, alone' = alone, NEW f \in Fqdns, Publish(f)
  PROVE  VerificationIInv'
<1>1. /\ f \in Controlled /\ token # NoToken /\ dns' = dns \cup {<<f, token>>}
      /\ UNCHANGED <<fqdn, status, deleted, token, issued, attempts, wpc, job, read, purging>>
  BY DEF Publish, domainVars, workerVars
<1>2. token \in 1..MaxTokens
  BY <1>1, DomainsAssumption DEF VerificationIInv, VerificationTypes, NoToken
<1>3. VerificationTypes'
  BY <1>1, <1>2 DEF VerificationIInv, VerificationTypes
<1>4. ProofsAreControlled'
  BY <1>1 DEF VerificationIInv, ProofsAreControlled
<1> QED
  BY <1>1, <1>3, <1>4 DEF VerificationIInv, TakenOnce, OneWorkerPerAttempt, RunIsCurrent,
     VerifiedUnlessOvertaken, VerifiedIsControlled, DeletedTogether

LEMMA RequestKeeps ==
  ASSUME VerificationIInv, alone' = alone, RequestVerification
  PROVE  VerificationIInv'
<1>1. /\ attempts' = Append(attempts, "PENDING")
      /\ UNCHANGED <<fqdn, status, deleted, token, dns, issued, wpc, job, read, purging>>
  BY DEF RequestVerification, domainVars
<1>2. /\ attempts' \in Seq(Verdicts)
      /\ \A j \in DOMAIN attempts : j \in DOMAIN attempts' /\ attempts'[j] = attempts[j]
  BY <1>1 DEF VerificationIInv, VerificationTypes, Verdicts, Inflight
<1>3. VerificationTypes'
  BY <1>1, <1>2 DEF VerificationIInv, VerificationTypes
<1>4. TakenOnce'
  BY <1>1, <1>2 DEF VerificationIInv, TakenOnce, OneWorkerPerAttempt
<1> QED
  BY <1>1, <1>3, <1>4 DEF VerificationIInv, ProofsAreControlled, RunIsCurrent,
     VerifiedUnlessOvertaken, VerifiedIsControlled, DeletedTogether

\* A request changes the row: alone it finds no worker at it, and no attempt goes back to
\* the queue.
LEMMA RowChanges ==
  ASSUME VerificationIInv, alone' = alone, Quiet,
         fqdn' \in Fqdns, token' \in 0..MaxTokens, issued' \in 1..MaxTokens,
         deleted' \in BOOLEAN, purging' \in BOOLEAN,
         status' \in {"UNVERIFIED", "DELETED"}, alone => (deleted' <=> status' = "DELETED"),
         attempts' \in Seq(Verdicts), DOMAIN attempts' = DOMAIN attempts,
         \A j \in DOMAIN attempts : attempts[j] # "PENDING" => attempts'[j] # "PENDING",
         UNCHANGED <<dns, wpc, job, read>>
  PROVE  VerificationIInv'
<1>1. VerificationTypes'
  BY DEF VerificationIInv, VerificationTypes
<1>2. TakenOnce'
  BY DEF VerificationIInv, TakenOnce, OneWorkerPerAttempt
<1>3. (alone => RunIsCurrent)'
  BY DEF Quiet, RunIsCurrent
<1> QED
  BY <1>1, <1>2, <1>3 DEF VerificationIInv, ProofsAreControlled, VerifiedUnlessOvertaken,
     VerifiedIsControlled, DeletedTogether

LEMMA RenameKeeps ==
  ASSUME VerificationIInv, alone' = alone, NEW f \in Fqdns, Rename(f)
  PROVE  VerificationIInv'
<1>1. /\ Quiet /\ Checked /\ issued < MaxTokens /\ fqdn' = f /\ status' = "UNVERIFIED"
      /\ token' = issued + 1 /\ issued' = issued + 1
      /\ UNCHANGED <<deleted, purging, attempts, dns, wpc, job, read>>
  BY DEF Rename, Writable, workerVars
<1>2. issued + 1 \in 1..MaxTokens /\ issued + 1 \in 0..MaxTokens
  BY <1>1, DomainsAssumption DEF VerificationIInv, VerificationTypes
<1>3. alone => ~deleted
  BY <1>1 DEF Checked
<1> QED
  BY <1>1, <1>2, <1>3, RowChanges DEF VerificationIInv, VerificationTypes

LEMMA SoftDeleteKeeps ==
  ASSUME VerificationIInv, alone' = alone, SoftDelete
  PROVE  VerificationIInv'
<1>1. /\ Quiet /\ status' = "DELETED" /\ deleted' = TRUE /\ token' = NoToken
      /\ UNCHANGED <<fqdn, issued, purging, dns, wpc, job, read>>
      /\ attempts' = [i \in DOMAIN attempts |-> IF attempts[i] \in Inflight THEN "FAILED" ELSE attempts[i]]
  BY DEF SoftDelete, Writable
<1>2. /\ attempts' \in Seq(Verdicts) /\ DOMAIN attempts' = DOMAIN attempts
      /\ \A j \in DOMAIN attempts : attempts[j] # "PENDING" => attempts'[j] # "PENDING"
  <2>1. attempts \in Seq(Verdicts) /\ "FAILED" \in Verdicts
    BY DEF VerificationIInv, VerificationTypes, Verdicts
  <2>2. /\ DOMAIN attempts' = DOMAIN attempts
        /\ \A j \in DOMAIN attempts :
             attempts'[j] = IF attempts[j] \in Inflight THEN "FAILED" ELSE attempts[j]
    BY <1>1
  <2>3. attempts' \in Seq(Verdicts)
    BY <1>1, <2>1
  <2> QED
    BY <2>2, <2>3
<1>3. token' \in 0..MaxTokens
  BY <1>1, DomainsAssumption DEF NoToken
<1> QED
  BY <1>1, <1>2, <1>3, RowChanges DEF VerificationIInv, VerificationTypes

LEMMA PurgeKeeps ==
  ASSUME VerificationIInv, alone' = alone, PurgeDelete
  PROVE  VerificationIInv'
<1>1. /\ Quiet /\ status' = "DELETED" /\ deleted' = TRUE /\ purging' = FALSE
      /\ UNCHANGED <<fqdn, token, issued, attempts, dns, wpc, job, read>>
  BY DEF PurgeDelete, Writable, workerVars
<1> QED
  BY <1>1, RowChanges DEF VerificationIInv, VerificationTypes

LEMMA VerificationStep ==
  ASSUME VerificationIInv, [Next]_vars
  PROVE  VerificationIInv'
<1>0. alone' = alone
  BY DEF Next, vars
<1>1. ASSUME purging' \in BOOLEAN, UNCHANGED <<fqdn, status, deleted, token, dns, issued, workerVars>>
      PROVE  VerificationIInv'
  BY <1>0, <1>1, RunsUntouched DEF workerVars
<1>2. purging \in BOOLEAN
  BY DEF VerificationIInv, VerificationTypes
<1>3. CASE TransferNext
  <2>1. UNCHANGED <<fqdn, status, deleted, token, dns, issued, workerVars, purging>>
    BY <1>3 DEF TransferNext, HandlerStep, ExpireStale, CreateTransfer, LockAccept, CommitAccept,
       Invalidate, CommitCancel, GuardPropose, ReadAccept, ReadCancel, TransferLate, SweepExpired, domainVars
  <2> QED
    BY <1>1, <1>2, <2>1
<1>4. ASSUME NEW w \in Workers, WorkerStep(w)
      PROVE  VerificationIInv'
  <2>1. CASE CommitVerified(w)
    BY <1>0, <2>1, RunEnds DEF CommitVerified
  <2>2. CASE Fail(w)
    BY <1>0, <2>2, RunEnds DEF Fail, domainVars
  <2> QED
    BY <1>0, <1>4, <2>1, <2>2, ClaimKeeps, ReadDomainKeeps, LookupKeeps DEF WorkerStep
<1>5. CASE VerificationNext
  BY <1>0, <1>4, <1>5, StumbleKeeps, VanishKeeps, PublishKeeps, RequestKeeps DEF VerificationNext
<1>6. CASE (\E f \in Fqdns : Rename(f)) \/ SoftDelete \/ PurgeDelete
  BY <1>0, <1>6, RenameKeeps, SoftDeleteKeeps, PurgeKeeps
<1>7. CASE (\E u \in Users : DeleteUser(u)) \/ PurgeList \/ UNCHANGED vars
  BY <1>1, <1>2, <1>7 DEF DeleteUser, PurgeList, vars, domainVars
<1> QED
  BY <1>3, <1>5, <1>6, <1>7 DEF Next, Step

LEMMA VerificationStarts == Init => VerificationIInv
<1> SUFFICES ASSUME Init
             PROVE  VerificationIInv
  OBVIOUS
<1>1. VerificationTypes
  <2>1. attempts \in Seq(Verdicts) /\ dns \subseteq Fqdns \X (1..MaxTokens)
    BY DEF Init
  <2>2. issued \in 1..MaxTokens /\ token \in 0..MaxTokens
    BY DomainsAssumption DEF Init
  <2>3. /\ wpc \in [Workers -> WorkerSteps] /\ job \in [Workers -> Nat]
        /\ read \in [Workers -> {NothingRead} \cup [fqdn : Fqdns, token : 1..MaxTokens]]
    BY DEF Init, WorkerSteps
  <2> QED
    BY <2>1, <2>2, <2>3 DEF Init, VerificationTypes
<1> QED
  BY <1>1 DEF Init, VerificationIInv, TakenOnce, OneWorkerPerAttempt, ProofsAreControlled, RunIsCurrent,
     VerifiedUnlessOvertaken, VerifiedIsControlled, DeletedTogether

-----------------------------------------------------------------------------
(* Who answers for an attempt that is RUNNING.                             *)

Accounted == orphaned \subseteq DOMAIN attempts /\ NoneLeftRunning

LEMMA ClaimAccounts ==
  ASSUME VerificationIInv, Accounted, NEW w \in Workers, Claim(w)
  PROVE  Accounted'
<1>1. PICK i \in DOMAIN attempts :
        attempts' = [attempts EXCEPT ![i] = "RUNNING"] /\ job' = [job EXCEPT ![w] = i]
  BY DEF Claim
<1>2. wpc[w] = "idle" /\ wpc' = [wpc EXCEPT ![w] = "claimed"] /\ orphaned' = orphaned
  BY DEF Claim
<1>3. /\ \A v \in Workers : IF v = w THEN wpc'[v] = "claimed" /\ job'[v] = i
                            ELSE wpc'[v] = wpc[v] /\ job'[v] = job[v]
      /\ DOMAIN attempts' = DOMAIN attempts
      /\ \A j \in DOMAIN attempts : j # i => attempts'[j] = attempts[j]
  BY <1>1, <1>2 DEF VerificationIInv, VerificationTypes
<1> QED
  BY <1>2, <1>3 DEF Accounted, NoneLeftRunning

\* A run goes on, or towards its failure.
LEMMA RunAccounts ==
  ASSUME VerificationIInv, Accounted, NEW w \in Workers, NEW step \in WorkerSteps \ {"idle"},
         wpc[w] # "idle", Goto(w, step), UNCHANGED <<attempts, orphaned>>
  PROVE  Accounted'
<1>1. job' = job /\ \A v \in Workers : wpc'[v] # "idle" <=> wpc[v] # "idle"
  BY DEF Goto, VerificationIInv, VerificationTypes
<1> QED
  BY <1>1 DEF Accounted, NoneLeftRunning

\* It ends, with an end of its attempt or without.
LEMMA EndAccounts ==
  ASSUME VerificationIInv, Accounted, NEW w \in Workers, wpc[w] # "idle", Rest(w),
         DOMAIN attempts' = DOMAIN attempts,
         \A j \in DOMAIN attempts : j # job[w] => attempts'[j] = attempts[j],
         \/ orphaned' = orphaned /\ attempts'[job[w]] # "RUNNING"
         \/ orphaned' = orphaned \cup {job[w]}
  PROVE  Accounted'
<1>1. \A v \in Workers : v # w => wpc'[v] = wpc[v] /\ job'[v] = job[v]
  BY DEF Rest, VerificationIInv, VerificationTypes
<1>2. job[w] \in DOMAIN attempts
  BY DEF VerificationIInv, TakenOnce
<1> QED
  BY <1>1, <1>2 DEF Accounted, NoneLeftRunning

LEMMA AccountedStep ==
  ASSUME VerificationIInv, Accounted, [Next]_vars
  PROVE  Accounted'
<1>1. ASSUME UNCHANGED workerVars
      PROVE  Accounted'
  BY <1>1 DEF workerVars, Accounted, NoneLeftRunning
<1>2. ASSUME NEW w \in Workers, WorkerStep(w) \/ Stumble(w) \/ Vanish(w)
      PROVE  Accounted'
  <2>1. CASE ReadDomain(w) \/ Lookup(w) \/ Stumble(w)
    <3>1. PICK step \in {"lookup", "found", "fail"} : Goto(w, step)
      BY <2>1 DEF ReadDomain, Lookup, Stumble
    <3> QED
      BY <2>1, <3>1, RunAccounts DEF ReadDomain, Lookup, Stumble, WorkerSteps
  <2>2. CASE CommitVerified(w) \/ Fail(w)
    <3>1. PICK verdict \in {"SUCCEEDED", "FAILED"} : attempts' = [attempts EXCEPT ![job[w]] = verdict]
      BY <2>2 DEF CommitVerified, Fail
    <3>2. wpc[w] # "idle" /\ Rest(w) /\ orphaned' = orphaned /\ job[w] \in DOMAIN attempts
      BY <2>2 DEF CommitVerified, Fail, VerificationIInv, TakenOnce
    <3>3. attempts'[job[w]] = verdict
      BY <3>1, <3>2
    <3>4. /\ DOMAIN attempts' = DOMAIN attempts
          /\ \A j \in DOMAIN attempts : j # job[w] => attempts'[j] = attempts[j]
      BY <3>1
    <3> QED
      BY <3>2, <3>3, <3>4, EndAccounts
  <2>3. CASE Vanish(w)
    BY <2>3, EndAccounts DEF Vanish
  <2> QED
    BY <1>2, <2>1, <2>2, <2>3, ClaimAccounts DEF WorkerStep
<1>3. CASE RequestVerification
  <2>1. /\ attempts' = Append(attempts, "PENDING")
        /\ UNCHANGED <<wpc, job, orphaned>>
    BY <1>3 DEF RequestVerification
  <2>2. \A j \in DOMAIN attempts' :
          IF j \in DOMAIN attempts THEN attempts'[j] = attempts[j] ELSE attempts'[j] = "PENDING"
    BY <2>1 DEF VerificationIInv, VerificationTypes
  <2>3. DOMAIN attempts \subseteq DOMAIN attempts'
    BY <2>1 DEF VerificationIInv, VerificationTypes
  <2> QED
    BY <2>1, <2>2, <2>3 DEF Accounted, NoneLeftRunning
<1>4. CASE SoftDelete
  <2>1. /\ UNCHANGED <<wpc, job, orphaned>>
        /\ DOMAIN attempts' = DOMAIN attempts
        /\ \A j \in DOMAIN attempts :
             attempts'[j] = IF attempts[j] \in Inflight THEN "FAILED" ELSE attempts[j]
    BY <1>4 DEF SoftDelete
  <2> QED
    BY <2>1 DEF Accounted, NoneLeftRunning, Inflight
<1>5. CASE TransferNext
  BY <1>1, <1>5 DEF TransferNext, HandlerStep, ExpireStale, CreateTransfer, LockAccept, CommitAccept,
     Invalidate, CommitCancel, GuardPropose, ReadAccept, ReadCancel, TransferLate, SweepExpired
<1>6. CASE (\E f \in Fqdns : Publish(f) \/ Rename(f)) \/ PurgeDelete
  BY <1>1, <1>6 DEF Publish, Rename, PurgeDelete
<1>7. CASE (\E u \in Users : DeleteUser(u)) \/ PurgeList \/ UNCHANGED vars
  BY <1>1, <1>7 DEF DeleteUser, PurgeList, vars
<1> QED
  BY <1>2, <1>3, <1>4, <1>5, <1>6, <1>7 DEF Next, Step, VerificationNext

\* However many workers poll, however they fail, and whatever is asked meanwhile: no attempt
\* is run twice at once, a domain that is VERIFIED is one its owners control and a deleted
\* one says so in both its columns, unless a rename or a deletion overtakes a worker's run;
\* and an attempt stays RUNNING after its run only where its end could not be written.
THEOREM VerificationStands == Spec => []VerificationHolds
<1>1. VerificationIInv /\ [Next]_vars => VerificationIInv'
  BY VerificationStep
<1>2. VerificationIInv /\ Accounted /\ [Next]_vars => Accounted'
  BY AccountedStep
<1>3. Init => Accounted
  BY DEF Init, Accounted, NoneLeftRunning
<1>4. IInv /\ VerificationIInv /\ Accounted => VerificationHolds
  <2> SUFFICES ASSUME IInv, VerificationIInv, Accounted
               PROVE  TypeOK
    BY DEF VerificationIInv, VerificationHolds, TakenOnce, Accounted
  <2>1. \A t \in DOMAIN transfers : transfers[t] \in Transfer
    BY TransferTypes DEF IInv
  <2>2. \A i \in DOMAIN attempts : attempts[i] \in Verdicts
    BY DEF VerificationIInv, VerificationTypes
  <2> QED
    BY <2>1, <2>2 DEF IInv, RowTypes, Steps, VerificationIInv, VerificationTypes, TakenOnce,
       WorkerSteps, Verdicts, Accounted, TypeOK
<1> QED
  BY <1>1, <1>2, <1>3, <1>4, VerificationStarts, Invariant, PTL DEF Spec
=============================================================================
