---------------------------- MODULE OperationsProofs ----------------------------
(***************************************************************************)
(* Proofs about the operations that run beside the requests, each for any  *)
(* values of the constants: the queue that cleans up after deleted members *)
(* (any number of members, of types of resources, of ticks at the same     *)
(* time), the uploads and their collection, the settings that every        *)
(* instance keeps a copy of, and the verification of a domain.             *)
(***************************************************************************)
EXTENDS MCOperations, FiniteSetTheorems, TLAPS

-----------------------------------------------------------------------------
(* The queue of cleanups.                                                  *)

Running(w) == run[w].at # "idle"

\* A tick that runs has its job marked, and no other tick has the same.
RunsAreMarked ==
  \A w \in CleanupTicks :
    Running(w) => run[w].owner \in Owners /\ jobs[run[w].owner].status = "RUNNING"

RunsAreApart ==
  \A v, w \in CleanupTicks : Running(v) /\ Running(w) /\ run[v].owner = run[w].owner => v = w

\* Where a tick has been, nothing is left, unless it knows, or it came later.
HooksInOrder ==
  \A w \in CleanupTicks :
    /\ run[w].at = "hooks" => run[w].hook \in Types
    /\ run[w].at = "finish" => run[w].hook = Hooks + 1

Swept(w) ==
  run[w].at \in {"hooks", "finish"} /\ ~run[w].remaining /\ ~late[run[w].owner] =>
    \A t \in Types : t < run[w].hook => owned[run[w].owner][t] = 0

SweptBehind == \A w \in CleanupTicks : Swept(w)

\* The attempts that a tick counts on from are not more than the failures.
Counted(w) ==
  /\ Running(w) => run[w].attempts <= failures[run[w].owner]
  /\ run[w].at = "failed" => run[w].attempts + 1 <= failures[run[w].owner]

AttemptsAreFailures == \A w \in CleanupTicks : Counted(w)

\* RunningIsRun, without the set.
MarkedAreRun ==
  \A o \in Owners : jobs[o].status = "RUNNING" /\ ~lost[o] =>
    \E w \in CleanupTicks : Running(w) /\ run[w].owner = o

\* The inductive invariant.
IInv ==
  /\ TypeOK
  /\ RunsAreMarked
  /\ RunsAreApart
  /\ HooksInOrder
  /\ SweptBehind
  /\ AttemptsAreFailures
  /\ MarkedAreRun
  /\ DoneIsClean
  /\ GivenUpInTime

-----------------------------------------------------------------------------
(* Types                                                                   *)

JobsTyped == jobs \in
  [Owners -> [status : {"none", "PENDING", "RUNNING", "DONE", "FAILED"}, attempts : Nat]]
RunsTyped == run \in [CleanupTicks -> Run]

LEMMA NoRunType == NoRun \in Run
  BY CleanupAssumption DEF NoRun, Run

LEMMA OnwardType ==
  ASSUME NEW r \in Run, r.hook \in Types, NEW left \in Nat
  PROVE  /\ Onward(r, left) \in Run
         /\ Onward(r, left).owner = r.owner
         /\ Onward(r, left).attempts = r.attempts
         /\ Onward(r, left).hook = r.hook + 1
         /\ Onward(r, left).remaining = (r.remaining \/ left > 0)
         /\ Onward(r, left).at = IF r.hook = Hooks THEN "finish" ELSE "hooks"
<1> USE CleanupAssumption
<1>1. r.hook + 1 \in 1..(Hooks + 1) /\ (r.remaining \/ left > 0) \in BOOLEAN
  BY DEF Types
<1>2. (IF r.hook = Hooks THEN "finish" ELSE "hooks") \in {"idle", "hooks", "finish", "failed"}
  OBVIOUS
<1> DEFINE b == r.remaining \/ left > 0
           s == IF r.hook = Hooks THEN "finish" ELSE "hooks"
<1>3. Onward(r, left) = [r EXCEPT !.hook = @ + 1, !.remaining = b, !.at = s]
  BY DEF Onward
<1>4. b \in BOOLEAN /\ s \in {"idle", "hooks", "finish", "failed"}
  BY <1>1, <1>2
<1> HIDE DEF b, s
<1>5. /\ Onward(r, left) \in Run
      /\ Onward(r, left).owner = r.owner
      /\ Onward(r, left).attempts = r.attempts
      /\ Onward(r, left).hook = r.hook + 1
      /\ Onward(r, left).remaining = b
      /\ Onward(r, left).at = s
  BY <1>1, <1>3, <1>4 DEF Run
<1> QED
  BY <1>5 DEF b, s

LEMMA TypeKept ==
  ASSUME TypeOK, RunsAreMarked, HooksInOrder, Next
  PROVE  TypeOK'
<1> USE CleanupAssumption
<1> JobsTyped /\ RunsTyped
  BY DEF TypeOK, JobsTyped, RunsTyped
<1>1. ASSUME NEW o \in Owners, Enqueue(o)
      PROVE  TypeOK'
  <2>1. JobsTyped'
    BY <1>1 DEF Enqueue, JobsTyped
  <2> QED
    BY <1>1, <2>1 DEF TypeOK, JobsTyped, RunsTyped, Enqueue, told
<1>2. ASSUME NEW o \in Owners, NEW t \in Types, Acquire(o, t)
      PROVE  TypeOK'
  <2>1. owned' \in [Owners -> [Types -> 0..MaxOwned]]
    BY <1>2 DEF Acquire, TypeOK
  <2>2. late' \in [Owners -> BOOLEAN]
    BY <1>2 DEF Acquire, TypeOK
  <2> QED
    BY <1>2, <2>1, <2>2 DEF TypeOK, JobsTyped, RunsTyped, Acquire
<1>3. ASSUME NEW w \in CleanupTicks, NEW o \in Owners, Claim(w, o)
      PROVE  TypeOK'
  <2>1. JobsTyped'
    BY <1>3 DEF Claim, JobsTyped
  <2>2. [at |-> "hooks", owner |-> o, attempts |-> jobs[o].attempts, hook |-> 1,
         remaining |-> FALSE] \in Run
    BY DEF Run, JobsTyped
  <2>3. RunsTyped'
    BY <1>3, <2>2 DEF Claim, RunsTyped
  <2> QED
    BY <1>3, <2>1, <2>3 DEF TypeOK, JobsTyped, RunsTyped, Claim, told
<1>4. ASSUME NEW w \in CleanupTicks, Purge(w)
      PROVE  TypeOK'
  <2> DEFINE r == run[w]
             left == IF owned[r.owner][r.hook] > BatchLimit
                     THEN owned[r.owner][r.hook] - BatchLimit ELSE 0
  <2>1. r \in Run /\ r.owner \in Owners /\ r.hook \in Types
    BY <1>4 DEF Purge, RunsTyped, RunsAreMarked, Running, HooksInOrder
  <2>2. owned[r.owner][r.hook] \in 0..MaxOwned
    BY <2>1 DEF TypeOK
  <2>3. left \in 0..MaxOwned
    BY <2>2
  <2>4. owned' = [owned EXCEPT ![r.owner][r.hook] = left] /\ run' = [run EXCEPT ![w] = Onward(r, left)]
    BY <1>4 DEF Purge
  <2> HIDE DEF left, r
  <2>5. owned' \in [Owners -> [Types -> 0..MaxOwned]]
    BY <2>1, <2>3, <2>4 DEF TypeOK
  <2>6. RunsTyped'
    BY <2>1, <2>3, <2>4, OnwardType DEF RunsTyped
  <2> QED
    BY <1>4, <2>5, <2>6 DEF TypeOK, JobsTyped, RunsTyped, Purge, told
<1>5. ASSUME NEW w \in CleanupTicks, Finish(w)
      PROVE  TypeOK'
  <2>1. JobsTyped'
    BY <1>5 DEF Finish, JobsTyped
  <2>2. RunsTyped'
    BY <1>5, NoRunType DEF Finish, RunsTyped
  <2> QED
    BY <1>5, <2>1, <2>2 DEF TypeOK, JobsTyped, RunsTyped, Finish, told
<1>6. ASSUME NEW w \in CleanupTicks, Retry(w)
      PROVE  TypeOK'
  <2>1. run[w].attempts \in Nat
    BY DEF RunsTyped, Run
  <2>2. JobsTyped'
    <3> DEFINE n == run[w].attempts + 1
               j == [status |-> IF n >= AttemptLimit THEN "FAILED" ELSE "PENDING", attempts |-> n]
    <3>1. j \in [status : {"none", "PENDING", "RUNNING", "DONE", "FAILED"}, attempts : Nat]
      BY <2>1
    <3>2. jobs' = [jobs EXCEPT ![run[w].owner] = j]
      BY <1>6 DEF Retry
    <3> HIDE DEF j
    <3> QED
      BY <3>1, <3>2 DEF JobsTyped
  <2>3. RunsTyped'
    BY <1>6, NoRunType DEF Retry, RunsTyped
  <2> QED
    BY <1>6, <2>2, <2>3 DEF TypeOK, JobsTyped, RunsTyped, Retry, told
<1>7. ASSUME NEW w \in CleanupTicks, Throw(w)
      PROVE  TypeOK'
  <2>1. RunsTyped'
    BY <1>7 DEF Throw, RunsTyped, Run
  <2>2. run[w].owner \in Owners
    BY <1>7 DEF Throw, RunsAreMarked, Running
  <2>3. failures' \in [Owners -> Nat]
    BY <1>7, <2>2 DEF Throw, TypeOK
  <2>4. mishapsOfJobs' \in 0..MaxMishaps
    BY <1>7 DEF Throw, TypeOK
  <2> QED
    BY <1>7, <2>1, <2>3, <2>4 DEF TypeOK, JobsTyped, RunsTyped, Throw
<1>8. ASSUME NEW w \in CleanupTicks, Vanish(w)
      PROVE  TypeOK'
  <2>1. RunsTyped'
    BY <1>8, NoRunType DEF Vanish, RunsTyped
  <2>2. lost' \in [Owners -> BOOLEAN]
    BY <1>8 DEF Vanish, TypeOK
  <2>3. mishapsOfJobs' \in 0..MaxMishaps
    BY <1>8 DEF Vanish, TypeOK
  <2> QED
    BY <1>8, <2>1, <2>2, <2>3 DEF TypeOK, JobsTyped, RunsTyped, Vanish
<1> QED
  BY <1>1, <1>2, <1>3, <1>4, <1>5, <1>6, <1>7, <1>8 DEF Next, Tick

-----------------------------------------------------------------------------
(* What each action keeps, besides the types.                              *)

Kept == /\ RunsAreMarked /\ RunsAreApart /\ HooksInOrder /\ SweptBehind
        /\ AttemptsAreFailures /\ MarkedAreRun /\ DoneIsClean /\ GivenUpInTime

LEMMA EnqueueKeeps ==
  ASSUME IInv, NEW o \in Owners, Enqueue(o)
  PROVE  Kept'
<1> JobsTyped
  BY DEF IInv, TypeOK, JobsTyped
<1>1. /\ jobs[o].status = "none" /\ jobs' = [jobs EXCEPT ![o].status = "PENDING"]
      /\ UNCHANGED <<owned, run, late, failures, lost>>
  BY DEF Enqueue, told
<1>2. /\ \A p \in Owners : jobs'[p].attempts = jobs[p].attempts
      /\ \A p \in Owners : p # o => jobs'[p] = jobs[p]
      /\ jobs'[o].status = "PENDING"
  BY <1>1 DEF JobsTyped
<1>3. RunsAreMarked'
  BY <1>1, <1>2 DEF IInv, RunsAreMarked, Running
<1>4. RunsAreApart' /\ HooksInOrder' /\ SweptBehind' /\ AttemptsAreFailures'
  BY <1>1 DEF IInv, RunsAreApart, HooksInOrder, SweptBehind, Swept, AttemptsAreFailures, Counted,
     Running
<1>5. MarkedAreRun'
  BY <1>1, <1>2 DEF IInv, MarkedAreRun, Running
<1>6. DoneIsClean'
  BY <1>1, <1>2 DEF IInv, DoneIsClean
<1>7. GivenUpInTime'
  BY <1>1, <1>2 DEF IInv, GivenUpInTime
<1> QED
  BY <1>3, <1>4, <1>5, <1>6, <1>7 DEF Kept

LEMMA AcquireKeeps ==
  ASSUME IInv, NEW o \in Owners, NEW t \in Types, Acquire(o, t)
  PROVE  Kept'
<1>1. UNCHANGED <<jobs, run, failures, lost>>
  BY DEF Acquire
<1>2. /\ \A p \in Owners : p # o => owned'[p] = owned[p] /\ late'[p] = late[p]
      /\ late'[o]
  BY DEF Acquire, IInv, TypeOK
<1>3. RunsAreMarked' /\ RunsAreApart' /\ HooksInOrder' /\ AttemptsAreFailures' /\ MarkedAreRun'
  BY <1>1 DEF IInv, RunsAreMarked, RunsAreApart, HooksInOrder, AttemptsAreFailures, Counted,
     MarkedAreRun, Running
<1>4. SweptBehind'
  <2> SUFFICES ASSUME NEW w \in CleanupTicks
               PROVE  Swept(w)'
    BY DEF SweptBehind
  <2>1. run[w].owner \in Owners \/ run[w].at \notin {"hooks", "finish"}
    BY DEF IInv, RunsAreMarked, Running
  <2>2. Swept(w)
    BY DEF IInv, SweptBehind
  <2> QED
    BY <1>1, <1>2, <2>1, <2>2 DEF Swept
<1>5. DoneIsClean'
  BY <1>1, <1>2 DEF IInv, DoneIsClean
<1>6. GivenUpInTime'
  BY <1>1 DEF IInv, GivenUpInTime
<1> QED
  BY <1>3, <1>4, <1>5, <1>6 DEF Kept

LEMMA ClaimKeeps ==
  ASSUME IInv, NEW w \in CleanupTicks, NEW o \in Owners, Claim(w, o)
  PROVE  Kept'
<1> JobsTyped /\ RunsTyped
  BY DEF IInv, TypeOK, JobsTyped, RunsTyped
<1> DEFINE x == [at |-> "hooks", owner |-> o, attempts |-> jobs[o].attempts, hook |-> 1,
                 remaining |-> FALSE]
<1>1. /\ run[w].at = "idle" /\ jobs[o].status = "PENDING"
      /\ jobs' = [jobs EXCEPT ![o].status = "RUNNING"]
      /\ run' = [run EXCEPT ![w] = x]
      /\ UNCHANGED <<owned, late, failures, lost>>
  BY DEF Claim, Claimable, Waiting, told
<1>2. /\ x.at = "hooks" /\ x.owner = o /\ x.attempts = jobs[o].attempts
      /\ x.hook = 1 /\ x.remaining = FALSE
  OBVIOUS
<1> HIDE DEF x
<1>3. run'[w] = x /\ \A v \in CleanupTicks : v # w => run'[v] = run[v]
  BY <1>1 DEF RunsTyped
<1>4. /\ \A p \in Owners : jobs'[p].attempts = jobs[p].attempts
      /\ \A p \in Owners : p # o => jobs'[p] = jobs[p]
      /\ jobs'[o].status = "RUNNING"
  BY <1>1 DEF JobsTyped
<1>5. \A v \in CleanupTicks : Running(v) => run[v].owner # o
  BY <1>1 DEF IInv, RunsAreMarked
<1>6. RunsAreMarked'
  BY <1>2, <1>3, <1>4, <1>5 DEF IInv, RunsAreMarked, Running
<1>7. RunsAreApart'
  BY <1>2, <1>3, <1>5 DEF IInv, RunsAreApart, Running
<1>8. HooksInOrder'
  BY <1>2, <1>3, CleanupAssumption DEF IInv, HooksInOrder, Types
<1>9. SweptBehind'
  BY <1>1, <1>2, <1>3, CleanupAssumption DEF IInv, SweptBehind, Swept, Types
<1>10. AttemptsAreFailures'
  BY <1>1, <1>2, <1>3 DEF IInv, AttemptsAreFailures, Counted, Running, GivenUpInTime
<1>11. MarkedAreRun'
  <2> SUFFICES ASSUME NEW p \in Owners, jobs'[p].status = "RUNNING", ~lost[p]
               PROVE  \E v \in CleanupTicks : Running(v)' /\ run'[v].owner = p
    BY <1>1 DEF MarkedAreRun
  <2>1. CASE p = o
    BY <1>2, <1>3, <2>1 DEF Running
  <2>2. CASE p # o
    <3>1. PICK v \in CleanupTicks : Running(v) /\ run[v].owner = p
      BY <1>4, <2>2 DEF IInv, MarkedAreRun
    <3> QED
      BY <1>1, <1>3, <3>1 DEF Running
  <2> QED
    BY <2>1, <2>2
<1>12. DoneIsClean'
  BY <1>1, <1>4 DEF IInv, DoneIsClean
<1>13. GivenUpInTime'
  BY <1>1, <1>4 DEF IInv, GivenUpInTime
<1> QED
  BY <1>6, <1>7, <1>8, <1>9, <1>10, <1>11, <1>12, <1>13 DEF Kept

(* A tick that goes on with its job, where it is and what it counts.       *)
LEMMA GoesOn ==
  ASSUME IInv, NEW w \in CleanupTicks, Running(w), NEW x,
         run' = [run EXCEPT ![w] = x], x.at # "idle", x.owner = run[w].owner, UNCHANGED <<jobs, lost>>
  PROVE  /\ run'[w] = x /\ \A v \in CleanupTicks : v # w => run'[v] = run[v]
         /\ RunsAreMarked' /\ RunsAreApart' /\ MarkedAreRun'
<1> RunsTyped
  BY DEF IInv, TypeOK, RunsTyped
<1>1. run'[w] = x /\ \A v \in CleanupTicks : v # w => run'[v] = run[v]
  BY DEF RunsTyped
<1>2. \A v \in CleanupTicks : (Running(v)' <=> Running(v)) /\ run'[v].owner = run[v].owner
  BY <1>1 DEF Running
<1>3. RunsAreMarked' /\ RunsAreApart'
  BY <1>2 DEF IInv, RunsAreMarked, RunsAreApart
<1>4. MarkedAreRun'
  BY <1>2 DEF IInv, MarkedAreRun
<1> QED
  BY <1>1, <1>3, <1>4

LEMMA PurgeKeeps ==
  ASSUME IInv, NEW w \in CleanupTicks, Purge(w)
  PROVE  Kept'
<1> USE CleanupAssumption
<1> DEFINE r == run[w]
           left == IF owned[r.owner][r.hook] > BatchLimit
                   THEN owned[r.owner][r.hook] - BatchLimit ELSE 0
           x == Onward(r, left)
<1>1. /\ r.at = "hooks" /\ owned' = [owned EXCEPT ![r.owner][r.hook] = left]
      /\ run' = [run EXCEPT ![w] = x]
      /\ UNCHANGED <<jobs, late, failures, lost>>
  BY DEF Purge, told
<1>2. r \in Run /\ r.owner \in Owners /\ r.hook \in Types
  BY <1>1 DEF IInv, TypeOK, RunsAreMarked, Running, HooksInOrder
<1>3. owned[r.owner][r.hook] \in Nat
  BY <1>2 DEF IInv, TypeOK
<1>4. left \in Nat
  BY <1>3
<1> HIDE DEF left
<1>5. /\ x.owner = r.owner /\ x.attempts = r.attempts /\ x.hook = r.hook + 1
      /\ x.remaining = (r.remaining \/ left > 0)
      /\ x.at = IF r.hook = Hooks THEN "finish" ELSE "hooks"
  BY <1>2, <1>4, OnwardType
<1> HIDE DEF x
<1>6. /\ run'[w] = x /\ \A v \in CleanupTicks : v # w => run'[v] = run[v]
      /\ RunsAreMarked' /\ RunsAreApart' /\ MarkedAreRun'
  BY <1>1, <1>5, GoesOn DEF Running
<1>7. /\ \A o \in Owners, t \in Types : o # r.owner \/ t # r.hook => owned'[o][t] = owned[o][t]
      /\ owned'[r.owner][r.hook] = left
  BY <1>1, <1>2 DEF IInv, TypeOK
<1>8. HooksInOrder'
  <2>1. x.at = "hooks" => x.hook \in Types
    BY <1>2, <1>5 DEF Types
  <2>2. x.at = "finish" => x.hook = Hooks + 1
    BY <1>5
  <2> QED
    BY <1>6, <2>1, <2>2 DEF IInv, HooksInOrder
<1>9. SweptBehind'
  <2> SUFFICES ASSUME NEW v \in CleanupTicks, run'[v].at \in {"hooks", "finish"},
                      ~run'[v].remaining, ~late[run'[v].owner],
                      NEW t \in Types, t < run'[v].hook
               PROVE  owned'[run'[v].owner][t] = 0
    BY <1>1 DEF SweptBehind, Swept
  <2>1. CASE v = w
    <3>1. ~r.remaining /\ ~(left > 0) /\ ~late[r.owner] /\ t < r.hook + 1 /\ run'[v].owner = r.owner
      BY <1>5, <1>6, <2>1
    <3>2. t < r.hook => owned[r.owner][t] = 0
      BY <1>1, <3>1 DEF IInv, SweptBehind, Swept
    <3>3. t < r.hook \/ t = r.hook
      BY <1>2, <3>1 DEF Types
    <3>4. left = 0
      BY <1>4, <3>1
    <3> QED
      BY <1>2, <1>7, <3>1, <3>2, <3>3, <3>4
  <2>2. CASE v # w
    <3>1. run'[v] = run[v] /\ Running(v) /\ run[v].owner \in Owners
      BY <1>6, <2>2 DEF IInv, RunsAreMarked, Running
    <3>2. run[v].owner # r.owner
      BY <1>1, <2>2, <3>1 DEF IInv, RunsAreApart, Running
    <3>3. owned[run[v].owner][t] = 0
      BY <3>1 DEF IInv, SweptBehind, Swept
    <3> QED
      BY <1>7, <3>1, <3>2, <3>3
  <2> QED
    BY <2>1, <2>2
<1>10. AttemptsAreFailures'
  BY <1>1, <1>5, <1>6 DEF IInv, AttemptsAreFailures, Counted, Running
<1>11. DoneIsClean'
  <2>1. jobs[r.owner].status # "DONE"
    BY <1>1 DEF IInv, RunsAreMarked, Running
  <2> QED
    BY <1>1, <1>7, <2>1 DEF IInv, DoneIsClean
<1>12. GivenUpInTime'
  BY <1>1 DEF IInv, GivenUpInTime
<1> QED
  BY <1>6, <1>8, <1>9, <1>10, <1>11, <1>12 DEF Kept

LEMMA ThrowKeeps ==
  ASSUME IInv, NEW w \in CleanupTicks, Throw(w)
  PROVE  Kept'
<1> DEFINE r == run[w]
           x == [r EXCEPT !.at = "failed"]
<1> RunsTyped
  BY DEF IInv, TypeOK, RunsTyped
<1>1. /\ r.at \in {"hooks", "finish"} /\ failures' = [failures EXCEPT ![r.owner] = @ + 1]
      /\ run' = [run EXCEPT ![w] = x]
      /\ UNCHANGED <<jobs, owned, late, lost>>
  BY DEF Throw, RunsTyped
<1>2. r \in Run /\ r.owner \in Owners
  BY <1>1 DEF RunsTyped, IInv, RunsAreMarked, Running
<1>3. x.at = "failed" /\ x.owner = r.owner /\ x.attempts = r.attempts
  BY <1>2 DEF Run
<1> HIDE DEF x
<1>4. /\ run'[w] = x /\ \A v \in CleanupTicks : v # w => run'[v] = run[v]
      /\ RunsAreMarked' /\ RunsAreApart' /\ MarkedAreRun'
  BY <1>1, <1>3, GoesOn DEF Running
<1>5. /\ \A o \in Owners : failures[o] \in Nat /\ failures'[o] >= failures[o]
      /\ failures'[r.owner] = failures[r.owner] + 1
  BY <1>1, <1>2 DEF IInv, TypeOK
<1>6. HooksInOrder' /\ SweptBehind'
  BY <1>1, <1>3, <1>4 DEF IInv, HooksInOrder, SweptBehind, Swept
<1>7. AttemptsAreFailures'
  <2> SUFFICES ASSUME NEW v \in CleanupTicks
               PROVE  Counted(v)'
    BY DEF AttemptsAreFailures
  <2>1. run[v] \in Run /\ run[v].attempts \in Nat
    BY DEF RunsTyped, Run
  <2>2. Counted(v) /\ Counted(w)
    BY DEF IInv, AttemptsAreFailures
  <2>3. CASE v = w
    <3>1. r.attempts <= failures[r.owner]
      BY <1>1, <2>2 DEF Counted, Running
    <3>2. failures[r.owner] \in Nat /\ failures'[run'[v].owner] = failures[r.owner] + 1
      BY <1>2, <1>3, <1>4, <1>5, <2>3
    <3>3. run'[v].attempts = r.attempts /\ r.attempts \in Nat
      BY <1>3, <1>4, <2>1, <2>3
    <3> QED
      BY <3>1, <3>2, <3>3 DEF Counted
  <2>4. CASE v # w
    <3>1. Running(v) => run[v].owner \in Owners
      BY DEF IInv, RunsAreMarked
    <3>2. run'[v] = run[v] /\ (run[v].at = "failed" => Running(v)) /\ (Running(v)' => Running(v))
      BY <1>4, <2>4 DEF Running
    <3>3. Running(v) => failures[run[v].owner] \in Nat /\ failures'[run[v].owner] \in Nat
                        /\ failures'[run[v].owner] >= failures[run[v].owner]
      BY <1>1, <1>2, <1>5, <3>1 DEF IInv, TypeOK
    <3> QED
      BY <2>1, <2>2, <3>2, <3>3 DEF Counted
  <2> QED
    BY <2>3, <2>4
<1>8. DoneIsClean'
  BY <1>1 DEF IInv, DoneIsClean
<1>9. GivenUpInTime'
  <2> SUFFICES ASSUME NEW o \in Owners
               PROVE  /\ jobs[o].status = "FAILED" => failures'[o] >= AttemptLimit
                      /\ jobs[o].attempts <= failures'[o]
    BY <1>1 DEF GivenUpInTime
  <2>1. /\ jobs[o].status = "FAILED" => failures[o] >= AttemptLimit
        /\ jobs[o].attempts <= failures[o] /\ jobs[o].attempts \in Nat
    BY DEF IInv, GivenUpInTime, TypeOK
  <2>2. failures[o] \in Nat /\ failures'[o] \in Nat /\ failures'[o] >= failures[o]
    BY <1>1, <1>2, <1>5 DEF IInv, TypeOK
  <2> QED
    BY <2>1, <2>2, CleanupAssumption
<1> QED
  BY <1>4, <1>6, <1>7, <1>8, <1>9 DEF Kept

(* A tick that comes to its end leaves its job to nobody.                  *)
LEMMA EndsAlone ==
  ASSUME IInv, NEW w \in CleanupTicks, Running(w), run' = [run EXCEPT ![w] = NoRun],
         UNCHANGED <<owned, late, failures>>
  PROVE  /\ RunsAreApart' /\ HooksInOrder' /\ SweptBehind' /\ AttemptsAreFailures'
         /\ \A v \in CleanupTicks : Running(v)' <=> Running(v) /\ v # w
         /\ \A v \in CleanupTicks : Running(v)' => run'[v] = run[v] /\ run[v].owner # run[w].owner
<1> RunsTyped
  BY DEF IInv, TypeOK, RunsTyped
<1>1. run'[w].at = "idle" /\ \A v \in CleanupTicks : v # w => run'[v] = run[v]
  BY DEF RunsTyped, NoRun
<1>2. \A v \in CleanupTicks : Running(v)' <=> Running(v) /\ v # w
  BY <1>1 DEF Running
<1>3. \A v \in CleanupTicks : Running(v)' => run'[v] = run[v] /\ run[v].owner # run[w].owner
  BY <1>1, <1>2 DEF IInv, RunsAreApart
<1>4. RunsAreApart' /\ HooksInOrder'
  BY <1>1, <1>2 DEF IInv, RunsAreApart, HooksInOrder, Running
<1>5. SweptBehind'
  BY <1>1 DEF IInv, SweptBehind, Swept
<1>6. AttemptsAreFailures'
  BY <1>1, <1>2 DEF IInv, AttemptsAreFailures, Counted, Running
<1> QED
  BY <1>2, <1>3, <1>4, <1>5, <1>6

(* And what is said of the others still holds.                             *)
LEMMA JobEnds ==
  ASSUME IInv, NEW w \in CleanupTicks, Running(w), run' = [run EXCEPT ![w] = NoRun],
         UNCHANGED <<owned, late, failures, lost>>,
         \A o \in Owners : o # run[w].owner => jobs'[o] = jobs[o],
         jobs'[run[w].owner].status # "RUNNING"
  PROVE  RunsAreMarked' /\ MarkedAreRun'
<1>1. /\ \A v \in CleanupTicks : Running(v)' <=> Running(v) /\ v # w
      /\ \A v \in CleanupTicks : Running(v)' => run'[v] = run[v] /\ run[v].owner # run[w].owner
  BY EndsAlone
<1>2. RunsAreMarked'
  BY <1>1 DEF IInv, RunsAreMarked
<1>3. MarkedAreRun'
  <2> SUFFICES ASSUME NEW o \in Owners, jobs'[o].status = "RUNNING", ~lost[o]
               PROVE  \E v \in CleanupTicks : Running(v)' /\ run'[v].owner = o
    BY DEF MarkedAreRun
  <2>1. jobs[o].status = "RUNNING" /\ o # run[w].owner
    OBVIOUS
  <2>2. PICK v \in CleanupTicks : Running(v) /\ run[v].owner = o
    BY <2>1 DEF IInv, MarkedAreRun
  <2> QED
    BY <1>1, <2>1, <2>2
<1> QED
  BY <1>2, <1>3

LEMMA FinishKeeps ==
  ASSUME IInv, NEW w \in CleanupTicks, Finish(w)
  PROVE  Kept'
<1> DEFINE r == run[w]
           s == IF r.remaining THEN "PENDING" ELSE "DONE"
<1> JobsTyped
  BY DEF IInv, TypeOK, JobsTyped
<1>1. /\ r.at = "finish" /\ jobs' = [jobs EXCEPT ![r.owner].status = s]
      /\ run' = [run EXCEPT ![w] = NoRun]
      /\ UNCHANGED <<owned, late, failures, lost>>
  BY DEF Finish, told
<1>2. Running(w) /\ r.owner \in Owners
  BY <1>1 DEF IInv, RunsAreMarked, Running
<1>3. s \in {"PENDING", "DONE"} /\ (s = "DONE" => ~r.remaining)
  OBVIOUS
<1> HIDE DEF s
<1>4. /\ \A o \in Owners : o # r.owner => jobs'[o] = jobs[o]
      /\ jobs'[r.owner].status = s /\ jobs'[r.owner].attempts = jobs[r.owner].attempts
  BY <1>1, <1>2 DEF JobsTyped
<1>5. RunsAreMarked' /\ MarkedAreRun'
  BY <1>1, <1>2, <1>3, <1>4, JobEnds
<1>6. RunsAreApart' /\ HooksInOrder' /\ SweptBehind' /\ AttemptsAreFailures'
  BY <1>1, <1>2, EndsAlone
<1>7. DoneIsClean'
  <2> SUFFICES ASSUME NEW o \in Owners, jobs'[o].status = "DONE", ~late[o], NEW t \in Types
               PROVE  owned[o][t] = 0
    BY <1>1 DEF DoneIsClean
  <2>1. CASE o = r.owner
    <3>1. ~r.remaining /\ r.hook = Hooks + 1
      BY <1>1, <1>3, <1>4, <2>1 DEF IInv, HooksInOrder
    <3>2. t < r.hook
      BY <3>1, CleanupAssumption DEF Types
    <3> QED
      BY <1>1, <2>1, <3>1, <3>2 DEF IInv, SweptBehind, Swept
  <2>2. CASE o # r.owner
    BY <1>4, <2>2 DEF IInv, DoneIsClean
  <2> QED
    BY <2>1, <2>2
<1>8. GivenUpInTime'
  BY <1>1, <1>3, <1>4 DEF IInv, GivenUpInTime
<1> QED
  BY <1>5, <1>6, <1>7, <1>8 DEF Kept

LEMMA RetryKeeps ==
  ASSUME IInv, NEW w \in CleanupTicks, Retry(w)
  PROVE  Kept'
<1> DEFINE r == run[w]
           n == r.attempts + 1
           j == [status |-> IF n >= AttemptLimit THEN "FAILED" ELSE "PENDING", attempts |-> n]
<1> JobsTyped
  BY DEF IInv, TypeOK, JobsTyped
<1>1. /\ r.at = "failed" /\ jobs' = [jobs EXCEPT ![r.owner] = j]
      /\ run' = [run EXCEPT ![w] = NoRun]
      /\ UNCHANGED <<owned, late, failures, lost>>
  BY DEF Retry, told
<1>2. Running(w) /\ r.owner \in Owners
  BY <1>1 DEF IInv, RunsAreMarked, Running
<1>3. j.status \in {"FAILED", "PENDING"} /\ j.attempts = n /\ (j.status = "FAILED" => n >= AttemptLimit)
  OBVIOUS
<1>4. n <= failures[r.owner] /\ n \in Nat /\ failures[r.owner] \in Nat
  BY <1>1, <1>2 DEF IInv, AttemptsAreFailures, Counted, TypeOK, Run
<1> HIDE DEF j, n
<1>5. /\ \A o \in Owners : o # r.owner => jobs'[o] = jobs[o]
      /\ jobs'[r.owner] = j
  BY <1>1, <1>2 DEF JobsTyped
<1>6. RunsAreMarked' /\ MarkedAreRun'
  BY <1>1, <1>2, <1>3, <1>5, JobEnds
<1>7. RunsAreApart' /\ HooksInOrder' /\ SweptBehind' /\ AttemptsAreFailures'
  BY <1>1, <1>2, EndsAlone
<1>8. DoneIsClean'
  BY <1>1, <1>3, <1>5 DEF IInv, DoneIsClean
<1>9. GivenUpInTime'
  <2> SUFFICES ASSUME NEW o \in Owners
               PROVE  /\ jobs'[o].status = "FAILED" => failures[o] >= AttemptLimit
                      /\ jobs'[o].attempts <= failures[o]
    BY <1>1 DEF GivenUpInTime
  <2>1. CASE o = r.owner
    BY <1>3, <1>4, <1>5, <2>1, CleanupAssumption
  <2>2. CASE o # r.owner
    BY <1>5, <2>2 DEF IInv, GivenUpInTime
  <2> QED
    BY <2>1, <2>2
<1> QED
  BY <1>6, <1>7, <1>8, <1>9 DEF Kept

LEMMA VanishKeeps ==
  ASSUME IInv, NEW w \in CleanupTicks, Vanish(w)
  PROVE  Kept'
<1>1. /\ Running(w) /\ lost' = [lost EXCEPT ![run[w].owner] = TRUE]
      /\ run' = [run EXCEPT ![w] = NoRun]
      /\ UNCHANGED <<jobs, owned, late, failures>>
  BY DEF Vanish, Running
<1>2. /\ \A v \in CleanupTicks : Running(v)' <=> Running(v) /\ v # w
      /\ \A v \in CleanupTicks : Running(v)' => run'[v] = run[v] /\ run[v].owner # run[w].owner
      /\ RunsAreApart' /\ HooksInOrder' /\ SweptBehind' /\ AttemptsAreFailures'
  BY <1>1, EndsAlone
<1>3. RunsAreMarked'
  BY <1>1, <1>2 DEF IInv, RunsAreMarked
<1>4. MarkedAreRun'
  <2> SUFFICES ASSUME NEW o \in Owners, jobs[o].status = "RUNNING", ~lost'[o]
               PROVE  \E v \in CleanupTicks : Running(v)' /\ run'[v].owner = o
    BY <1>1 DEF MarkedAreRun
  <2>1. o # run[w].owner /\ ~lost[o]
    BY <1>1 DEF IInv, TypeOK
  <2>2. PICK v \in CleanupTicks : Running(v) /\ run[v].owner = o
    BY <2>1 DEF IInv, MarkedAreRun
  <2> QED
    BY <1>2, <2>1, <2>2
<1>5. DoneIsClean' /\ GivenUpInTime'
  BY <1>1 DEF IInv, DoneIsClean, GivenUpInTime
<1> QED
  BY <1>2, <1>3, <1>4, <1>5 DEF Kept

-----------------------------------------------------------------------------
LEMMA InitHolds ==
  ASSUME Init
  PROVE  IInv
<1> USE CleanupAssumption
<1>1. /\ \A w \in CleanupTicks : run[w] = NoRun /\ run[w].at = "idle"
      /\ \A o \in Owners : jobs[o].status = "none" /\ jobs[o].attempts = 0 /\ failures[o] = 0
  BY DEF Init, NoRun
<1>2. TypeOK
  <2>1. run \in [CleanupTicks -> Run]
    BY NoRunType DEF Init
  <2>2. owned \in [Owners -> [Types -> 0..MaxOwned]]
    BY DEF Init
  <2> QED
    BY <2>1, <2>2 DEF Init, TypeOK
<1>3. RunsAreMarked /\ RunsAreApart /\ HooksInOrder /\ SweptBehind /\ AttemptsAreFailures
  BY <1>1 DEF RunsAreMarked, RunsAreApart, HooksInOrder, SweptBehind, Swept, AttemptsAreFailures,
     Counted, Running
<1>4. MarkedAreRun /\ DoneIsClean /\ GivenUpInTime
  BY <1>1 DEF MarkedAreRun, DoneIsClean, GivenUpInTime
<1> QED
  BY <1>2, <1>3, <1>4 DEF IInv

LEMMA StepKeeps ==
  ASSUME IInv, [Next]_cleanupVars
  PROVE  IInv'
<1>1. CASE Next
  <2>1. TypeOK'
    BY <1>1, TypeKept DEF IInv
  <2>2. Kept'
    BY <1>1, EnqueueKeeps, AcquireKeeps, ClaimKeeps, PurgeKeeps, ThrowKeeps, FinishKeeps,
       RetryKeeps, VanishKeeps DEF Next, Tick
  <2> QED
    BY <2>1, <2>2 DEF IInv, Kept
<1>2. CASE UNCHANGED cleanupVars
  BY <1>2 DEF cleanupVars, told, IInv, TypeOK, RunsAreMarked, RunsAreApart, HooksInOrder, SweptBehind,
     Swept, AttemptsAreFailures, Counted, MarkedAreRun, DoneIsClean, GivenUpInTime, Running
<1> QED
  BY <1>1, <1>2

(* What the runs check says it with sets.                                  *)
LEMMA InvariantHolds ==
  ASSUME IInv
  PROVE  CleanupHolds
<1>1. OneRunPerJob
  <2> SUFFICES ASSUME NEW o \in Owners
               PROVE  Cardinality(Runs(o)) <= 1
    BY DEF OneRunPerJob
  <2>1. CASE Runs(o) = {}
    BY <2>1, FS_EmptySet
  <2>2. CASE Runs(o) # {}
    <3>1. PICK w \in Runs(o) : TRUE
      BY <2>2
    <3>2. Runs(o) = {w}
      BY <3>1 DEF IInv, RunsAreApart, Running, Runs
    <3> QED
      BY <3>2, FS_Singleton
  <2> QED
    BY <2>1, <2>2
<1>2. RunningIsRun
  BY DEF IInv, MarkedAreRun, RunningIsRun, Runs, Running
<1> QED
  BY <1>1, <1>2 DEF IInv, CleanupHolds

\* The strengthening of the property below is an invariant.
THEOREM Invariant == Spec => []IInv
<1>1. Init => IInv
  BY InitHolds
<1>2. IInv /\ [Next]_cleanupVars => IInv'
  BY StepKeeps
<1> QED
  BY <1>1, <1>2, PTL DEF Spec

\* However many instances take jobs of the queue and however they fail: one runs a job
\* at a time, one that is done has left nothing, none is given up before its attempts
\* have failed, and none stays RUNNING unless its tick has vanished.
THEOREM QueueKeepsItsWord == Spec => []CleanupHolds
<1>1. IInv => CleanupHolds
  BY InvariantHolds
<1> QED
  BY <1>1, Invariant, PTL

-----------------------------------------------------------------------------
(* Uploads.                                                                *)

UploadMove == U!Next \/ UNCHANGED uploadOnly

Busy(c) == call[c].at # "idle"
Open(u) == session[u] \in {"none", "PENDING"}

\* A session that is done is never open again, and makes no second file.
FilesAreOfDone ==
  /\ \A c \in Completers : call[c].at \in {"fetch", "store", "row"} => ~Open(call[c].upload)
  /\ oneByOne =>
       /\ \A u \in UploadIds : fileRows[u] <= 1 /\ (fileRows[u] > 0 => ~Open(u))
       /\ \A c \in Completers : Busy(c) => fileRows[call[c].upload] = 0
       /\ \A c, d \in Completers : Busy(c) /\ Busy(d) /\ call[c].upload = call[d].upload => c = d

\* What a completion writes next is clean, where it has to be.
RowsToComeAreClean ==
  \A c \in Completers :
    call[c].at = "row" /\ call[c].via = "board" /\ call[c].upload \in Images
      /\ ~again[call[c].upload] =>
      object[call[c].upload] \in {"clean", "none"}

\* Unless they crossed, no upload is being collected that has a file or is about to get one,
\* and a completion that has seen its object has it still.
NotBoth ==
  oneByOne =>
    /\ \A k \in Collectors : \A u \in sweep[k].list :
         ~crossed[u] => fileRows[u] = 0 /\ \A c \in Completers : Busy(c) => call[c].upload # u
    /\ \A c \in Completers :
         call[c].at \in {"mark", "fetch", "store", "row"} /\ ~crossed[call[c].upload] =>
           object[call[c].upload] # "none"

UploadsTyped ==
  /\ oneByOne \in BOOLEAN
  /\ session \in [UploadIds -> U!States]
  /\ clock \in [UploadIds -> {"open", "late", "shut"}]
  /\ object \in [UploadIds -> {"none", "raw", "big", "clean"}]
  /\ fileRows \in [UploadIds -> Nat] /\ boardFile \in [UploadIds -> BOOLEAN]
  /\ \A u \in UploadIds : boardFile[u] => fileRows[u] > 0
  /\ again \in [UploadIds -> BOOLEAN] /\ crossed \in [UploadIds -> BOOLEAN]

CallsTyped == call \in [Completers -> [at : U!Steps, upload : UploadIds, via : U!Endpoints]]
SweepsTyped ==
  /\ sweep \in [Collectors -> [at : {"off", "delete", "expire"}, list : SUBSET UploadIds]]
  /\ upsets \in 0..MaxUpsets

UploadIInv ==
  /\ UploadsTyped /\ CallsTyped /\ SweepsTyped
  /\ FilesAreOfDone /\ RowsToComeAreClean /\ NotBoth
  /\ U!ImagesAreClean /\ U!FilesHaveObjects

LEMMA NoCallType ==
  /\ U!NoCall \in [at : U!Steps, upload : UploadIds, via : U!Endpoints] /\ U!NoCall.at = "idle"
  /\ U!NoSweep \in [at : {"off", "delete", "expire"}, list : SUBSET UploadIds] /\ U!NoSweep.list = {}
BY OperationsAssumption DEF U!NoCall, U!NoSweep, U!Steps, U!Endpoints

\* The fields of one call.
LEMMA CallFields ==
  ASSUME CallsTyped, NEW c \in Completers
  PROVE  call[c].at \in U!Steps /\ call[c].upload \in UploadIds /\ call[c].via \in U!Endpoints
BY DEF CallsTyped

LEMMA Goes ==
  ASSUME CallsTyped, NEW c \in Completers, NEW step \in U!Steps, U!Go(c, step)
  PROVE  /\ CallsTyped'
         /\ call'[c].at = step /\ call'[c].upload = call[c].upload /\ call'[c].via = call[c].via
         /\ \A d \in Completers : d # c => call'[d] = call[d]
BY DEF CallsTyped, U!Go

LEMMA Ends ==
  ASSUME CallsTyped, NEW c \in Completers, U!End(c)
  PROVE  /\ CallsTyped'
         /\ call'[c].at = "idle"
         /\ \A d \in Completers : d # c => call'[d] = call[d]
BY NoCallType DEF CallsTyped, U!End

\* What every completion that goes on keeps: a call is freed, or goes on with its upload.
Proceeds(c) ==
  /\ CallsTyped'
  /\ call'[c].at = "idle" \/ (Busy(c) /\ call'[c].upload = call[c].upload /\ call'[c].via = call[c].via)
  /\ \A d \in Completers : d # c => call'[d] = call[d]

LEMMA BusyAreFewer ==
  ASSUME UploadIInv, NEW c \in Completers, Proceeds(c), oneByOne' = oneByOne
  PROVE  /\ \A d \in Completers : Busy(d)' => Busy(d) /\ call'[d].upload = call[d].upload
         /\ oneByOne => \A d, e \in Completers :
              Busy(d)' /\ Busy(e)' /\ call'[d].upload = call'[e].upload => d = e
<1>1. \A d \in Completers : Busy(d)' => Busy(d) /\ call'[d].upload = call[d].upload
  BY DEF Proceeds, Busy
<1> QED
  BY <1>1 DEF UploadIInv, FilesAreOfDone

-----------------------------------------------------------------------------
LEMMA IssueKeeps ==
  ASSUME UploadIInv, NEW u \in UploadIds, U!Issue(u) PROVE UploadIInv'
<1>1. UploadsTyped' /\ CallsTyped' /\ SweepsTyped'
  BY DEF U!Issue, U!fileTable, UploadIInv, UploadsTyped, CallsTyped, SweepsTyped, U!States, U!history
<1>2. \A v \in UploadIds : Open(v)' <=> Open(v)
  BY DEF U!Issue, U!fileTable, UploadIInv, UploadsTyped, Open
<1>3. FilesAreOfDone'
  BY <1>2, CallFields DEF U!Issue, U!fileTable, U!history, UploadIInv, FilesAreOfDone, Busy
<1>4. RowsToComeAreClean' /\ NotBoth' /\ U!ImagesAreClean' /\ U!FilesHaveObjects'
  BY DEF U!Issue, U!fileTable, U!history, UploadIInv, RowsToComeAreClean, NotBoth, Busy, U!ImagesAreClean, U!FilesHaveObjects
<1> QED
  BY <1>1, <1>3, <1>4 DEF UploadIInv

LEMMA TickKeeps ==
  ASSUME UploadIInv, NEW u \in UploadIds, U!Tick(u) PROVE UploadIInv'
<1>1. UploadsTyped' /\ CallsTyped' /\ SweepsTyped'
  BY DEF U!Tick, UploadIInv, UploadsTyped, CallsTyped, SweepsTyped, U!uploadRows, U!fileTable, U!history
<1>2. FilesAreOfDone' /\ RowsToComeAreClean' /\ NotBoth' /\ U!ImagesAreClean' /\ U!FilesHaveObjects'
  BY DEF U!Tick, U!uploadRows, U!fileTable, U!history, UploadIInv, FilesAreOfDone, Open, RowsToComeAreClean, NotBoth, Busy,
     U!ImagesAreClean, U!FilesHaveObjects
<1> QED
  BY <1>1, <1>2 DEF UploadIInv

\* The client's PUT counts as once more where a file or a completion could be hurt by it.
LEMMA PutKeeps ==
  ASSUME UploadIInv, NEW u \in UploadIds, NEW content \in {"raw", "big"}, U!Put(u, content)
  PROVE  UploadIInv'
<1>1. /\ object' = [object EXCEPT ![u] = content]
      /\ again' = [again EXCEPT ![u] = @ \/ session[u] = "COMPLETED" \/ fileRows[u] > 0 \/ U!Completing(u)]
      /\ UNCHANGED <<oneByOne, session, clock, fileRows, boardFile, crossed, call, sweep, upsets>>
  BY DEF U!Put, U!fileTable
<1>2. UploadsTyped' /\ CallsTyped' /\ SweepsTyped'
  BY <1>1 DEF UploadIInv, UploadsTyped, CallsTyped, SweepsTyped
<1>3. FilesAreOfDone'
  BY <1>1 DEF UploadIInv, FilesAreOfDone, Open, Busy
<1>4. \A v \in UploadIds : ~again'[v] =>
        ~again[v] /\ (v = u => fileRows[v] = 0 /\ ~U!Completing(v)) /\ (v # u => object'[v] = object[v])
  <2> SUFFICES ASSUME NEW v \in UploadIds, ~again'[v]
               PROVE  ~again[v] /\ (v = u => fileRows[v] = 0 /\ ~U!Completing(v)) /\ (v # u => object'[v] = object[v])
    OBVIOUS
  <2>1. CASE v # u
    BY <1>1, <2>1 DEF UploadIInv, UploadsTyped
  <2>2. CASE v = u
    <3> DEFINE before == again[u] \/ session[u] = "COMPLETED" \/ fileRows[u] > 0 \/ U!Completing(u)
    <3>1. again'[u] = before
      BY <1>1 DEF UploadIInv, UploadsTyped
    <3>2. ~before
      BY <2>2, <3>1
    <3>3. fileRows[u] \in Nat
      BY DEF UploadIInv, UploadsTyped
    <3> QED
      BY <2>2, <3>2, <3>3
  <2> QED
    BY <2>1, <2>2
<1>5. RowsToComeAreClean'
  <2> SUFFICES ASSUME NEW c \in Completers, call[c].at = "row", call[c].via = "board",
                      call[c].upload \in Images, ~again'[call[c].upload]
               PROVE  object'[call[c].upload] \in {"clean", "none"}
    BY <1>1 DEF RowsToComeAreClean
  <2>1. call[c].upload \in UploadIds /\ call[c].upload # u
    BY <1>4, CallFields DEF UploadIInv, U!Completing
  <2> QED
    BY <2>1, <1>4 DEF UploadIInv, RowsToComeAreClean
<1>6. U!ImagesAreClean'
  <2> SUFFICES ASSUME NEW v \in Images, boardFile[v], ~again'[v] PROVE object'[v] \in {"clean", "none"}
    BY <1>1 DEF U!ImagesAreClean
  <2>1. v \in UploadIds /\ v # u /\ ~again[v] /\ object'[v] = object[v]
    BY <1>4, OperationsAssumption DEF UploadIInv, UploadsTyped
  <2> QED
    BY <2>1 DEF UploadIInv, U!ImagesAreClean
<1>7. \A v \in UploadIds : object[v] # "none" => object'[v] # "none"
  BY <1>1 DEF UploadIInv, UploadsTyped
<1>8. NotBoth'
  BY <1>1, <1>7, CallFields DEF UploadIInv, NotBoth, Busy
<1>9. U!FilesHaveObjects'
  BY <1>1, <1>7 DEF UploadIInv, U!FilesHaveObjects
<1> QED
  BY <1>2, <1>3, <1>5, <1>6, <1>8, <1>9 DEF UploadIInv

-----------------------------------------------------------------------------
(* Completions.                                                            *)

LEMMA CompleteKeeps ==
  ASSUME UploadIInv, NEW c \in Completers, NEW u \in UploadIds, NEW via \in U!Endpoints,
         U!Complete(c, u, via)
  PROVE  UploadIInv'
<1> DEFINE q == [at |-> IF clock[u] = "open" THEN "head" ELSE "expire", upload |-> u, via |-> via]
<1>1. /\ call[c].at = "idle" /\ session[u] = "PENDING"
      /\ oneByOne => \A d \in Completers : Busy(d) => call[d].upload # u
      /\ call' = [call EXCEPT ![c] = q]
      /\ crossed' = [crossed EXCEPT ![u] = @ \/ U!Collecting(u)]
      /\ UNCHANGED <<oneByOne, session, object, fileRows, boardFile, clock, again, sweep, upsets>>
  BY DEF U!Complete, U!uploadRows, U!fileTable, Busy
<1>2. q.at \in {"head", "expire"} /\ q.upload = u /\ q \in [at : U!Steps, upload : UploadIds, via : U!Endpoints]
  BY DEF U!Steps
<1> HIDE DEF q
<1>3. CallsTyped' /\ SweepsTyped'
  BY <1>1, <1>2 DEF UploadIInv, CallsTyped, SweepsTyped
<1>4. call'[c] = q /\ \A d \in Completers : d # c => call'[d] = call[d]
  BY <1>1 DEF UploadIInv, CallsTyped
<1>5. \A v \in UploadIds : ~crossed'[v] => ~crossed[v] /\ (v = u => ~U!Collecting(u))
  <2> SUFFICES ASSUME NEW v \in UploadIds, ~crossed'[v] PROVE ~crossed[v] /\ (v = u => ~U!Collecting(u))
    OBVIOUS
  <2>1. CASE v # u
    BY <1>1, <2>1 DEF UploadIInv, UploadsTyped
  <2>2. CASE v = u
    <3> DEFINE before == crossed[u] \/ U!Collecting(u)
    <3>1. crossed'[u] = before
      BY <1>1 DEF UploadIInv, UploadsTyped
    <3>2. ~before
      BY <2>2, <3>1
    <3> QED
      BY <2>2, <3>2
  <2> QED
    BY <2>1, <2>2
<1>6. UploadsTyped'
  <2>1. crossed' \in [UploadIds -> BOOLEAN]
    <3> DEFINE before == crossed[u] \/ U!Collecting(u)
    <3>1. before \in BOOLEAN /\ crossed' = [crossed EXCEPT ![u] = before]
      BY <1>1 DEF UploadIInv, UploadsTyped
    <3> HIDE DEF before
    <3> QED
      BY <3>1 DEF UploadIInv, UploadsTyped
  <2> QED
    BY <1>1, <2>1 DEF UploadIInv, UploadsTyped
<1>7. oneByOne => fileRows[u] = 0
  BY <1>1 DEF UploadIInv, UploadsTyped, FilesAreOfDone, Open
<1>8. FilesAreOfDone'
  <2>1. \A d \in Completers : call'[d].at \in {"fetch", "store", "row"} => ~(session'[call'[d].upload] \in {"none", "PENDING"})
    BY <1>1, <1>2, <1>4 DEF UploadIInv, FilesAreOfDone, Open
  <2>2. ASSUME oneByOne
        PROVE  /\ \A v \in UploadIds : fileRows'[v] <= 1 /\ (fileRows'[v] > 0 => ~(session'[v] \in {"none", "PENDING"}))
               /\ \A d \in Completers : call'[d].at # "idle" => fileRows'[call'[d].upload] = 0
               /\ \A d, e \in Completers :
                    call'[d].at # "idle" /\ call'[e].at # "idle" /\ call'[d].upload = call'[e].upload => d = e
    <3>1. \A v \in UploadIds : fileRows'[v] <= 1 /\ (fileRows'[v] > 0 => ~(session'[v] \in {"none", "PENDING"}))
      BY <1>1, <2>2 DEF UploadIInv, FilesAreOfDone, Open
    <3>2. \A d \in Completers : call'[d].at # "idle" => fileRows'[call'[d].upload] = 0
      BY <1>1, <1>2, <1>4, <1>7, <2>2 DEF UploadIInv, FilesAreOfDone, Busy
    <3>3. \A d, e \in Completers :
            call'[d].at # "idle" /\ call'[e].at # "idle" /\ call'[d].upload = call'[e].upload => d = e
      BY <1>1, <1>2, <1>4, <2>2 DEF UploadIInv, FilesAreOfDone, Busy
    <3> QED
      BY <3>1, <3>2, <3>3
  <2> QED
    BY <1>1, <2>1, <2>2 DEF FilesAreOfDone, Open, Busy
<1>9. RowsToComeAreClean'
  BY <1>1, <1>2, <1>4 DEF UploadIInv, RowsToComeAreClean
<1>10. NotBoth'
  <2> SUFFICES ASSUME oneByOne PROVE NotBoth'
    BY <1>1 DEF NotBoth
  <2>1. ASSUME NEW k \in Collectors, NEW v \in sweep[k].list, ~crossed'[v]
        PROVE  fileRows[v] = 0 /\ \A d \in Completers : call'[d].at # "idle" => call'[d].upload # v
    <3>1. v \in UploadIds
      BY <2>1 DEF UploadIInv, SweepsTyped
    <3>2. v # u /\ ~crossed[v]
      BY <1>5, <2>1, <3>1 DEF U!Collecting
    <3> QED
      BY <1>2, <1>4, <2>1, <3>2 DEF UploadIInv, NotBoth, Busy
  <2>2. ASSUME NEW d \in Completers, call'[d].at \in {"mark", "fetch", "store", "row"}, ~crossed'[call'[d].upload]
        PROVE  object[call'[d].upload] # "none"
    BY <1>2, <1>4, <1>5, <2>2, CallFields DEF UploadIInv, NotBoth
  <2> QED
    BY <1>1, <2>1, <2>2 DEF NotBoth, Busy
<1>11. U!ImagesAreClean'
  BY <1>1 DEF UploadIInv, U!ImagesAreClean
<1>12. U!FilesHaveObjects'
  BY <1>1, <1>5 DEF UploadIInv, U!FilesHaveObjects
<1> QED
  BY <1>3, <1>6, <1>8, <1>9, <1>10, <1>11, <1>12 DEF UploadIInv

\* A call that goes on or ends without touching session, object or files; the object is
\* there where it goes on to use it.
LEMMA QuietKeeps ==
  ASSUME UploadIInv, NEW c \in Completers, Proceeds(c),
         UNCHANGED <<oneByOne, session, object, fileRows, boardFile, clock, again, crossed, sweep>>,
         upsets' \in 0..MaxUpsets,
         call'[c].at # "row",
         call'[c].at \in {"fetch", "store"} => call[c].at \in {"fetch", "store"},
         call'[c].at = "mark" => object[call[c].upload] # "none"
  PROVE  UploadIInv'
<1>1. UploadsTyped' /\ CallsTyped' /\ SweepsTyped'
  BY DEF Proceeds, UploadIInv, UploadsTyped, SweepsTyped
<1>2. FilesAreOfDone'
  BY BusyAreFewer DEF Proceeds, UploadIInv, FilesAreOfDone, Open, Busy
<1>3. RowsToComeAreClean'
  BY DEF Proceeds, UploadIInv, RowsToComeAreClean
<1>4. NotBoth'
  BY BusyAreFewer DEF Proceeds, UploadIInv, NotBoth, Busy
<1>5. U!ImagesAreClean' /\ U!FilesHaveObjects'
  BY DEF UploadIInv, U!ImagesAreClean, U!FilesHaveObjects
<1> QED
  BY <1>1, <1>2, <1>3, <1>4, <1>5 DEF UploadIInv

\* The session is done, one way or another.
LEMMA StateKeeps ==
  ASSUME UploadIInv, NEW c \in Completers, Proceeds(c), Busy(c), NEW state \in {"COMPLETED", "EXPIRED", "ABORTED"},
         session' = [session EXCEPT ![call[c].upload] = state],
         UNCHANGED <<oneByOne, object, fileRows, boardFile, clock, again, crossed, sweep, upsets>>,
         call'[c].at # "store",
         call'[c].at # "mark",
         call'[c].at \in {"fetch", "row"} => call[c].at = "mark",
         call'[c].at = "row" => call[c].via # "board" \/ call[c].upload \notin Images
  PROVE  UploadIInv'
<1>1. UploadsTyped' /\ CallsTyped' /\ SweepsTyped'
  BY CallFields DEF Proceeds, UploadIInv, UploadsTyped, SweepsTyped, U!States
<1>2. \A v \in UploadIds : v = call[c].upload \/ ~Open(v) => ~Open(v)'
  BY CallFields DEF UploadIInv, UploadsTyped, Open
<1>3. FilesAreOfDone'
  <2>1. \A d \in Completers : call'[d].at \in {"fetch", "store", "row"} => ~(session'[call'[d].upload] \in {"none", "PENDING"})
    BY <1>2, CallFields DEF Proceeds, UploadIInv, FilesAreOfDone, Open
  <2>2. ASSUME oneByOne
        PROVE  /\ \A v \in UploadIds : fileRows'[v] <= 1 /\ (fileRows'[v] > 0 => ~(session'[v] \in {"none", "PENDING"}))
               /\ \A d \in Completers : call'[d].at # "idle" => fileRows'[call'[d].upload] = 0
    BY <1>2, <2>2, BusyAreFewer DEF UploadIInv, FilesAreOfDone, Open, Busy
  <2> QED
    BY <2>1, <2>2, BusyAreFewer DEF FilesAreOfDone, Open, Busy
<1>4. RowsToComeAreClean'
  BY DEF Proceeds, UploadIInv, RowsToComeAreClean
<1>5. NotBoth'
  BY BusyAreFewer DEF Proceeds, UploadIInv, NotBoth, Busy
<1>6. U!ImagesAreClean' /\ U!FilesHaveObjects'
  BY DEF UploadIInv, U!ImagesAreClean, U!FilesHaveObjects
<1> QED
  BY <1>1, <1>3, <1>4, <1>5, <1>6 DEF UploadIInv

\* The object that is too large is not in use, where completions do not overlap.
LEMMA DiscardKeeps ==
  ASSUME UploadIInv, NEW c \in Completers, U!Discard(c) PROVE UploadIInv'
<1>1. /\ call[c].at = "discard" /\ object' = [object EXCEPT ![call[c].upload] = "none"]
      /\ UNCHANGED <<oneByOne, session, clock, fileRows, boardFile, again, crossed, sweep, upsets>>
      /\ U!Go(c, "abort")
  BY DEF U!Discard, U!fileTable, U!history
<1>2. Proceeds(c) /\ call'[c].at = "abort"
  BY <1>1, Goes DEF UploadIInv, Proceeds, Busy, U!Steps
<1>3. call[c].upload \in UploadIds
  BY CallFields DEF UploadIInv
<1>4. \A v \in UploadIds : object'[v] = IF v = call[c].upload THEN "none" ELSE object[v]
  BY <1>1, <1>3 DEF UploadIInv, UploadsTyped
<1>5. UploadsTyped' /\ CallsTyped' /\ SweepsTyped'
  BY <1>1, <1>2, <1>3 DEF Proceeds, UploadIInv, UploadsTyped, SweepsTyped
<1>6. FilesAreOfDone'
  BY <1>1, <1>2, BusyAreFewer DEF Proceeds, UploadIInv, FilesAreOfDone, Open, Busy
<1>7. RowsToComeAreClean'
  BY <1>1, <1>2, <1>4, CallFields DEF Proceeds, UploadIInv, RowsToComeAreClean
<1>8. NotBoth'
  <2>1. oneByOne => \A d \in Completers : d # c /\ Busy(d) => call[d].upload # call[c].upload
    BY <1>1 DEF UploadIInv, FilesAreOfDone, Busy
  <2>2. ASSUME oneByOne, NEW d \in Completers, call'[d].at \in {"mark", "fetch", "store", "row"},
               ~crossed[call'[d].upload]
        PROVE  object'[call'[d].upload] # "none"
    BY <1>2, <1>4, <2>1, <2>2, CallFields DEF Proceeds, UploadIInv, NotBoth, Busy
  <2>3. ASSUME oneByOne, NEW k \in Collectors, NEW v \in sweep[k].list, ~crossed[v]
        PROVE  fileRows[v] = 0 /\ \A d \in Completers : call'[d].at # "idle" => call'[d].upload # v
    BY <1>1, <1>2, <2>3, BusyAreFewer DEF UploadIInv, NotBoth, Busy
  <2> QED
    BY <1>1, <2>2, <2>3 DEF NotBoth, Busy
<1>9. U!ImagesAreClean'
  BY <1>1, <1>4, OperationsAssumption DEF UploadIInv, U!ImagesAreClean
<1>10. U!FilesHaveObjects'
  <2>1. oneByOne => fileRows[call[c].upload] = 0
    BY <1>1 DEF UploadIInv, FilesAreOfDone, Busy
  <2> QED
    BY <1>1, <1>4, <2>1 DEF UploadIInv, U!FilesHaveObjects
<1> QED
  BY <1>5, <1>6, <1>7, <1>8, <1>9, <1>10 DEF UploadIInv

LEMMA StoreKeeps ==
  ASSUME UploadIInv, NEW c \in Completers, U!Store(c) PROVE UploadIInv'
<1>1. /\ call[c].at = "store" /\ object' = [object EXCEPT ![call[c].upload] = "clean"]
      /\ UNCHANGED <<oneByOne, session, clock, fileRows, boardFile, again, crossed, sweep, upsets>>
      /\ U!Go(c, "row")
  BY DEF U!Store, U!fileTable, U!history
<1>2. Proceeds(c) /\ call'[c].at = "row"
  BY <1>1, Goes DEF UploadIInv, Proceeds, Busy, U!Steps
<1>3. call[c].upload \in UploadIds
  BY CallFields DEF UploadIInv
<1>4. \A v \in UploadIds : object'[v] = IF v = call[c].upload THEN "clean" ELSE object[v]
  BY <1>1, <1>3 DEF UploadIInv, UploadsTyped
<1>5. UploadsTyped' /\ CallsTyped' /\ SweepsTyped'
  BY <1>1, <1>2, <1>3 DEF Proceeds, UploadIInv, UploadsTyped, SweepsTyped
<1>6. FilesAreOfDone'
  BY <1>1, <1>2, BusyAreFewer DEF Proceeds, UploadIInv, FilesAreOfDone, Open, Busy
<1>7. RowsToComeAreClean'
  BY <1>1, <1>2, <1>4, CallFields DEF Proceeds, UploadIInv, RowsToComeAreClean
<1>8. NotBoth'
  <2>1. ASSUME oneByOne, NEW d \in Completers, call'[d].at \in {"mark", "fetch", "store", "row"},
               ~crossed[call'[d].upload]
        PROVE  object'[call'[d].upload] # "none"
    BY <1>1, <1>2, <1>4, <2>1, CallFields DEF Proceeds, UploadIInv, NotBoth
  <2>2. ASSUME oneByOne, NEW k \in Collectors, NEW v \in sweep[k].list, ~crossed[v]
        PROVE  fileRows[v] = 0 /\ \A d \in Completers : call'[d].at # "idle" => call'[d].upload # v
    BY <1>1, <1>2, <2>2, BusyAreFewer DEF UploadIInv, NotBoth, Busy
  <2> QED
    BY <1>1, <2>1, <2>2 DEF NotBoth, Busy
<1>9. U!ImagesAreClean'
  BY <1>1, <1>4, OperationsAssumption DEF UploadIInv, U!ImagesAreClean
<1>10. U!FilesHaveObjects'
  BY <1>1, <1>4 DEF UploadIInv, U!FilesHaveObjects
<1> QED
  BY <1>5, <1>6, <1>7, <1>8, <1>9, <1>10 DEF UploadIInv

LEMMA InsertFileKeeps ==
  ASSUME UploadIInv, NEW c \in Completers, U!InsertFile(c) PROVE UploadIInv'
<1> DEFINE u == call[c].upload
<1>1. /\ call[c].at = "row" /\ fileRows' = [fileRows EXCEPT ![u] = @ + 1]
      /\ boardFile' = [boardFile EXCEPT ![u] = @ \/ call[c].via = "board"]
      /\ UNCHANGED <<oneByOne, session, clock, object, again, crossed, sweep, upsets>>
      /\ U!End(c)
  BY DEF U!InsertFile, U!history
<1>2. Proceeds(c) /\ call'[c].at = "idle"
  BY <1>1, Ends DEF UploadIInv, Proceeds
<1>3. u \in UploadIds
  BY CallFields DEF UploadIInv
<1>4. \A v \in UploadIds : fileRows'[v] = IF v = u THEN fileRows[v] + 1 ELSE fileRows[v]
  BY <1>1, <1>3 DEF UploadIInv, UploadsTyped
<1> DEFINE through == boardFile[u] \/ call[c].via = "board"
<1>b. /\ boardFile' \in [UploadIds -> BOOLEAN]
      /\ \A v \in UploadIds : boardFile'[v] = IF v = u THEN through ELSE boardFile[v]
  <2>1. through \in BOOLEAN /\ boardFile' = [boardFile EXCEPT ![u] = through]
    BY <1>1, <1>3 DEF UploadIInv, UploadsTyped
  <2> HIDE DEF through
  <2> QED
    BY <1>3, <2>1 DEF UploadIInv, UploadsTyped
<1>5. UploadsTyped' /\ CallsTyped' /\ SweepsTyped'
  <2>1. \A v \in UploadIds : boardFile'[v] => fileRows'[v] > 0
    BY <1>3, <1>4, <1>b DEF UploadIInv, UploadsTyped
  <2> QED
    BY <1>1, <1>2, <1>3, <1>b, <2>1 DEF Proceeds, UploadIInv, UploadsTyped, SweepsTyped
<1>6. oneByOne => /\ fileRows[u] = 0
                  /\ \A d \in Completers : Busy(d)' => call'[d].upload # u
  BY <1>1, <1>2 DEF Proceeds, UploadIInv, FilesAreOfDone, Busy
<1>7. FilesAreOfDone'
  <2>1. \A d \in Completers : call'[d].at \in {"fetch", "store", "row"} => ~(session'[call'[d].upload] \in {"none", "PENDING"})
    BY <1>1, <1>2 DEF Proceeds, UploadIInv, FilesAreOfDone, Open
  <2>2. ASSUME oneByOne
        PROVE  /\ \A v \in UploadIds : fileRows'[v] <= 1 /\ (fileRows'[v] > 0 => ~(session'[v] \in {"none", "PENDING"}))
               /\ \A d \in Completers : call'[d].at # "idle" => fileRows'[call'[d].upload] = 0
    <3>1. ~Open(u)
      BY <1>1 DEF UploadIInv, FilesAreOfDone
    <3>2. \A v \in UploadIds : fileRows'[v] <= 1 /\ (fileRows'[v] > 0 => ~(session'[v] \in {"none", "PENDING"}))
      BY <1>1, <1>4, <1>6, <2>2, <3>1 DEF UploadIInv, FilesAreOfDone, Open
    <3>3. \A d \in Completers : call'[d].at # "idle" => fileRows'[call'[d].upload] = 0
      BY <1>1, <1>2, <1>4, <1>6, <2>2, CallFields, BusyAreFewer DEF UploadIInv, FilesAreOfDone, Busy
    <3> QED
      BY <3>2, <3>3
  <2> QED
    BY <1>1, <1>2, <2>1, <2>2, BusyAreFewer DEF FilesAreOfDone, Open, Busy
<1>8. RowsToComeAreClean'
  BY <1>1, <1>2 DEF Proceeds, UploadIInv, RowsToComeAreClean
<1>9. NotBoth'
  <2>1. ASSUME oneByOne, NEW k \in Collectors, NEW v \in sweep[k].list, ~crossed[v]
        PROVE  fileRows'[v] = 0 /\ \A d \in Completers : call'[d].at # "idle" => call'[d].upload # v
    <3>1. v \in UploadIds
      BY <2>1 DEF UploadIInv, SweepsTyped
    <3>2. v # u
      BY <1>1, <2>1 DEF UploadIInv, NotBoth, Busy
    <3> QED
      BY <1>1, <1>2, <1>4, <2>1, <3>1, <3>2, BusyAreFewer DEF UploadIInv, NotBoth, Busy
  <2>2. ASSUME oneByOne, NEW d \in Completers, call'[d].at \in {"mark", "fetch", "store", "row"},
               ~crossed[call'[d].upload]
        PROVE  object[call'[d].upload] # "none"
    BY <1>2, <2>2 DEF Proceeds, UploadIInv, NotBoth
  <2> QED
    BY <1>1, <2>1, <2>2 DEF NotBoth, Busy
<1>10. U!ImagesAreClean'
  <2> SUFFICES ASSUME NEW v \in Images, boardFile'[v], ~again[v] PROVE object[v] \in {"clean", "none"}
    BY <1>1 DEF U!ImagesAreClean
  <2>1. v \in UploadIds
    BY OperationsAssumption
  <2>2. CASE v = u /\ call[c].via = "board"
    BY <1>1, <2>2 DEF UploadIInv, RowsToComeAreClean
  <2>3. CASE v # u \/ call[c].via # "board"
    <3>1. boardFile[v]
      BY <1>b, <2>1, <2>3
    <3> QED
      BY <3>1 DEF UploadIInv, U!ImagesAreClean
  <2> QED
    BY <2>2, <2>3
<1>11. U!FilesHaveObjects'
  <2> SUFFICES ASSUME oneByOne, NEW v \in UploadIds, fileRows'[v] > 0, ~crossed[v] PROVE object[v] # "none"
    BY <1>1 DEF U!FilesHaveObjects
  <2>1. CASE v = u
    BY <1>1, <2>1 DEF UploadIInv, NotBoth
  <2>2. CASE v # u
    BY <1>4, <2>2 DEF UploadIInv, U!FilesHaveObjects
  <2> QED
    BY <2>1, <2>2
<1> QED
  BY <1>5, <1>7, <1>8, <1>9, <1>10, <1>11 DEF UploadIInv

LEMMA CompletionKeeps ==
  ASSUME UploadIInv, NEW c \in Completers, U!Completion(c) PROVE UploadIInv'
<1>0. CallsTyped /\ upsets \in 0..MaxUpsets
  BY DEF UploadIInv, SweepsTyped
<1>1. CASE U!Expire(c)
  <2>1. Proceeds(c) /\ Busy(c) /\ call'[c].at = "idle"
    BY <1>0, <1>1, Ends DEF U!Expire, U!SetState, Proceeds, Busy
  <2> QED
    BY <1>1, <2>1, StateKeeps DEF U!Expire, U!SetState, U!fileTable, U!history
<1>2. CASE U!Abort(c)
  <2>1. Proceeds(c) /\ Busy(c) /\ call'[c].at = "idle"
    BY <1>0, <1>2, Ends DEF U!Abort, U!SetState, Proceeds, Busy
  <2> QED
    BY <1>2, <2>1, StateKeeps DEF U!Abort, U!SetState, U!fileTable, U!history
<1>3. CASE U!Mark(c)
  <2>1. Proceeds(c) /\ Busy(c) /\ call[c].at = "mark"
        /\ call'[c].at = IF U!Reencodes(c) THEN "fetch" ELSE "row"
    <3>1. (IF U!Reencodes(c) THEN "fetch" ELSE "row") \in U!Steps
      BY DEF U!Steps
    <3> QED
      BY <1>0, <1>3, <3>1, Goes DEF U!Mark, U!SetState, Proceeds, Busy
  <2> QED
    BY <1>3, <2>1, StateKeeps DEF U!Mark, U!Reencodes, U!SetState, U!fileTable, U!history
<1>4. CASE U!Head(c)
  <2>0. call[c].at = "head" /\ UNCHANGED <<oneByOne, session, object, fileRows, boardFile, clock, again, crossed, sweep, upsets>>
    BY <1>4 DEF U!Head, U!uploadRows, U!fileTable, U!history
  <2>1. CASE U!End(c)
    <3>1. Proceeds(c) /\ call'[c].at = "idle"
      BY <1>0, <2>1, Ends DEF Proceeds
    <3> QED
      BY <1>0, <2>0, <3>1, QuietKeeps
  <2>2. CASE U!Go(c, "discard")
    <3>1. Proceeds(c) /\ call'[c].at = "discard"
      BY <1>0, <2>0, <2>2, Goes DEF Proceeds, Busy, U!Steps
    <3> QED
      BY <1>0, <2>0, <3>1, QuietKeeps
  <2>3. CASE U!Go(c, "mark") /\ object[call[c].upload] # "none"
    <3>1. Proceeds(c) /\ call'[c].at = "mark"
      BY <1>0, <2>0, <2>3, Goes DEF Proceeds, Busy, U!Steps
    <3> QED
      BY <1>0, <2>0, <2>3, <3>1, QuietKeeps
  <2> QED
    BY <1>4, <2>1, <2>2, <2>3 DEF U!Head
<1>5. CASE U!Discard(c)
  BY <1>5, DiscardKeeps
<1>6. CASE U!Fetch(c)
  <2>0. call[c].at = "fetch" /\ UNCHANGED <<oneByOne, session, object, fileRows, boardFile, clock, again, crossed, sweep, upsets>>
    BY <1>6 DEF U!Fetch, U!uploadRows, U!fileTable, U!history
  <2>1. CASE U!End(c)
    <3>1. Proceeds(c) /\ call'[c].at = "idle"
      BY <1>0, <2>1, Ends DEF Proceeds
    <3> QED
      BY <1>0, <2>0, <3>1, QuietKeeps
  <2>2. CASE U!Go(c, "store")
    <3>1. Proceeds(c) /\ call'[c].at = "store"
      BY <1>0, <2>0, <2>2, Goes DEF Proceeds, Busy, U!Steps
    <3> QED
      BY <1>0, <2>0, <3>1, QuietKeeps
  <2> QED
    BY <1>6, <2>1, <2>2 DEF U!Fetch
<1>7. CASE U!Store(c)
  BY <1>7, StoreKeeps
<1>8. CASE U!InsertFile(c)
  BY <1>8, InsertFileKeeps
<1> QED
  BY <1>1, <1>2, <1>3, <1>4, <1>5, <1>6, <1>7, <1>8 DEF U!Completion

LEMMA UpsetKeeps ==
  ASSUME UploadIInv, NEW c \in Completers, U!Upset(c) PROVE UploadIInv'
<1>1. Proceeds(c) /\ call'[c].at = "idle"
  BY Ends DEF U!Upset, UploadIInv, Proceeds
<1>2. upsets' \in 0..MaxUpsets
  BY OperationsAssumption DEF U!Upset, UploadIInv, SweepsTyped
<1> QED
  BY <1>1, <1>2, QuietKeeps DEF U!Upset, U!uploadRows, U!fileTable, U!history

-----------------------------------------------------------------------------
(* Collections.                                                            *)

LEMMA CollectKeeps ==
  ASSUME UploadIInv, NEW k \in Collectors, U!Collect(k) PROVE UploadIInv'
<1>1. /\ sweep' = [sweep EXCEPT ![k] = [at |-> "delete", list |-> U!Overdue]]
      /\ crossed' = [u \in UploadIds |-> crossed[u] \/ (u \in U!Overdue /\ U!Completing(u))]
      /\ UNCHANGED <<oneByOne, session, object, fileRows, boardFile, clock, again, call, upsets>>
  BY DEF U!Collect, U!uploadRows, U!fileTable
<1>2. U!Overdue \subseteq UploadIds /\ \A u \in U!Overdue : session[u] = "PENDING"
  BY DEF U!Overdue
<1>3. SweepsTyped' /\ CallsTyped'
  BY <1>1, <1>2 DEF UploadIInv, SweepsTyped, CallsTyped
<1>4. UploadsTyped'
  <2>1. \A u \in UploadIds : crossed'[u] \in BOOLEAN
    BY <1>1 DEF UploadIInv, UploadsTyped
  <2>2. crossed' = [u \in UploadIds |-> crossed'[u]]
    BY <1>1
  <2>3. crossed' \in [UploadIds -> BOOLEAN]
    BY <2>1, <2>2
  <2> QED
    BY <1>1, <2>3 DEF UploadIInv, UploadsTyped
<1>5. \A u \in UploadIds : ~crossed'[u] => ~crossed[u] /\ (u \in U!Overdue => ~U!Completing(u))
  BY <1>1 DEF UploadIInv, UploadsTyped
<1>6. FilesAreOfDone'
  BY <1>1 DEF UploadIInv, FilesAreOfDone, Open, Busy
<1>7. RowsToComeAreClean' /\ U!ImagesAreClean'
  BY <1>1 DEF UploadIInv, RowsToComeAreClean, U!ImagesAreClean
<1>8. NotBoth'
  <2>1. ASSUME oneByOne, NEW j \in Collectors, NEW v \in sweep'[j].list, ~crossed'[v]
        PROVE  fileRows[v] = 0 /\ \A d \in Completers : Busy(d) => call[d].upload # v
    <3>1. v \in UploadIds
      BY <1>3, <2>1 DEF SweepsTyped
    <3>2. CASE v \in U!Overdue
      <4>1. fileRows[v] = 0
        BY <1>2, <2>1, <3>1, <3>2 DEF UploadIInv, UploadsTyped, FilesAreOfDone, Open
      <4>2. ~U!Completing(v)
        BY <1>5, <2>1, <3>1, <3>2
      <4> QED
        BY <4>1, <4>2 DEF U!Completing, Busy
    <3>3. CASE v \notin U!Overdue
      <4>1. v \in sweep[j].list
        BY <1>1, <2>1, <3>3 DEF UploadIInv, SweepsTyped
      <4> QED
        BY <1>5, <2>1, <3>1, <4>1 DEF UploadIInv, NotBoth
    <3> QED
      BY <3>2, <3>3
  <2>2. ASSUME oneByOne, NEW d \in Completers, call[d].at \in {"mark", "fetch", "store", "row"},
               ~crossed'[call[d].upload]
        PROVE  object[call[d].upload] # "none"
    BY <1>5, <2>2, CallFields DEF UploadIInv, NotBoth
  <2> QED
    BY <1>1, <2>1, <2>2 DEF NotBoth, Busy
<1>9. U!FilesHaveObjects'
  BY <1>1, <1>5 DEF UploadIInv, U!FilesHaveObjects
<1> QED
  BY <1>3, <1>4, <1>6, <1>7, <1>8, <1>9 DEF UploadIInv

\* A collection that only strikes uploads off its list.
LEMMA ShorterListKeeps ==
  ASSUME UploadIInv, SweepsTyped', \A k \in Collectors : sweep'[k].list \subseteq sweep[k].list,
         UNCHANGED <<oneByOne, session, object, fileRows, boardFile, clock, again, crossed, call>>
  PROVE  UploadIInv'
<1>1. UploadsTyped' /\ CallsTyped'
  BY DEF UploadIInv, UploadsTyped, CallsTyped
<1>2. FilesAreOfDone' /\ RowsToComeAreClean' /\ U!ImagesAreClean' /\ U!FilesHaveObjects'
  BY DEF UploadIInv, FilesAreOfDone, Open, Busy, RowsToComeAreClean, U!ImagesAreClean, U!FilesHaveObjects
<1>3. NotBoth'
  BY DEF UploadIInv, NotBoth, Busy
<1> QED
  BY <1>1, <1>2, <1>3 DEF UploadIInv

\* What is deleted has no file and is not being completed, unless they crossed.
LEMMA DeleteObjectKeeps ==
  ASSUME UploadIInv, NEW k \in Collectors, U!DeleteObject(k) PROVE UploadIInv'
<1> DEFINE u == U!Current(k)
<1>1. /\ sweep[k].list # {}
      /\ object' = [object EXCEPT ![u] = "none"]
      /\ sweep' = [sweep EXCEPT ![k].at = "expire"]
      /\ UNCHANGED <<oneByOne, session, clock, fileRows, boardFile, again, crossed, call, upsets>>
  BY DEF U!DeleteObject, U!fileTable, U!history
<1>2. u \in sweep[k].list /\ u \in UploadIds
  BY <1>1 DEF U!Current, UploadIInv, SweepsTyped
<1>3. \A v \in UploadIds : object'[v] = IF v = u THEN "none" ELSE object[v]
  BY <1>1, <1>2 DEF UploadIInv, UploadsTyped
<1>4. UploadsTyped' /\ CallsTyped' /\ SweepsTyped'
  BY <1>1, <1>2 DEF UploadIInv, UploadsTyped, CallsTyped, SweepsTyped
<1>5. \A j \in Collectors : sweep'[j].list = sweep[j].list
  BY <1>1 DEF UploadIInv, SweepsTyped
<1>6. FilesAreOfDone'
  BY <1>1 DEF UploadIInv, FilesAreOfDone, Open, Busy
<1>7. RowsToComeAreClean'
  BY <1>1, <1>3, CallFields DEF UploadIInv, RowsToComeAreClean
<1>8. oneByOne /\ ~crossed[u] => fileRows[u] = 0 /\ \A d \in Completers : Busy(d) => call[d].upload # u
  BY <1>2 DEF UploadIInv, NotBoth
<1>9. NotBoth'
  <2>1. ASSUME oneByOne, NEW d \in Completers, call[d].at \in {"mark", "fetch", "store", "row"},
               ~crossed[call[d].upload]
        PROVE  object'[call[d].upload] # "none"
    BY <1>3, <1>8, <2>1, CallFields DEF UploadIInv, NotBoth, Busy
  <2> QED
    BY <1>1, <1>5, <2>1 DEF UploadIInv, NotBoth, Busy
<1>10. U!ImagesAreClean'
  BY <1>1, <1>3, OperationsAssumption DEF UploadIInv, U!ImagesAreClean
<1>11. U!FilesHaveObjects'
  <2> SUFFICES ASSUME oneByOne, NEW v \in UploadIds, fileRows[v] > 0, ~crossed[v] PROVE object'[v] # "none"
    BY <1>1 DEF U!FilesHaveObjects
  <2>1. v # u
    BY <1>8
  <2> QED
    BY <1>3, <2>1 DEF UploadIInv, U!FilesHaveObjects
<1> QED
  BY <1>4, <1>6, <1>7, <1>9, <1>10, <1>11 DEF UploadIInv

LEMMA ExpireSessionKeeps ==
  ASSUME UploadIInv, NEW k \in Collectors, U!ExpireSession(k) PROVE UploadIInv'
<1>1. /\ session' = [session EXCEPT ![U!Current(k)] = "EXPIRED"]
      /\ sweep' = [sweep EXCEPT ![k].at = "delete", ![k].list = @ \ {U!Current(k)}]
      /\ UNCHANGED <<oneByOne, clock, object, fileRows, boardFile, again, crossed, call, upsets>>
  BY DEF U!ExpireSession, U!fileTable, U!history
<1>2. UploadsTyped' /\ CallsTyped' /\ SweepsTyped'
  <2>1. session' \in [UploadIds -> U!States]
    BY <1>1 DEF UploadIInv, UploadsTyped, U!States
  <2>2. /\ sweep[k].list \ {U!Current(k)} \in SUBSET UploadIds
        /\ sweep \in [Collectors -> [at : {"off", "delete", "expire"}, list : SUBSET UploadIds]]
    BY DEF UploadIInv, SweepsTyped
  <2>3. sweep' \in [Collectors -> [at : {"off", "delete", "expire"}, list : SUBSET UploadIds]]
    BY <1>1, <2>2
  <2> QED
    BY <1>1, <2>1, <2>3 DEF UploadIInv, UploadsTyped, CallsTyped, SweepsTyped
<1>3. \A j \in Collectors : sweep'[j].list \subseteq sweep[j].list
  BY <1>1 DEF UploadIInv, SweepsTyped
<1>4. \A v \in UploadIds : ~Open(v) => ~Open(v)'
  BY <1>1 DEF UploadIInv, UploadsTyped, Open
<1>5. FilesAreOfDone'
  <2>1. \A d \in Completers : call[d].at \in {"fetch", "store", "row"} => ~(session'[call[d].upload] \in {"none", "PENDING"})
    BY <1>4, CallFields DEF UploadIInv, FilesAreOfDone, Open
  <2>2. oneByOne => \A v \in UploadIds : fileRows[v] <= 1 /\ (fileRows[v] > 0 => ~(session'[v] \in {"none", "PENDING"}))
    BY <1>4 DEF UploadIInv, FilesAreOfDone, Open
  <2> QED
    BY <1>1, <2>1, <2>2 DEF UploadIInv, FilesAreOfDone, Open, Busy
<1>6. RowsToComeAreClean' /\ U!ImagesAreClean' /\ U!FilesHaveObjects'
  BY <1>1 DEF UploadIInv, RowsToComeAreClean, U!ImagesAreClean, U!FilesHaveObjects
<1>7. NotBoth'
  BY <1>1, <1>3 DEF UploadIInv, NotBoth, Busy
<1> QED
  BY <1>2, <1>5, <1>6, <1>7 DEF UploadIInv

LEMMA CollectionKeeps ==
  ASSUME UploadIInv, NEW k \in Collectors,
         U!Collection(k) \/ U!DeleteFails(k) \/ U!StopCollecting(k)
  PROVE  UploadIInv'
<1> USE DEF U!uploadRows, U!fileTable, U!history
<1>1. CASE U!Collect(k)
  BY <1>1, CollectKeeps
<1>2. CASE U!DeleteObject(k)
  BY <1>2, DeleteObjectKeeps
<1>3. CASE U!ExpireSession(k)
  BY <1>3, ExpireSessionKeeps
<1>4. CASE U!Collected(k)
  <2>1. SweepsTyped' /\ \A j \in Collectors : sweep'[j].list \subseteq sweep[j].list
    BY <1>4, NoCallType DEF U!Collected, UploadIInv, SweepsTyped
  <2> QED
    BY <1>4, <2>1, ShorterListKeeps DEF U!Collected
<1>5. CASE U!DeleteFails(k)
  <2>1. SweepsTyped' /\ \A j \in Collectors : sweep'[j].list \subseteq sweep[j].list
    BY <1>5, OperationsAssumption DEF U!DeleteFails, UploadIInv, SweepsTyped
  <2> QED
    BY <1>5, <2>1, ShorterListKeeps DEF U!DeleteFails
<1>6. CASE U!StopCollecting(k)
  <2>1. SweepsTyped' /\ \A j \in Collectors : sweep'[j].list \subseteq sweep[j].list
    BY <1>6, NoCallType, OperationsAssumption DEF U!StopCollecting, UploadIInv, SweepsTyped
  <2> QED
    BY <1>6, <2>1, ShorterListKeeps DEF U!StopCollecting
<1> HIDE DEF U!uploadRows, U!fileTable, U!history
<1> QED
  BY <1>1, <1>2, <1>3, <1>4, <1>5, <1>6 DEF U!Collection

LEMMA UploadInit == U!Init => UploadIInv
<1> SUFFICES ASSUME U!Init PROVE UploadIInv
  OBVIOUS
<1>1. UploadsTyped /\ CallsTyped /\ SweepsTyped
  BY NoCallType, OperationsAssumption DEF U!Init, UploadsTyped, CallsTyped, SweepsTyped, U!States
<1>2. FilesAreOfDone /\ RowsToComeAreClean
  BY NoCallType DEF U!Init, FilesAreOfDone, RowsToComeAreClean, Busy
<1>3. NotBoth
  BY NoCallType DEF U!Init, NotBoth
<1>4. U!ImagesAreClean /\ U!FilesHaveObjects
  BY OperationsAssumption DEF U!Init, U!ImagesAreClean, U!FilesHaveObjects
<1> QED
  BY <1>1, <1>2, <1>3, <1>4 DEF UploadIInv

LEMMA UploadStep == ASSUME UploadIInv, UploadMove PROVE UploadIInv'
<1>1. CASE UNCHANGED uploadOnly
  BY <1>1, ShorterListKeeps DEF uploadOnly, UploadIInv, SweepsTyped
<1>2. ASSUME NEW u \in UploadIds,
             U!Issue(u) \/ U!Tick(u) \/ \E content \in Contents : U!Put(u, content)
      PROVE  UploadIInv'
  BY <1>2, OperationsAssumption, IssueKeeps, TickKeeps, PutKeeps
<1>3. ASSUME NEW c \in Completers, (\E u \in UploadIds, via \in U!Endpoints : U!Complete(c, u, via)) \/ U!Completion(c) \/ U!Upset(c)
      PROVE  UploadIInv'
  BY <1>3, CompleteKeeps, CompletionKeeps, UpsetKeeps
<1>4. ASSUME NEW k \in Collectors, U!Collection(k) \/ U!DeleteFails(k) \/ U!StopCollecting(k)
      PROVE  UploadIInv'
  BY <1>4, CollectionKeeps
<1> QED
  BY <1>1, <1>2, <1>3, <1>4 DEF UploadMove, U!Next

\* Whatever fails and whatever is collected meanwhile: completions of an upload that do not
\* overlap make one file of it, a file has its object unless a collection crossed its
\* completion, and an image that the endpoint of the board made a file is as it was
\* re-encoded (upload-session.service, board-attachment.service).
THEOREM UploadsStand == OperationsSpec => []UploadsHold
<1>1. OperationsInit => UploadIInv
  BY UploadInit DEF OperationsInit
<1>2. [OperationsNext]_vars => UploadMove
  BY DEF OperationsNext, vars, UploadMove, uploadOnly
<1>3. UploadIInv /\ [OperationsNext]_vars => UploadIInv'
  BY <1>2, UploadStep
<1>4. UploadIInv => UploadsHold
  BY DEF UploadIInv, UploadsTyped, CallsTyped, SweepsTyped, FilesAreOfDone, UploadsHold, U!UploadsHold,
     U!TypeOK, U!OneFilePerUpload
<1> QED
  BY <1>1, <1>3, <1>4, PTL DEF OperationsSpec

-----------------------------------------------------------------------------
(* The settings.                                                           *)

SettingsMove == S!Next \/ UNCHANGED settingsOnly

\* The changes under way on an instance.
Changes(i) == {q \in Requests : work[q].op = "commit" /\ work[q].on = i}

WorkItem == [op : {"idle", "ask", "read", "commit"}, on : Instances, got : S!Values]

\* The numbers that changes take are within the bound, and a client is not newer than them.
NumbersStand ==
  \A i \in Instances : /\ version[i] + Cardinality(Changes(i)) <= MaxVersion
                       /\ builtFor[i] <= version[i]

\* Between changes everything an instance has read is what there is.
UpToDate(i) ==
  /\ cache[i] # S!Nothing => cache[i] = S!Decrypted
  /\ S!Fits(i) => client[i] = S!Decrypted
  /\ \A r \in Requests : work[r].op = "read" /\ work[r].on = i => work[r].got = S!Decrypted

FollowsBetweenChanges == \A i \in Instances : ~overlapped[i] /\ Changes(i) = {} => UpToDate(i)

SettingsIInv == S!TypeOK /\ NumbersStand /\ FollowsBetweenChanges

LEMMA OneCardinality == \A X : S!Cardinality(X) = Cardinality(X)
BY Zenon DEF S!Cardinality, Cardinality, S!IsFiniteSet, IsFiniteSet

LEMMA ChangesFinite ==
  ASSUME NEW i
  PROVE  IsFiniteSet(Changes(i)) /\ Cardinality(Changes(i)) \in Nat
<1>1. Changes(i) \subseteq Requests
  BY DEF Changes
<1> QED
  BY <1>1, OperationsAssumption, FS_Subset, FS_CardinalityType

LEMMA ReadsAreValues == S!TypeOK => S!Decrypted \in S!Values /\ S!Decrypted # S!Nothing
BY OperationsAssumption DEF S!TypeOK, S!Decrypted, S!Values, S!Nothing

LEMMA NoWorkType == S!NoWork \in WorkItem /\ S!NoWork.op = "idle" /\ S!Nothing \in S!Values
BY OperationsAssumption DEF S!NoWork, WorkItem, S!Nothing, S!Values

\* One request moves, and no change begins or ends.
LEMMA SameChanges ==
  ASSUME SettingsIInv, NEW r \in Requests, NEW q \in WorkItem,
         work[r].op # "commit", q.op # "commit", work' = [work EXCEPT ![r] = q]
  PROVE  \A i : Changes(i)' = Changes(i)
<1>1. \A v \in Requests : work'[v] = IF v = r THEN q ELSE work[v]
  BY DEF SettingsIInv, S!TypeOK
<1> QED
  BY <1>1 DEF Changes

\* One change ends.
LEMMA ChangeEnds ==
  ASSUME SettingsIInv, NEW r \in Requests, work[r].op = "commit", S!Rest(r)
  PROVE  /\ \A v \in Requests : work'[v] = IF v = r THEN S!NoWork ELSE work[v]
         /\ work' \in [Requests -> WorkItem]
         /\ work[r].on \in Instances
         /\ \A i \in Instances : i # work[r].on => Changes(i)' = Changes(i)
         /\ \A i \in Instances : Cardinality(Changes(i)') \in Nat
         /\ \A i : i = work[r].on => Cardinality(Changes(i)') = Cardinality(Changes(i)) - 1
<1>1. /\ \A v \in Requests : work'[v] = IF v = r THEN S!NoWork ELSE work[v]
      /\ work' \in [Requests -> WorkItem] /\ work[r].on \in Instances
  BY NoWorkType DEF SettingsIInv, S!TypeOK, S!Rest, WorkItem
<1>2. \A i \in Instances : Changes(i)' = Changes(i) \ {r}
  BY <1>1, NoWorkType DEF Changes
<1>3. \A i \in Instances : i # work[r].on => Changes(i)' = Changes(i)
  BY <1>2 DEF Changes
<1>4. r \in Changes(work[r].on)
  BY DEF Changes
<1>5. Cardinality(Changes(work[r].on) \ {r}) = Cardinality(Changes(work[r].on)) - 1
  BY <1>4, ChangesFinite, FS_RemoveElement
<1>6. \A i \in Instances : Cardinality(Changes(i)') \in Nat
  BY <1>2, ChangesFinite, FS_RemoveElement, FS_CardinalityType
<1>7. \A i : i = work[r].on => Cardinality(Changes(i)') = Cardinality(Changes(i)) - 1
  BY <1>1, <1>2, <1>5
<1> QED
  BY <1>1, <1>3, <1>6, <1>7

LEMMA BuildTypes ==
  ASSUME SettingsIInv, NEW i \in Instances, NEW values \in S!Values, S!Build(i, values)
  PROVE  /\ client' \in [Instances -> S!Values] /\ builtFor' \in [Instances -> -1..MaxVersion]
         /\ \A j \in Instances : j # i => client'[j] = client[j] /\ builtFor'[j] = builtFor[j]
         /\ \/ client'[i] = client[i] /\ builtFor'[i] = builtFor[i]
            \/ client'[i] = values /\ builtFor'[i] = version[i]
BY OperationsAssumption DEF SettingsIInv, S!TypeOK, S!Build

LEMMA ResolveKeeps ==
  ASSUME SettingsIInv, NEW i \in Instances, S!ResolveCached(i) PROVE SettingsIInv'
<1>1. /\ ~S!Fits(i) /\ cache[i] # S!Nothing /\ S!Build(i, cache[i]) /\ cache[i] \in S!Values
      /\ UNCHANGED <<settings, key, cache, version, work, overlapped>>
  BY DEF S!ResolveCached, SettingsIInv, S!TypeOK
<1>2. S!TypeOK'
  BY <1>1, BuildTypes DEF SettingsIInv, S!TypeOK
<1>3. \A j : Changes(j)' = Changes(j)
  BY <1>1 DEF Changes
<1>4. NumbersStand'
  <2> SUFFICES ASSUME NEW j \in Instances
               PROVE  version[j] + Cardinality(Changes(j)') <= MaxVersion /\ builtFor'[j] <= version[j]
    BY <1>1 DEF NumbersStand
  <2>1. Changes(j)' = Changes(j)
    BY <1>3
  <2>2. version[j] \in Int
    BY OperationsAssumption DEF SettingsIInv, S!TypeOK
  <2> QED
    BY <1>1, <2>1, <2>2, BuildTypes DEF SettingsIInv, NumbersStand
<1>5. FollowsBetweenChanges'
  <2> SUFFICES ASSUME NEW j \in Instances, ~overlapped[j], Changes(j) = {} PROVE UpToDate(j)'
    BY <1>1, <1>3 DEF FollowsBetweenChanges
  <2>1. UpToDate(j)
    BY DEF SettingsIInv, FollowsBetweenChanges
  <2>2. S!Decrypted' = S!Decrypted
    BY <1>1 DEF S!Decrypted
  <2>3. S!Fits(j)' => client'[j] = S!Decrypted
    <3>1. CASE j # i
      BY <1>1, <2>1, <3>1, BuildTypes DEF UpToDate, S!Fits
    <3>2. CASE j = i /\ client'[i] = client[i] /\ builtFor'[i] = builtFor[i]
      BY <1>1, <3>2 DEF S!Fits
    <3>3. CASE j = i /\ client'[i] = cache[i]
      BY <1>1, <2>1, <3>3 DEF UpToDate
    <3> QED
      BY <1>1, <3>1, <3>2, <3>3, BuildTypes
  <2> QED
    BY <1>1, <2>1, <2>2, <2>3 DEF UpToDate
<1> QED
  BY <1>2, <1>4, <1>5 DEF SettingsIInv

\* A reading that is asked for, or reads: it has what there is.
LEMMA ReadingKeeps ==
  ASSUME SettingsIInv, NEW r \in Requests, (\E i \in Instances : S!Ask(r, i)) \/ S!Read(r)
  PROVE  SettingsIInv'
<1>1. PICK q \in WorkItem :
        /\ work' = [work EXCEPT ![r] = q] /\ work[r].op # "commit" /\ q.op # "commit"
        /\ q.op = "read" => q.got = S!Decrypted
  <2>1. ASSUME NEW i \in Instances, S!Ask(r, i)
        PROVE  \E q \in WorkItem : /\ work' = [work EXCEPT ![r] = q] /\ work[r].op # "commit" /\ q.op # "commit"
                                   /\ q.op = "read" => q.got = S!Decrypted
    <3>1. [op |-> "ask", on |-> i, got |-> S!Nothing] \in WorkItem
      BY NoWorkType DEF WorkItem
    <3> QED
      BY <2>1, <3>1 DEF S!Ask
  <2>2. ASSUME S!Read(r)
        PROVE  \E q \in WorkItem : /\ work' = [work EXCEPT ![r] = q] /\ work[r].op # "commit" /\ q.op # "commit"
                                   /\ q.op = "read" => q.got = S!Decrypted
    <3> DEFINE q == [work[r] EXCEPT !.op = "read", !.got = S!Decrypted]
    <3>1. work[r] \in WorkItem
      BY DEF SettingsIInv, S!TypeOK, WorkItem
    <3>2. q \in WorkItem /\ q.op = "read" /\ q.got = S!Decrypted
      BY <3>1, ReadsAreValues DEF WorkItem, SettingsIInv
    <3>3. work' = [work EXCEPT ![r] = q] /\ work[r].op = "ask"
      BY <2>2 DEF S!Read, SettingsIInv, S!TypeOK
    <3> QED
      BY <3>2, <3>3
  <2> QED
    BY <2>1, <2>2
<1>2. UNCHANGED <<settings, key, cache, version, client, builtFor, overlapped>>
  BY DEF S!Ask, S!Read, S!memory
<1>3. \A v \in Requests : work'[v] = IF v = r THEN q ELSE work[v]
  BY <1>1 DEF SettingsIInv, S!TypeOK
<1>4. S!TypeOK'
  BY <1>1, <1>2 DEF SettingsIInv, S!TypeOK, WorkItem, S!Values
<1>5. \A j : Changes(j)' = Changes(j)
  BY <1>1, SameChanges
<1>6. NumbersStand'
  BY <1>2, <1>5 DEF SettingsIInv, NumbersStand
<1>7. FollowsBetweenChanges'
  <2> SUFFICES ASSUME NEW j \in Instances, ~overlapped[j], Changes(j) = {} PROVE UpToDate(j)'
    BY <1>2, <1>5 DEF FollowsBetweenChanges
  <2>1. UpToDate(j)
    BY DEF SettingsIInv, FollowsBetweenChanges
  <2>2. S!Decrypted' = S!Decrypted
    BY <1>2 DEF S!Decrypted
  <2> QED
    BY <1>1, <1>2, <1>3, <2>1, <2>2 DEF UpToDate, S!Fits
<1> QED
  BY <1>4, <1>6, <1>7 DEF SettingsIInv

LEMMA FillKeeps ==
  ASSUME SettingsIInv, NEW r \in Requests, S!Fill(r) PROVE SettingsIInv'
<1> DEFINE i == work[r].on
           got == work[r].got
<1>1. /\ work[r].op = "read" /\ i \in Instances /\ got \in S!Values
      /\ cache' = [cache EXCEPT ![i] = got] /\ S!Build(i, got)
      /\ work' = [work EXCEPT ![r] = S!NoWork]
      /\ UNCHANGED <<settings, key, version, overlapped>>
  BY DEF S!Fill, S!Rest, SettingsIInv, S!TypeOK
<1> HIDE DEF i, got
<1>2. \A v \in Requests : work'[v] = IF v = r THEN S!NoWork ELSE work[v]
  BY <1>1 DEF SettingsIInv, S!TypeOK
<1>3. S!TypeOK'
  BY <1>1, BuildTypes, NoWorkType DEF SettingsIInv, S!TypeOK, WorkItem
<1>4. \A j : Changes(j)' = Changes(j)
  BY <1>1, SameChanges, NoWorkType
<1>5. NumbersStand'
  <2> SUFFICES ASSUME NEW j \in Instances
               PROVE  version[j] + Cardinality(Changes(j)') <= MaxVersion /\ builtFor'[j] <= version[j]
    BY <1>1 DEF NumbersStand
  <2>1. Changes(j)' = Changes(j)
    BY <1>4
  <2>2. version[j] \in Int
    BY OperationsAssumption DEF SettingsIInv, S!TypeOK
  <2> QED
    BY <1>1, <2>1, <2>2, BuildTypes DEF SettingsIInv, NumbersStand
<1>6. FollowsBetweenChanges'
  <2> SUFFICES ASSUME NEW j \in Instances, ~overlapped[j], Changes(j) = {} PROVE UpToDate(j)'
    BY <1>1, <1>4 DEF FollowsBetweenChanges
  <2>1. UpToDate(j)
    BY DEF SettingsIInv, FollowsBetweenChanges
  <2>2. S!Decrypted' = S!Decrypted
    BY <1>1 DEF S!Decrypted
  <2>3. j = i => got = S!Decrypted
    BY <1>1, <2>1 DEF UpToDate, i, got
  <2>4. S!Fits(j)' => client'[j] = S!Decrypted
    <3>1. CASE client'[j] = client[j] /\ builtFor'[j] = builtFor[j]
      BY <1>1, <2>1, <3>1 DEF UpToDate, S!Fits
    <3>2. CASE j = i /\ client'[i] = got
      BY <2>3, <3>2
    <3> QED
      BY <1>1, <3>1, <3>2, BuildTypes
  <2>5. cache'[j] # S!Nothing => cache'[j] = S!Decrypted
    BY <1>1, <2>1, <2>3 DEF UpToDate, SettingsIInv, S!TypeOK
  <2>6. \A v \in Requests : work'[v].op = "read" /\ work'[v].on = j => work'[v].got = S!Decrypted
    BY <1>2, <2>1, NoWorkType DEF UpToDate
  <2> QED
    BY <2>2, <2>4, <2>5, <2>6 DEF UpToDate
<1> QED
  BY <1>3, <1>5, <1>6 DEF SettingsIInv

LEMMA ChangeBegins ==
  ASSUME SettingsIInv, NEW r \in Requests, NEW i \in Instances, NEW bucket \in 1..MaxValue,
         NEW secret \in 0..MaxValue, S!Commit(r, i, bucket, secret)
  PROVE  SettingsIInv'
<1> DEFINE q == [op |-> "commit", on |-> i, got |-> S!Nothing]
<1>1. /\ work[r].op = "idle" /\ work' = [work EXCEPT ![r] = q] /\ q \in WorkItem
      /\ overlapped' = [j \in Instances |-> overlapped[j] \/ j # i]
      /\ UNCHANGED <<key, cache, version, client, builtFor>>
  BY NoWorkType DEF S!Commit, S!memory, WorkItem
<1>2. version[i] + Cardinality(Changes(i)) < MaxVersion
  <2>1. {v \in S!On(i) : work[v].op = "commit"} = Changes(i)
    BY DEF S!On, Changes
  <2> QED
    BY <2>1, OneCardinality DEF S!Commit
<1>3. settings' \in [bucket : 0..MaxValue, secret : 0..MaxValue, sealedBy : 1..MaxKey]
  <2> DEFINE T == [bucket : 0..MaxValue, secret : 0..MaxValue, sealedBy : 1..MaxKey]
  <2>1. settings \in T /\ key \in 1..MaxKey /\ bucket \in 0..MaxValue
    BY OperationsAssumption DEF SettingsIInv, S!TypeOK
  <2>2. CASE secret = 0
    <3>1. settings' = [settings EXCEPT !.bucket = bucket]
      BY <2>1, <2>2 DEF S!Commit
    <3> QED
      BY <2>1, <3>1
  <2>3. CASE secret # 0
    <3>1. settings' = [settings EXCEPT !.bucket = bucket, !.secret = secret, !.sealedBy = key]
      BY <2>1, <2>3 DEF S!Commit
    <3> QED
      BY <2>1, <3>1
  <2> QED
    BY <2>2, <2>3
<1>4. overlapped' \in [Instances -> BOOLEAN] /\ \A j \in Instances : ~overlapped'[j] => j = i
  <2>1. \A j \in Instances : overlapped'[j] \in BOOLEAN /\ (j # i => overlapped'[j])
    BY <1>1 DEF SettingsIInv, S!TypeOK
  <2>2. overlapped' = [j \in Instances |-> overlapped'[j]]
    BY <1>1
  <2> QED
    BY <2>1, <2>2
<1>5. \A v \in Requests : work'[v] = IF v = r THEN q ELSE work[v]
  BY <1>1 DEF SettingsIInv, S!TypeOK
<1>6. S!TypeOK'
  BY <1>1, <1>3, <1>4 DEF SettingsIInv, S!TypeOK, WorkItem, S!Values
<1>7. \A j \in Instances : Changes(j)' = IF j = i THEN Changes(j) \cup {r} ELSE Changes(j)
  BY <1>1, <1>5 DEF Changes
<1>8. NumbersStand'
  <2> SUFFICES ASSUME NEW j \in Instances
               PROVE  version[j] + Cardinality(Changes(j)') <= MaxVersion /\ builtFor[j] <= version[j]
    BY <1>1 DEF NumbersStand
  <2>1. version[j] \in Nat /\ Cardinality(Changes(j)) \in Nat
    BY ChangesFinite, OperationsAssumption DEF SettingsIInv, S!TypeOK
  <2>2. CASE j # i
    <3>1. Changes(j)' = Changes(j)
      BY <1>7, <2>2
    <3> QED
      BY <3>1 DEF SettingsIInv, NumbersStand
  <2>3. CASE j = i
    <3>1. Changes(j)' = Changes(j) \cup {r}
      BY <1>7, <2>3
    <3>2. r \notin Changes(j)
      BY <1>1 DEF Changes
    <3>3. Cardinality(Changes(j) \cup {r}) = Cardinality(Changes(j)) + 1
      BY <3>2, ChangesFinite, FS_AddElement
    <3> QED
      BY <1>2, <2>1, <2>3, <3>1, <3>3, OperationsAssumption DEF SettingsIInv, NumbersStand
  <2> QED
    BY <2>2, <2>3
<1>9. FollowsBetweenChanges'
  <2>1. ASSUME NEW j \in Instances, ~overlapped'[j] PROVE Changes(j)' # {}
    BY <1>4, <1>7, <2>1
  <2> QED
    BY <2>1 DEF FollowsBetweenChanges
<1> QED
  BY <1>6, <1>8, <1>9 DEF SettingsIInv

\* After the last change of an instance nothing of the old settings is left on it, or it is
\* on record that a reading overlapped the change.
LEMMA InvalidateKeeps ==
  ASSUME SettingsIInv, NEW r \in Requests, S!Invalidate(r) PROVE SettingsIInv'
<1> DEFINE i == work[r].on
           reads == S!Reading(i)
<1>1. /\ work[r].op = "commit" /\ i \in Instances
      /\ cache' = [cache EXCEPT ![i] = S!Nothing]
      /\ version' = [version EXCEPT ![i] = @ + 1]
      /\ overlapped' = [overlapped EXCEPT ![i] = reads]
      /\ S!Rest(r)
      /\ UNCHANGED <<settings, key, client, builtFor>>
  BY DEF S!Invalidate, SettingsIInv, S!TypeOK
<1>2. reads \in BOOLEAN /\ (\A v \in Requests : work[v].op = "read" /\ work[v].on = i => reads)
  BY DEF S!Reading, S!On
<1>3. /\ \A v \in Requests : work'[v] = IF v = r THEN S!NoWork ELSE work[v]
      /\ work' \in [Requests -> WorkItem]
      /\ \A j \in Instances : j # i => Changes(j)' = Changes(j)
      /\ \A j \in Instances : Cardinality(Changes(j)') \in Nat
      /\ \A j : j = i => Cardinality(Changes(j)') = Cardinality(Changes(j)) - 1
  BY <1>1, ChangeEnds
<1> HIDE DEF i, reads
<1>4. \A j \in Instances : /\ version[j] \in Nat /\ Cardinality(Changes(j)) \in Nat
                           /\ version[j] + Cardinality(Changes(j)) <= MaxVersion
                           /\ builtFor[j] <= version[j] /\ builtFor[j] \in Int
  BY ChangesFinite, OperationsAssumption DEF SettingsIInv, S!TypeOK, NumbersStand
<1>5. \A j \in Instances : version'[j] = IF j = i THEN version[j] + 1 ELSE version[j]
  BY <1>1 DEF SettingsIInv, S!TypeOK
<1>6. NumbersStand'
  <2> SUFFICES ASSUME NEW j \in Instances
               PROVE  version'[j] + Cardinality(Changes(j)') <= MaxVersion /\ builtFor[j] <= version'[j]
    BY <1>1 DEF NumbersStand
  <2>1. CASE j # i
    <3>1. Changes(j)' = Changes(j)
      BY <1>3, <2>1
    <3> QED
      BY <1>4, <1>5, <2>1, <3>1
  <2>2. CASE j = i
    BY <1>3, <1>4, <1>5, <2>2, OperationsAssumption
  <2> QED
    BY <2>1, <2>2
<1>7. S!TypeOK'
  <2>1. version[i] + 1 \in 0..MaxVersion
    <3>1. PICK j \in Instances : j = i
      BY <1>1
    <3>2. Cardinality(Changes(j)) \in Nat \ {0}
      BY <1>3, <1>4, <3>1
    <3>3. version[j] + 1 <= MaxVersion /\ version[j] + 1 \in Nat
      BY <1>4, <3>2, OperationsAssumption
    <3> QED
      BY <3>1, <3>3, OperationsAssumption
  <2>2. version' \in [Instances -> 0..MaxVersion]
    BY <1>1, <2>1 DEF SettingsIInv, S!TypeOK
  <2>3. overlapped' \in [Instances -> BOOLEAN]
    BY <1>1, <1>2 DEF SettingsIInv, S!TypeOK
  <2> QED
    BY <1>1, <1>3, <2>2, <2>3, NoWorkType DEF SettingsIInv, S!TypeOK, WorkItem
<1>8. FollowsBetweenChanges'
  <2> SUFFICES ASSUME NEW j \in Instances, ~overlapped'[j], Changes(j)' = {} PROVE UpToDate(j)'
    BY DEF FollowsBetweenChanges
  <2>0. S!Decrypted' = S!Decrypted
    BY <1>1 DEF S!Decrypted
  <2>1. CASE j # i
    <3>1. Changes(j) = {} /\ ~overlapped[j]
      BY <1>1, <1>3, <2>1 DEF SettingsIInv, S!TypeOK
    <3>2. UpToDate(j)
      BY <3>1 DEF SettingsIInv, FollowsBetweenChanges
    <3>3. cache'[j] = cache[j] /\ version'[j] = version[j]
      BY <1>1, <2>1 DEF SettingsIInv, S!TypeOK
    <3> QED
      BY <1>1, <1>3, <2>0, <3>2, <3>3, NoWorkType DEF UpToDate, S!Fits
  <2>2. CASE j = i
    <3>1. cache'[j] = S!Nothing /\ version'[j] = version[j] + 1
      BY <1>1, <2>2 DEF SettingsIInv, S!TypeOK
    <3>2. ~(S!Fits(j)')
      BY <1>1, <1>4, <3>1 DEF S!Fits
    <3>3. ~reads
      BY <1>1, <2>2 DEF SettingsIInv, S!TypeOK
    <3> QED
      BY <1>2, <1>3, <2>2, <3>1, <3>2, <3>3, NoWorkType DEF UpToDate
  <2> QED
    BY <2>1, <2>2
<1> QED
  BY <1>6, <1>7, <1>8 DEF SettingsIInv

LEMMA UnheardKeeps ==
  ASSUME SettingsIInv, NEW r \in Requests, S!Unheard(r) PROVE SettingsIInv'
<1> DEFINE i == work[r].on
<1>1. /\ work[r].op = "commit" /\ i \in Instances
      /\ overlapped' = [overlapped EXCEPT ![i] = TRUE]
      /\ S!Rest(r)
      /\ UNCHANGED <<settings, key, cache, version, client, builtFor>>
  BY DEF S!Unheard, S!memory, SettingsIInv, S!TypeOK
<1>2. /\ \A v \in Requests : work'[v] = IF v = r THEN S!NoWork ELSE work[v]
      /\ work' \in [Requests -> WorkItem]
      /\ \A j \in Instances : j # i => Changes(j)' = Changes(j)
      /\ \A j \in Instances : Cardinality(Changes(j)') \in Nat
      /\ \A j : j = i => Cardinality(Changes(j)') = Cardinality(Changes(j)) - 1
  BY <1>1, ChangeEnds
<1> HIDE DEF i
<1>3. S!TypeOK'
  BY <1>1, <1>2, NoWorkType DEF SettingsIInv, S!TypeOK, WorkItem
<1>4. NumbersStand'
  <2> SUFFICES ASSUME NEW j \in Instances
               PROVE  version[j] + Cardinality(Changes(j)') <= MaxVersion /\ builtFor[j] <= version[j]
    BY <1>1 DEF NumbersStand
  <2>1. /\ version[j] \in Nat /\ Cardinality(Changes(j)) \in Nat
        /\ version[j] + Cardinality(Changes(j)) <= MaxVersion /\ builtFor[j] <= version[j]
    BY ChangesFinite, OperationsAssumption DEF SettingsIInv, S!TypeOK, NumbersStand
  <2>2. CASE j # i
    <3>1. Changes(j)' = Changes(j)
      BY <1>2, <2>2
    <3> QED
      BY <2>1, <3>1
  <2>3. CASE j = i
    BY <1>2, <2>1, <2>3, OperationsAssumption
  <2> QED
    BY <2>2, <2>3
<1>5. FollowsBetweenChanges'
  <2> SUFFICES ASSUME NEW j \in Instances, ~overlapped'[j], Changes(j)' = {} PROVE UpToDate(j)'
    BY DEF FollowsBetweenChanges
  <2>1. j # i /\ ~overlapped[j]
    BY <1>1 DEF SettingsIInv, S!TypeOK
  <2>2. UpToDate(j)
    BY <1>2, <2>1 DEF SettingsIInv, FollowsBetweenChanges
  <2>3. S!Decrypted' = S!Decrypted
    BY <1>1 DEF S!Decrypted
  <2> QED
    BY <1>1, <1>2, <2>2, <2>3, NoWorkType DEF UpToDate, S!Fits
<1> QED
  BY <1>3, <1>4, <1>5 DEF SettingsIInv

\* What restarts has nothing of the settings, and no requests.
LEMMA ForgetKeeps ==
  ASSUME SettingsIInv, NEW is \in SUBSET Instances, S!Forget(is), settings' = settings,
         key' \in 1..MaxKey, key' = key \/ is = Instances
  PROVE  SettingsIInv'
<1>1. \A i \in Instances :
        /\ cache'[i] = IF i \in is THEN S!Nothing ELSE cache[i]
        /\ version'[i] = IF i \in is THEN 0 ELSE version[i]
        /\ client'[i] = IF i \in is THEN S!Nothing ELSE client[i]
        /\ builtFor'[i] = IF i \in is THEN -1 ELSE builtFor[i]
        /\ overlapped'[i] <=> overlapped[i] /\ i \notin is
  BY DEF S!Forget
<1>2. \A v \in Requests : work'[v] = IF work[v].on \in is THEN S!NoWork ELSE work[v]
  BY DEF S!Forget
<1>3. S!TypeOK'
  <2>1. cache' \in [Instances -> S!Values] /\ client' \in [Instances -> S!Values]
    BY NoWorkType DEF S!Forget, SettingsIInv, S!TypeOK
  <2>2. version' \in [Instances -> 0..MaxVersion] /\ builtFor' \in [Instances -> -1..MaxVersion]
    BY OperationsAssumption DEF S!Forget, SettingsIInv, S!TypeOK
  <2>3. work' \in [Requests -> WorkItem]
    BY NoWorkType DEF S!Forget, SettingsIInv, S!TypeOK, WorkItem
  <2>4. overlapped' \in [Instances -> BOOLEAN]
    <3>1. overlapped' = [i \in Instances |-> overlapped'[i]] /\ \A i \in Instances : overlapped'[i] \in BOOLEAN
      BY DEF S!Forget
    <3> QED
      BY <3>1
  <2>5. /\ settings' \in [bucket : 0..MaxValue, secret : 0..MaxValue, sealedBy : 1..MaxKey]
        /\ key' \in 1..MaxKey
    BY DEF SettingsIInv, S!TypeOK
  <2> QED
    BY <2>1, <2>2, <2>3, <2>4, <2>5 DEF S!TypeOK, WorkItem, S!Values
<1>4. \A i \in Instances : /\ i \in is => Changes(i)' = {}
                           /\ i \notin is => Changes(i)' = Changes(i)
  <2> SUFFICES ASSUME NEW i \in Instances
               PROVE  (i \in is => Changes(i)' = {}) /\ (i \notin is => Changes(i)' = Changes(i))
    OBVIOUS
  <2> QED
    BY <1>2, NoWorkType DEF Changes
<1>5. NumbersStand'
  <2> SUFFICES ASSUME NEW j \in Instances
               PROVE  version'[j] + Cardinality(Changes(j)') <= MaxVersion /\ builtFor'[j] <= version'[j]
    BY DEF NumbersStand
  <2>1. CASE j \in is
    <3>1. Cardinality(Changes(j)') = 0
      BY <1>4, <2>1, FS_EmptySet
    <3> QED
      BY <1>1, <2>1, <3>1, OperationsAssumption
  <2>2. CASE j \notin is
    <3>1. Changes(j)' = Changes(j)
      BY <1>4, <2>2
    <3> QED
      BY <1>1, <2>2, <3>1 DEF SettingsIInv, NumbersStand
  <2> QED
    BY <2>1, <2>2
<1>6. FollowsBetweenChanges'
  <2> SUFFICES ASSUME NEW j \in Instances, ~overlapped'[j], Changes(j)' = {} PROVE UpToDate(j)'
    BY DEF FollowsBetweenChanges
  <2>1. CASE j \in is
    <3>1. \A v \in Requests : work'[v].op = "read" => work'[v].on # j
      BY <1>2, <2>1, NoWorkType
    <3> QED
      BY <1>1, <2>1, <3>1 DEF UpToDate, S!Fits
  <2>2. CASE j \notin is
    <3>1. UpToDate(j)
      BY <1>1, <1>4, <2>2 DEF SettingsIInv, FollowsBetweenChanges
    <3>2. S!Decrypted' = S!Decrypted
      BY <2>2 DEF S!Decrypted
    <3> QED
      BY <1>1, <1>2, <2>2, <3>1, <3>2, NoWorkType DEF UpToDate, S!Fits
  <2> QED
    BY <2>1, <2>2
<1> QED
  BY <1>3, <1>5, <1>6 DEF SettingsIInv

LEMMA SettingsInit == S!Init => SettingsIInv
<1> SUFFICES ASSUME S!Init PROVE SettingsIInv
  OBVIOUS
<1>1. S!TypeOK
  BY NoWorkType, OperationsAssumption DEF S!Init, S!TypeOK, WorkItem, S!Values
<1>2. \A i \in Instances : Changes(i) = {}
  BY NoWorkType DEF S!Init, Changes
<1>3. NumbersStand
  <2> SUFFICES ASSUME NEW i \in Instances
               PROVE  version[i] + Cardinality(Changes(i)) <= MaxVersion /\ builtFor[i] <= version[i]
    BY DEF NumbersStand
  <2>1. Cardinality(Changes(i)) = 0
    BY <1>2, FS_EmptySet
  <2>2. version[i] = 0 /\ builtFor[i] = -1
    BY DEF S!Init
  <2> QED
    BY <2>1, <2>2, OperationsAssumption
<1>4. FollowsBetweenChanges
  BY NoWorkType DEF S!Init, FollowsBetweenChanges, UpToDate, S!Fits
<1> QED
  BY <1>1, <1>3, <1>4 DEF SettingsIInv

LEMMA SettingsStep == ASSUME SettingsIInv, SettingsMove PROVE SettingsIInv'
<1>1. CASE UNCHANGED settingsOnly
  BY <1>1 DEF settingsOnly, SettingsIInv, S!TypeOK, NumbersStand, FollowsBetweenChanges, UpToDate, S!Fits,
     S!Decrypted, Changes
<1>2. ASSUME NEW i \in Instances, S!ResolveCached(i) \/ S!Restart(i) PROVE SettingsIInv'
  <2>1. CASE S!Restart(i)
    BY <2>1, ForgetKeeps DEF S!Restart, SettingsIInv, S!TypeOK
  <2> QED
    BY <1>2, <2>1, ResolveKeeps
<1>3. ASSUME NEW r \in Requests, (\E i \in Instances : S!Ask(r, i)) \/ S!Read(r) PROVE SettingsIInv'
  BY <1>3, ReadingKeeps
<1>4. ASSUME NEW r \in Requests, S!Fill(r) PROVE SettingsIInv'
  BY <1>4, FillKeeps
<1>5. ASSUME NEW r \in Requests, NEW i \in Instances, NEW bucket \in 1..MaxValue, NEW secret \in 0..MaxValue,
             S!Commit(r, i, bucket, secret)
      PROVE  SettingsIInv'
  BY <1>5, ChangeBegins
<1>6. ASSUME NEW r \in Requests, S!Invalidate(r) PROVE SettingsIInv'
  BY <1>6, InvalidateKeeps
<1>7. ASSUME NEW r \in Requests, S!Unheard(r) PROVE SettingsIInv'
  BY <1>7, UnheardKeeps
<1>8. CASE S!Rekey
  <2>1. key' \in 1..MaxKey /\ settings' = settings /\ S!Forget(Instances)
    BY <1>8, OperationsAssumption DEF S!Rekey, SettingsIInv, S!TypeOK
  <2> QED
    BY <2>1, ForgetKeeps
<1> QED
  BY <1>1, <1>2, <1>3, <1>4, <1>5, <1>6, <1>7, <1>8 DEF SettingsMove, S!Next

\* An instance that is at rest works with the settings as they are, in its cache and in its
\* client, from the last change it made itself, unless a reading of its own overlapped that
\* change or another instance has made one since (settings.service, storage.service 41-42).
THEOREM SettingsStand == OperationsSpec => []SettingsHold
<1>1. OperationsInit => SettingsIInv
  BY SettingsInit DEF OperationsInit
<1>2. [OperationsNext]_vars => SettingsMove
  BY DEF OperationsNext, vars, SettingsMove, settingsOnly
<1>3. SettingsIInv /\ [OperationsNext]_vars => SettingsIInv'
  BY <1>2, SettingsStep
<1>4. SettingsIInv => SettingsHold
  <2> SUFFICES ASSUME SettingsIInv, NEW i \in Instances, S!On(i) = {}, ~overlapped[i] PROVE UpToDate(i)
    BY DEF SettingsHold, S!SettingsHold, S!CacheFollows, SettingsIInv, UpToDate
  <2>1. Changes(i) = {}
    BY DEF S!On, Changes
  <2> QED
    BY <2>1 DEF SettingsIInv, FollowsBetweenChanges
<1> QED
  BY <1>1, <1>3, <1>4, PTL DEF OperationsSpec

-----------------------------------------------------------------------------
(* The verification of domains.                                            *)

\* Domains once more, with what is proved of it: D and DP are the same actions and the same
\* properties under two names.
DP == INSTANCE DomainsProofs

\* However many workers poll, however they fail, and whatever is asked meanwhile: no attempt
\* is run twice at once, a domain that is VERIFIED is one its owners control and a deleted
\* one says so in both its columns, unless a rename or a deletion overtakes a worker's run
\* (verification.service 138-140, domains.service 123, 158).
THEOREM DomainsStand == OperationsSpec => []VerificationHolds
<1>1. OperationsInit => DP!Init
  <2>1. D!Init <=> DP!Init
    BY DEF D!Init, D!NothingRead, D!NoDraft, D!NoToken,
       DP!Init, DP!NothingRead, DP!NoDraft, DP!NoToken
  <2> QED
    BY <2>1 DEF OperationsInit
<1>2. [OperationsNext]_vars => [DP!Next]_(DP!vars)
  <2>1. D!Next <=> DP!Next
    BY DEF D!NoToken, D!domainVars, D!workerVars, D!handlerVars, D!vars, D!Inflight, D!Finished,
       D!Transfer, D!NoDraft, D!NothingRead, D!Unlocked, D!Quiet, D!Writable, D!Checked,
       D!Rename, D!SoftDelete, D!Publish, D!RequestVerification, D!Claim, D!Goto, D!ReadDomain,
       D!Lookup, D!Rest, D!CommitVerified, D!Fail, D!Stumble, D!Vanish, D!Call, D!Return, D!Advance, D!SetTransfer,
       D!ExpireLate, D!GuardPropose, D!ExpireStale, D!CreateTransfer, D!ReadAccept, D!CanAccept,
       D!LockAccept, D!CommitAccept, D!Invalidate, D!ReadCancel, D!CommitCancel, D!TransferLate,
       D!SweepExpired, D!DeleteUser, D!PurgeList, D!PurgeDelete, D!WorkerStep, D!HandlerStep,
       D!TransferNext, D!VerificationNext, D!Step, D!Next,
       DP!NoToken, DP!domainVars, DP!workerVars, DP!handlerVars, DP!vars, DP!Inflight,
       DP!Finished, DP!Transfer, DP!NoDraft, DP!NothingRead, DP!Unlocked, DP!Quiet, DP!Writable,
       DP!Checked, DP!Rename, DP!SoftDelete, DP!Publish, DP!RequestVerification, DP!Claim,
       DP!Goto, DP!ReadDomain, DP!Lookup, DP!Rest, DP!CommitVerified, DP!Fail, DP!Stumble, DP!Vanish, DP!Call,
       DP!Return, DP!Advance, DP!SetTransfer, DP!ExpireLate, DP!GuardPropose, DP!ExpireStale,
       DP!CreateTransfer, DP!ReadAccept, DP!CanAccept, DP!LockAccept, DP!CommitAccept,
       DP!Invalidate, DP!ReadCancel, DP!CommitCancel, DP!TransferLate, DP!SweepExpired,
       DP!DeleteUser, DP!PurgeList, DP!PurgeDelete, DP!WorkerStep, DP!HandlerStep,
       DP!TransferNext, DP!VerificationNext, DP!Step, DP!Next
  <2>2. UNCHANGED domainOnly => UNCHANGED DP!vars
    BY DEF domainOnly, DP!vars, DP!domainVars, DP!workerVars, DP!handlerVars
  <2>3. [OperationsNext]_vars => D!Next \/ UNCHANGED domainOnly
    BY DEF OperationsNext, domainOnly, vars
  <2> QED
    BY <2>1, <2>2, <2>3
<1>3. DP!Spec => []DP!VerificationHolds
  BY DP!VerificationStands, OperationsAssumption
<1>4. DP!VerificationHolds <=> VerificationHolds
  BY DEF VerificationHolds, D!TypeOK, D!VerifiedIsControlled, D!VerifiedUnlessOvertaken,
     D!DeletedTogether, D!OneWorkerPerAttempt, D!NoneLeftRunning, D!VerificationHolds, D!Inflight, D!Finished,
     D!Transfer,
     DP!TypeOK, DP!VerifiedIsControlled, DP!VerifiedUnlessOvertaken, DP!DeletedTogether,
     DP!OneWorkerPerAttempt, DP!NoneLeftRunning, DP!VerificationHolds, DP!Inflight, DP!Finished, DP!Transfer
<1> QED
  BY <1>1, <1>2, <1>3, <1>4, PTL DEF OperationsSpec, DP!Spec
=============================================================================
