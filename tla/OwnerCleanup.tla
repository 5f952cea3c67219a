---------------------------- MODULE OwnerCleanup ----------------------------
(***************************************************************************)
(* What a deleted member owned is removed by a queue of jobs: the deletion *)
(* puts one in, and every ten seconds a tick of every instance takes one   *)
(* and calls the hook of each type of resource for one batch.  A tick does *)
(* not wait for the one before.                                            *)
(***************************************************************************)
EXTENDS Integers, FiniteSets

CONSTANTS
  Owners,         \* members that are deleted: numbers, in the order of their deletion
  Hooks,          \* the number of types: a hook for each of 1..Hooks, called in this order
  CleanupTicks,   \* ticks at the same time
  MaxOwned,       \* bound: resources of a member of one type
  BatchLimit,     \* BATCH_LIMIT
  AttemptLimit,   \* MAX_ATTEMPTS
  MaxMishaps      \* bound: hooks and updates that fail, crashes

ASSUME CleanupAssumption ==
  /\ Hooks \in Nat \ {0}
  /\ MaxOwned \in Nat /\ BatchLimit \in Nat /\ AttemptLimit \in Nat /\ MaxMishaps \in Nat

VARIABLES
  jobs,           \* owner_cleanup_jobs: status and attempts
  owned,          \* resources of a member that are not deleted, by type
  run,            \* the ticks: the job they run and the hook they have come to
  late,           \* history: the member got a resource after the deletion
  failures,       \* history: the runs of a job that failed
  lost,           \* history: the run ended without a word
  mishapsOfJobs

cleanupVars == <<jobs, owned, run, late, failures, lost, mishapsOfJobs>>
told        == <<late, failures, lost>>

Types  == 1..Hooks
NoRun  == [at |-> "idle", owner |-> 0, attempts |-> 0, hook |-> 1, remaining |-> FALSE]

Init ==
  /\ jobs = [o \in Owners |-> [status |-> "none", attempts |-> 0]]
  /\ owned \in [Owners -> [Types -> {0, MaxOwned}]]
  /\ run = [w \in CleanupTicks |-> NoRun]
  /\ late = [o \in Owners |-> FALSE]
  /\ failures = [o \in Owners |-> 0]
  /\ lost = [o \in Owners |-> FALSE]
  /\ mishapsOfJobs = 0

\* MembersService.softDelete, in its transaction.
Enqueue(o) ==
  /\ jobs[o].status = "none"
  /\ \A p \in Owners : p < o => jobs[p].status # "none"
  /\ jobs' = [jobs EXCEPT ![o].status = "PENDING"]
  /\ UNCHANGED <<owned, run, told, mishapsOfJobs>>

\* A request that was admitted before the deletion makes him an owner once more.
Acquire(o, t) ==
  /\ jobs[o].status # "none"
  /\ owned[o][t] < MaxOwned
  /\ ~late[o]
  /\ owned' = [owned EXCEPT ![o][t] = @ + 1]
  /\ late' = [late EXCEPT ![o] = TRUE]
  /\ UNCHANGED <<jobs, run, failures, lost, mishapsOfJobs>>

Waiting(o) == jobs[o].status = "PENDING"

\* Mutant of Claimable: a job that somebody runs is taken as well.
ClaimableRunning(o) == jobs[o].status \in {"PENDING", "RUNNING"}

\* The oldest job that nobody has; one statement takes it, and passes over locked rows.
Claimable(o) == Waiting(o) /\ \A p \in Owners : Waiting(p) => o <= p

Claim(w, o) ==
  /\ run[w].at = "idle"
  /\ Claimable(o)
  /\ jobs' = [jobs EXCEPT ![o].status = "RUNNING"]
  /\ run' = [run EXCEPT ![w] =
       [at |-> "hooks", owner |-> o, attempts |-> jobs[o].attempts, hook |-> 1, remaining |-> FALSE]]
  /\ UNCHANGED <<owned, told, mishapsOfJobs>>

\* Mutant of Onward: only what the last hook leaves counts.
OnwardLast(r, left) ==
  [r EXCEPT !.hook = @ + 1, !.remaining = left > 0, !.at = IF r.hook = Hooks THEN "finish" ELSE "hooks"]

Onward(r, left) ==
  [r EXCEPT !.hook = @ + 1, !.remaining = @ \/ left > 0,
            !.at = IF r.hook = Hooks THEN "finish" ELSE "hooks"]

\* purgeOwnerDeleted of one type: a batch, in a transaction of its own.
Purge(w) ==
  LET r    == run[w]
      left == IF owned[r.owner][r.hook] > BatchLimit THEN owned[r.owner][r.hook] - BatchLimit ELSE 0
  IN /\ r.at = "hooks"
     /\ owned' = [owned EXCEPT ![r.owner][r.hook] = left]
     /\ run' = [run EXCEPT ![w] = Onward(r, left)]
     /\ UNCHANGED <<jobs, told, mishapsOfJobs>>

\* A hook or the update at the end throws.
Throw(w) ==
  /\ run[w].at \in {"hooks", "finish"}
  /\ mishapsOfJobs < MaxMishaps
  /\ mishapsOfJobs' = mishapsOfJobs + 1
  /\ failures' = [failures EXCEPT ![run[w].owner] = @ + 1]
  /\ run' = [run EXCEPT ![w].at = "failed"]
  /\ UNCHANGED <<jobs, owned, late, lost>>

\* Mutant of Finish: what remains is left for good.
FinishAtOnce(w) ==
  /\ run[w].at = "finish"
  /\ jobs' = [jobs EXCEPT ![run[w].owner].status = "DONE"]
  /\ run' = [run EXCEPT ![w] = NoRun]
  /\ UNCHANGED <<owned, told, mishapsOfJobs>>

Finish(w) ==
  /\ run[w].at = "finish"
  /\ jobs' = [jobs EXCEPT ![run[w].owner].status = IF run[w].remaining THEN "PENDING" ELSE "DONE"]
  /\ run' = [run EXCEPT ![w] = NoRun]
  /\ UNCHANGED <<owned, told, mishapsOfJobs>>

\* Mutants of Retry: the job gives up one run too early; the failure is only logged.
RetryOnceLess(w) ==
  LET r == run[w]
      n == r.attempts + 1
  IN /\ r.at = "failed"
     /\ jobs' = [jobs EXCEPT ![r.owner] =
          [status |-> IF n + 1 >= AttemptLimit THEN "FAILED" ELSE "PENDING", attempts |-> n]]
     /\ run' = [run EXCEPT ![w] = NoRun]
     /\ UNCHANGED <<owned, told, mishapsOfJobs>>

RetryUnrecorded(w) ==
  /\ run[w].at = "failed"
  /\ run' = [run EXCEPT ![w] = NoRun]
  /\ UNCHANGED <<jobs, owned, told, mishapsOfJobs>>

\* The count goes on from the value that was claimed.
Retry(w) ==
  LET r == run[w]
      n == r.attempts + 1
  IN /\ r.at = "failed"
     /\ jobs' = [jobs EXCEPT ![r.owner] =
          [status |-> IF n >= AttemptLimit THEN "FAILED" ELSE "PENDING", attempts |-> n]]
     /\ run' = [run EXCEPT ![w] = NoRun]
     /\ UNCHANGED <<owned, told, mishapsOfJobs>>

\* The process dies, or even the update that records the failure fails.
Vanish(w) ==
  /\ run[w].at # "idle"
  /\ mishapsOfJobs < MaxMishaps
  /\ mishapsOfJobs' = mishapsOfJobs + 1
  /\ lost' = [lost EXCEPT ![run[w].owner] = TRUE]
  /\ run' = [run EXCEPT ![w] = NoRun]
  /\ UNCHANGED <<jobs, owned, late, failures>>

Tick(w) == (\E o \in Owners : Claim(w, o)) \/ Purge(w) \/ Finish(w) \/ Retry(w)

Next ==
  \/ \E o \in Owners : Enqueue(o) \/ \E t \in Types : Acquire(o, t)
  \/ \E w \in CleanupTicks : Tick(w) \/ Throw(w) \/ Vanish(w)

\* @Interval(10_000)
Fairness == \A w \in CleanupTicks : WF_cleanupVars(Tick(w))

Spec == Init /\ [][Next]_cleanupVars /\ Fairness

Run == [at : {"idle", "hooks", "finish", "failed"}, owner : Owners \cup {0}, attempts : Nat,
        hook : 1..(Hooks + 1), remaining : BOOLEAN]

TypeOK ==
  /\ jobs \in [Owners -> [status : {"none", "PENDING", "RUNNING", "DONE", "FAILED"}, attempts : Nat]]
  /\ owned \in [Owners -> [Types -> 0..MaxOwned]]
  /\ run \in [CleanupTicks -> Run]
  /\ late \in [Owners -> BOOLEAN] /\ lost \in [Owners -> BOOLEAN]
  /\ failures \in [Owners -> Nat]
  /\ mishapsOfJobs \in 0..MaxMishaps

Runs(o) == {w \in CleanupTicks : run[w].at # "idle" /\ run[w].owner = o}

\* Ticks of several instances never run a job at the same time (worker 41).
OneRunPerJob == \A o \in Owners : Cardinality(Runs(o)) <= 1

\* A job that is done has left nothing, of any type and however many batches it took,
\* but for what the member got after he was deleted.
DoneIsClean ==
  \A o \in Owners : jobs[o].status = "DONE" /\ ~late[o] => \A t \in Types : owned[o][t] = 0

\* A job is given up after so many runs that failed, and not before; a run that only
\* has more to do is none of them (worker 78-79, 85-86).
GivenUpInTime ==
  \A o \in Owners :
    /\ jobs[o].status = "FAILED" => failures[o] >= AttemptLimit
    /\ jobs[o].attempts <= failures[o]

\* A job that runs is run by a tick, unless one has vanished with it.
RunningIsRun == \A o \in Owners : jobs[o].status = "RUNNING" /\ ~lost[o] => Runs(o) # {}

\* What the queue keeps, as one.
CleanupHolds == TypeOK /\ OneRunPerJob /\ DoneIsClean /\ GivenUpInTime /\ RunningIsRun

\* A job comes to its end, unless a tick vanishes with it.
CleanupEnds ==
  \A o \in Owners : Waiting(o) ~> jobs[o].status \in {"DONE", "FAILED"} \/ lost[o]
=============================================================================
