----------------------------- MODULE AuditTrail -----------------------------
(***************************************************************************)
(* The audit log by days, and the daily checkpoints that seal it: each     *)
(* holds a digest of its day and the chain value of the checkpoint before. *)
(* RI-7 computes them again.  The retention of access records removes old  *)
(* ones.  A digest is what it is taken of; a chain value is the sequence   *)
(* of the digests in it.                                                   *)
(***************************************************************************)
EXTENDS Integers, FiniteSets, Sequences

CONSTANTS
  LastDay,        \* bound on the calendar
  Instances,      \* every instance runs the job of the day
  MaxRows,        \* bound on the records of one kind in a day
  Retention       \* AUDIT_ACCESS_RETENTION_DAYS

VARIABLES
  today,
  rows,           \* audit_logs of a day: how many of each kind, "access" for access.read
  seals,          \* audit_checkpoints: who made it, period_date, prev_hash, day_hash, chain_hash
  job,            \* the daily job of an instance: the day it has calculated, and its row
  done,           \* the instances whose job of today is over
  tampered        \* history: days whose sealed records were changed by nobody's job

trailVars == <<today, rows, seals, job, done, tampered>>

Days   == 1..LastDay
Kinds  == {"access", "change"}
NoSeal == [by |-> "nobody", day |-> 0, prev |-> << >>, digest |-> [k \in Kinds |-> 0], chain |-> << >>]

SealOf(d) == {s \in seals : s.day = d}
Sealed(d) == SealOf(d) # {}

Init ==
  /\ today = 1
  /\ rows = [d \in Days |-> [k \in Kinds |-> 0]]
  /\ seals = {}
  /\ job = [i \in Instances |-> NoSeal]
  /\ done = {}
  /\ tampered = {}

\* A record is dated by the database when it is written.
Write(k) ==
  /\ rows[today][k] < MaxRows
  /\ rows' = [rows EXCEPT ![today][k] = @ + 1]
  /\ UNCHANGED <<today, seals, job, done, tampered>>

Midnight ==
  /\ today < LastDay
  /\ today' = today + 1
  /\ done' = {}
  /\ job' = [i \in Instances |-> NoSeal]
  /\ UNCHANGED <<rows, seals, tampered>>

\* The chain value of the last checkpoint before d, empty if there is none.
ChainBefore(d) ==
  LET earlier == {s \in seals : s.day < d}
  IN IF earlier = {} THEN << >>
     ELSE (CHOOSE s \in earlier : \A t \in earlier : t.day <= s.day).chain

\* Mutant of Target: the day that is not over is sealed.
TargetToday == today

\* The day of the checkpoint is the day before.
Target == today - 1

\* checkpoint: the statement calculates in its snapshot, and writes nothing if the
\* day is there; an instance that is down at twenty past midnight does not run it.
Calculate(i) ==
  /\ i \notin done /\ job[i] = NoSeal
  /\ Target > 0
  /\ IF Sealed(Target)
     THEN done' = done \cup {i} /\ UNCHANGED job
     ELSE /\ job' = [job EXCEPT ![i] =
               [by |-> i, day |-> Target, prev |-> ChainBefore(Target), digest |-> rows[Target],
                chain |-> Append(ChainBefore(Target), rows[Target])]]
          /\ UNCHANGED done
  /\ UNCHANGED <<today, rows, seals, tampered>>

\* Mutant of Insert: without the unique index both instances seal the day.
InsertTwice(i) ==
  /\ job[i] # NoSeal
  /\ seals' = seals \cup {job[i]}
  /\ job' = [job EXCEPT ![i] = NoSeal]
  /\ done' = done \cup {i}
  /\ UNCHANGED <<today, rows, tampered>>

\* The row is written, or fails on the unique period_date.
Insert(i) ==
  /\ job[i] # NoSeal
  /\ seals' = IF Sealed(job[i].day) THEN seals ELSE seals \cup {job[i]}
  /\ job' = [job EXCEPT ![i] = NoSeal]
  /\ done' = done \cup {i}
  /\ UNCHANGED <<today, rows, tampered>>

\* scripts/audit-retention.ts --apply.
Retain(d) ==
  /\ d < today - Retention
  /\ rows[d]["access"] > 0
  /\ rows' = [rows EXCEPT ![d]["access"] = 0]
  /\ UNCHANGED <<today, seals, job, done, tampered>>

\* A record of a sealed day is removed past the application.
Tamper(d) ==
  /\ Sealed(d)
  /\ rows[d]["change"] > 0
  /\ rows' = [rows EXCEPT ![d]["change"] = @ - 1]
  /\ tampered' = tampered \cup {d}
  /\ UNCHANGED <<today, seals, job, done>>

Next ==
  \/ \E k \in Kinds : Write(k)
  \/ Midnight
  \/ \E i \in Instances : Calculate(i) \/ Insert(i)
  \/ \E d \in Days : Retain(d) \/ Tamper(d)

Spec == Init /\ [][Next]_trailVars

\* Mutant of Alarm: a day without records is taken for one that was archived.
AlarmUnlessEmpty(s) ==
  \/ s.digest # rows[s.day] /\ \E k \in Kinds : rows[s.day][k] > 0
  \/ s.chain # Append(s.prev, s.digest)

\* RI-7 reports the checkpoint.
Alarm(s) == s.digest # rows[s.day] \/ s.chain # Append(s.prev, s.digest)

TypeOK ==
  /\ today \in Days
  /\ rows \in [Days -> [Kinds -> 0..MaxRows]]
  /\ \A s \in seals : s.day \in Days /\ s.digest \in [Kinds -> 0..MaxRows]
  /\ \A i \in Instances : job[i].day \in 0..LastDay
  /\ done \subseteq Instances
  /\ tampered \subseteq Days

\* However the jobs of the instances overlap and whatever days they miss, a day has
\* one checkpoint, and each goes on from the one before it: a chain without branches
\* (checkpoint.service 11-13).
OneChain ==
  \A s \in seals :
    /\ \A t \in seals : s.day = t.day => s = t
    /\ s.prev = ChainBefore(s.day)

\* A change to a sealed day is reported from then on (checkpoint.service 8-9).
TamperingIsReported == \A d \in tampered : \A s \in SealOf(d) : Alarm(s)

\* Nothing else is reported: neither records that come in late nor two jobs at once;
\* but for the retention of access records, which the digests cover.
NoAlarmWithoutChange ==
  \A s \in seals :
    Alarm(s) => s.day \in tampered \/ s.day < today - Retention

\* The chain and the alarm are right.
AuditHolds == TypeOK /\ OneChain /\ TamperingIsReported /\ NoAlarmWithoutChange
=============================================================================
