------------------------------- MODULE Outbox -------------------------------
(***************************************************************************)
(* The outbox of the board: events committed with the work that caused     *)
(* them, ticks that claim a batch of them in one committed statement, and  *)
(* the notifications that their consumer makes of them, one recipient      *)
(* after the other.  Ticks of several instances, or of one instance whose  *)
(* last tick is not over, run at the same time.                            *)
(***************************************************************************)
EXTENDS Integers, FiniteSets

CONSTANTS
  Events,        \* numbers, in the order of created_at
  Recipients,    \* who is told of an event: recipientsFor
  Ticks,
  Batch,         \* BATCH
  MaxAttempts,   \* MAX_ATTEMPTS
  MaxFaults      \* bound: crashes and failing statements

ASSUME OutboxAssumption ==
  /\ 0 \notin Events
  /\ MaxAttempts \in Nat \ {0}
  /\ MaxFaults \in Nat

VARIABLES
  poison,        \* environment: events whose consumption always fails
  row,           \* board_outbox_events: none, pending or processed, and attempts
  tick,          \* the ticks: rows claimed, the one in hand, who is still to be told
  notes,         \* board_notifications of an event and a recipient: how many rows
  faults,        \* how many faults so far
  dropped        \* history: events that a fault has left processed and undelivered

outboxVars == <<poison, row, tick, notes, faults, dropped>>

NoEvent == 0
AtRest  == [claimed |-> {}, event |-> NoEvent, todo |-> {}]
Pending == {e \in Events : row[e].at = "pending"}
Told(e) == \A r \in Recipients : notes[e][r] > 0
HeldBy(t) == tick[t].claimed \cup ({tick[t].event} \ {NoEvent})
Held(e) == \E t \in Ticks : e \in HeldBy(t)

Init ==
  /\ poison \in SUBSET Events
  /\ row = [e \in Events |-> [at |-> "none", attempts |-> 0]]
  /\ tick = [t \in Ticks |-> AtRest]
  /\ notes = [e \in Events |-> [r \in Recipients |-> 0]]
  /\ faults = 0
  /\ dropped = {}

\* The event is committed with the work it tells of.
Publish(e) ==
  /\ row[e].at = "none" /\ \A d \in Events : d < e => row[d].at # "none"
  /\ row' = [row EXCEPT ![e].at = "pending"]
  /\ UNCHANGED <<poison, tick, notes, faults, dropped>>

\* The oldest of the pending.
Oldest(es) ==
  /\ es \subseteq Pending
  /\ Cardinality(es) = IF Cardinality(Pending) < Batch THEN Cardinality(Pending) ELSE Batch
  /\ \A e \in es, d \in Pending \ es : e < d

\* Mutant of Claim: the rows are only selected, and marked when they were consumed.
ClaimUnmarked(t) ==
  /\ tick[t] = AtRest
  /\ Pending # {}
  /\ \E es \in SUBSET Events : Oldest(es) /\ tick' = [tick EXCEPT ![t].claimed = es]
  /\ UNCHANGED <<poison, row, notes, faults, dropped>>

\* UPDATE ... RETURNING with SKIP LOCKED: claimed rows are processed rows.
Claim(t) ==
  /\ tick[t] = AtRest
  /\ Pending # {}
  /\ \E es \in SUBSET Events :
       /\ Oldest(es)
       /\ tick' = [tick EXCEPT ![t].claimed = es]
       /\ row' = [e \in Events |-> IF e \in es THEN [row[e] EXCEPT !.at = "processed"] ELSE row[e]]
  /\ UNCHANGED <<poison, notes, faults, dropped>>

\* The rows come in no order.
Take(t, e) ==
  /\ tick[t].event = NoEvent
  /\ e \in tick[t].claimed
  /\ tick' = [tick EXCEPT ![t] = [claimed |-> @.claimed \ {e}, event |-> e, todo |-> Recipients]]
  /\ UNCHANGED <<poison, row, notes, faults, dropped>>

\* Mutant of Tell: without the unique index every delivery makes a row.
TellAgain(t, r) ==
  /\ tick[t].event \notin poison
  /\ r \in tick[t].todo
  /\ notes' = [notes EXCEPT ![tick[t].event][r] = @ + 1]
  /\ tick' = [tick EXCEPT ![t].todo = @ \ {r}]
  /\ UNCHANGED <<poison, row, faults, dropped>>

\* A recipient who has the notification of this event gets no second one (P2002).
Tell(t, r) ==
  /\ tick[t].event \notin poison
  /\ r \in tick[t].todo
  /\ notes' = [notes EXCEPT ![tick[t].event][r] = 1]
  /\ tick' = [tick EXCEPT ![t].todo = @ \ {r}]
  /\ UNCHANGED <<poison, row, faults, dropped>>

Finish(t) ==
  /\ tick[t].event # NoEvent
  /\ tick[t].todo = {}
  /\ tick' = [tick EXCEPT ![t].event = NoEvent]
  /\ UNCHANGED <<poison, row, notes, faults, dropped>>

\* Mutant of GiveBack: a failed event is never given up.
GiveBackAlways(t) ==
  LET e == tick[t].event
  IN /\ row' = [row EXCEPT ![e] = [at |-> "pending", attempts |-> @.attempts]]
     /\ tick' = [tick EXCEPT ![t] = [@ EXCEPT !.event = NoEvent, !.todo = {}]]
     /\ UNCHANGED <<poison, notes>>

\* Mutant of GiveBack: off by one, the last attempt is not made.
GiveUpEarly(t) ==
  LET e == tick[t].event
      n == row[e].attempts + 1
  IN /\ row' = [row EXCEPT ![e] = [at |-> IF n >= MaxAttempts - 1 THEN "processed" ELSE "pending", attempts |-> n]]
     /\ tick' = [tick EXCEPT ![t] = [@ EXCEPT !.event = NoEvent, !.todo = {}]]
     /\ UNCHANGED <<poison, notes>>

\* The event goes back, or is given up after too many attempts; the rows behind it
\* are consumed all the same.
GiveBack(t) ==
  LET e == tick[t].event
      n == row[e].attempts + 1
  IN /\ row' = [row EXCEPT ![e] = [at |-> IF n >= MaxAttempts THEN "processed" ELSE "pending", attempts |-> n]]
     /\ tick' = [tick EXCEPT ![t] = [@ EXCEPT !.event = NoEvent, !.todo = {}]]
     /\ UNCHANGED <<poison, notes>>

\* A poisoned event fails, and any event whose consumer meets a fault.
Fail(t) ==
  /\ tick[t].event # NoEvent /\ tick[t].todo # {}
  /\ tick[t].event \in poison
  /\ GiveBack(t)
  /\ UNCHANGED <<faults, dropped>>

Fault(t) ==
  /\ tick[t].event # NoEvent /\ tick[t].todo # {}
  /\ faults < MaxFaults
  /\ faults' = faults + 1
  /\ GiveBack(t)
  /\ UNCHANGED dropped

\* The statement that gives the event back fails too, and nobody hears of it.
FaultUnheard(t) ==
  /\ tick[t].event # NoEvent /\ tick[t].todo # {}
  /\ faults < MaxFaults
  /\ faults' = faults + 1
  /\ tick' = [tick EXCEPT ![t] = [@ EXCEPT !.event = NoEvent, !.todo = {}]]
  /\ dropped' = dropped \cup {tick[t].event}
  /\ UNCHANGED <<poison, row, notes>>

\* The process dies: what it had claimed stays processed.
Crash(t) ==
  /\ HeldBy(t) # {}
  /\ faults < MaxFaults
  /\ faults' = faults + 1
  /\ tick' = [tick EXCEPT ![t] = AtRest]
  /\ dropped' = dropped \cup HeldBy(t)
  /\ UNCHANGED <<poison, row, notes>>

Run(t) ==
  \/ Claim(t)
  \/ \E e \in Events : Take(t, e)
  \/ \E r \in Recipients : Tell(t, r)
  \/ Finish(t)
  \/ Fail(t)

Next ==
  \/ \E e \in Events : Publish(e)
  \/ \E t \in Ticks : Run(t) \/ Fault(t) \/ FaultUnheard(t) \/ Crash(t)

\* @Interval(5_000), and a tick goes on to its end.
Fairness == \A t \in Ticks : WF_outboxVars(Run(t))

Spec == Init /\ [][Next]_outboxVars /\ Fairness

TypeOK ==
  /\ poison \subseteq Events /\ dropped \subseteq Events
  /\ row \in [Events -> [at : {"none", "pending", "processed"}, attempts : 0..MaxAttempts]]
  /\ tick \in [Ticks -> [claimed : SUBSET Events, event : Events \cup {NoEvent}, todo : SUBSET Recipients]]
  /\ notes \in [Events -> [Recipients -> Nat]]
  /\ faults \in 0..MaxFaults

\* However ticks overlap, fail and come back to an event, one tick at a time has it
\* in hand (SKIP LOCKED, event-bus 60).
OneTickPerEvent ==
  \A t, u \in Ticks : t # u => HeldBy(t) \cap HeldBy(u) = {}

\* A recipient is told of an event once, retries included (notification.service 44-62).
ToldOnce == \A e \in Events, r \in Recipients : notes[e][r] <= 1

\* An event is left alone undelivered only after MAX_ATTEMPTS attempts, or through a
\* crash or a failing write.
NothingIsForgotten ==
  \A e \in Events :
    row[e].at = "processed" /\ ~Held(e) /\ e \notin dropped =>
      Told(e) \/ row[e].attempts = MaxAttempts

\* Ticks share the events, and every recipient hears of each of them once.
Delivery == OneTickPerEvent /\ ToldOnce /\ NothingIsForgotten

\* When no more events come all of them are delivered or given up: none that cannot
\* be consumed keeps another waiting for ever.
EventsSettle == <>[](\A e \in Events : row[e].at # "pending" /\ ~Held(e))
=============================================================================
