---------------------------- MODULE BoardProofs ----------------------------
(***************************************************************************)
(* Proofs about the parts of MCBoard: the delivery of events (Outbox) for  *)
(* any events, recipients, ticks, batch, and limits of attempts and of     *)
(* faults; the comments (C), the posts under moderation (P) and the count  *)
(* of the views (V) for any finite sets and any bounds.                    *)
(***************************************************************************)
EXTENDS MCBoard, FiniteSetTheorems, TLAPS

\* A claimed event is marked and has an attempt left.
Marked ==
  \A e \in Events :
    /\ row[e].at # "processed" => row[e].attempts < MaxAttempts
    /\ Held(e) => row[e].at = "processed" /\ row[e].attempts < MaxAttempts

\* Of the event in hand all have been told but those still to be told.
Underway ==
  \A t \in Ticks :
    /\ tick[t].event \notin tick[t].claimed
    /\ tick[t].event # NoEvent =>
         \A r \in Recipients \ tick[t].todo : notes[tick[t].event][r] > 0

\* The inductive invariant.
IInv ==
  /\ TypeOK
  /\ OneTickPerEvent
  /\ ToldOnce
  /\ NothingIsForgotten
  /\ Marked
  /\ Underway

-----------------------------------------------------------------------------
(* Types                                                                   *)

Row  == [at : {"none", "pending", "processed"}, attempts : 0..MaxAttempts]
Tick == [claimed : SUBSET Events, event : Events \cup {NoEvent}, todo : SUBSET Recipients]

\* What a tick holds, once it is known.
LEMMA HeldIsEvents ==
  ASSUME TypeOK, NEW t \in Ticks
  PROVE  /\ tick[t] \in Tick
         /\ HeldBy(t) \subseteq Events
         /\ tick[t].event # NoEvent => tick[t].event \in Events /\ tick[t].event \in HeldBy(t)
         /\ tick[t].claimed \subseteq HeldBy(t)
BY OutboxAssumption DEF TypeOK, Tick, HeldBy, NoEvent

\* The invariant holds at the beginning.
LEMMA InitIInv == Init => IInv
<1> SUFFICES ASSUME Init PROVE IInv
    OBVIOUS
<1> USE OutboxAssumption
<1>1. TypeOK
    BY DEF Init, TypeOK, AtRest, NoEvent
<1>2. \A t \in Ticks : HeldBy(t) = {}
    BY DEF Init, HeldBy, AtRest
<1>3. OneTickPerEvent
    BY <1>2 DEF OneTickPerEvent
<1>4. ToldOnce
    BY DEF Init, ToldOnce
<1>5. NothingIsForgotten
    BY DEF Init, NothingIsForgotten
<1>6. Marked
    BY <1>2 DEF Init, Marked, Held
<1>7. Underway
    BY DEF Init, Underway, AtRest, NoEvent
<1> QED
    BY <1>1, <1>3, <1>4, <1>5, <1>6, <1>7 DEF IInv

-----------------------------------------------------------------------------
(* The steps                                                               *)

\* Publishing touches an event that nobody holds.
LEMMA PublishKeeps ==
  ASSUME IInv, NEW e \in Events, Publish(e)
  PROVE  IInv'
<1> USE OutboxAssumption DEF IInv
<1>1. TypeOK'
    BY DEF Publish, TypeOK
<1>2. \A t : HeldBy(t)' = HeldBy(t)
    BY DEF Publish, HeldBy
<1>3. \A d : Held(d)' <=> Held(d)
    BY <1>2 DEF Held
<1>4. \A d \in Events : /\ row'[d].attempts = row[d].attempts
                        /\ d # e => row'[d] = row[d]
    BY DEF Publish, TypeOK
<1>5. row[e].at = "none" /\ row'[e].at = "pending"
    BY DEF Publish, TypeOK
<1>6. OneTickPerEvent'
    BY <1>2 DEF OneTickPerEvent
<1>7. ToldOnce'
    BY DEF Publish, ToldOnce
<1>8. NothingIsForgotten'
  <2> SUFFICES ASSUME NEW d \in Events, row'[d].at = "processed", ~Held(d)', d \notin dropped'
               PROVE  Told(d)' \/ row'[d].attempts = MaxAttempts
      BY DEF NothingIsForgotten
  <2>1. d # e /\ row'[d] = row[d]
      BY <1>4, <1>5
  <2>2. Told(d) \/ row[d].attempts = MaxAttempts
      BY <2>1, <1>3 DEF Publish, NothingIsForgotten
  <2> QED
      BY <2>1, <2>2 DEF Publish, Told
<1>9. Marked'
    BY <1>3, <1>4, <1>5 DEF Marked
<1>10. Underway'
    BY DEF Publish, Underway
<1> QED
    BY <1>1, <1>6, <1>7, <1>8, <1>9, <1>10

\* The rows a tick claims were pending, so that nobody held them.
LEMMA ClaimKeeps ==
  ASSUME IInv, NEW t \in Ticks, Claim(t)
  PROVE  IInv'
<1> USE OutboxAssumption DEF IInv
<1> PICK es \in SUBSET Events :
      /\ es \subseteq Pending
      /\ tick' = [tick EXCEPT ![t].claimed = es]
      /\ row' = [e \in Events |-> IF e \in es THEN [row[e] EXCEPT !.at = "processed"] ELSE row[e]]
    BY DEF Claim, Oldest
<1>1. TypeOK'
  <2>1. row' \in [Events -> Row]
    <3>1. row \in [Events -> Row]
        BY DEF TypeOK, Row
    <3>2. \A e \in Events : [row[e] EXCEPT !.at = "processed"] \in Row
        BY <3>1 DEF Row
    <3> QED
        BY <3>1, <3>2
  <2>2. tick' \in [Ticks -> Tick]
    <3>1. tick \in [Ticks -> Tick]
        BY DEF TypeOK, Tick
    <3>2. [tick[t] EXCEPT !.claimed = es] \in Tick
        BY <3>1 DEF Tick
    <3> QED
        BY <3>1, <3>2
  <2> QED
      BY <2>1, <2>2 DEF Claim, TypeOK, Row, Tick
<1>2. HeldBy(t)' = es /\ \A u \in Ticks \ {t} : HeldBy(u)' = HeldBy(u)
    BY DEF Claim, TypeOK, HeldBy, AtRest, NoEvent
<1>3. \A d \in Events : Held(d)' => Held(d) \/ d \in es
    BY <1>2 DEF Held
<1>4. \A d \in Events : Held(d) => Held(d)'
  <2>1. HeldBy(t) = {}
      BY DEF Claim, HeldBy, AtRest, NoEvent
  <2> QED
      BY <2>1, <1>2 DEF Held
<1>5. \A d \in Events :
        /\ row'[d].attempts = row[d].attempts
        /\ d \in es => row[d].at = "pending" /\ row'[d].at = "processed" /\ Held(d)'
        /\ d \notin es => row'[d] = row[d]
    BY <1>2 DEF TypeOK, Pending, Held
<1>6. \A d \in es : ~Held(d)
    BY <1>5 DEF Marked
<1>7. OneTickPerEvent'
  <2> SUFFICES ASSUME NEW u \in Ticks, NEW v \in Ticks, u # v
               PROVE  HeldBy(u)' \cap HeldBy(v)' = {}
      BY DEF OneTickPerEvent
  <2>1. \A w \in Ticks : HeldBy(w) \cap es = {}
      BY <1>6 DEF Held
  <2> QED
      BY <2>1, <1>2 DEF OneTickPerEvent
<1>8. ToldOnce'
    BY DEF Claim, ToldOnce
<1>9. NothingIsForgotten'
  <2> SUFFICES ASSUME NEW d \in Events, row'[d].at = "processed", ~Held(d)', d \notin dropped'
               PROVE  Told(d)' \/ row'[d].attempts = MaxAttempts
      BY DEF NothingIsForgotten
  <2>1. row'[d] = row[d] /\ ~Held(d)
      BY <1>4, <1>5
  <2>2. Told(d) \/ row[d].attempts = MaxAttempts
      BY <2>1 DEF Claim, NothingIsForgotten
  <2> QED
      BY <2>1, <2>2 DEF Claim, Told
<1>10. Marked'
    BY <1>3, <1>5 DEF Marked
<1>11. Underway'
    BY DEF Claim, Underway, TypeOK, AtRest, NoEvent
<1> QED
    BY <1>1, <1>7, <1>8, <1>9, <1>10, <1>11

\* A tick that takes an event in hand holds what it held.
LEMMA TakeKeeps ==
  ASSUME IInv, NEW t \in Ticks, NEW e \in Events, Take(t, e)
  PROVE  IInv'
<1> USE OutboxAssumption DEF IInv
<1>1. TypeOK'
    BY DEF Take, TypeOK
<1>2. \A u \in Ticks : HeldBy(u)' = HeldBy(u)
    BY DEF Take, TypeOK, HeldBy, NoEvent
<1>3. \A d : Held(d)' <=> Held(d)
    BY <1>2 DEF Held
<1>4. OneTickPerEvent'
    BY <1>2 DEF OneTickPerEvent
<1>5. ToldOnce'
    BY DEF Take, ToldOnce
<1>6. NothingIsForgotten'
    BY <1>3 DEF Take, NothingIsForgotten, Told
<1>7. Marked'
    BY <1>3 DEF Take, Marked
<1>8. Underway'
    BY DEF Take, Underway, TypeOK
<1> QED
    BY <1>1, <1>4, <1>5, <1>6, <1>7, <1>8

\* Telling a recipient makes the one row there is, or finds it.
LEMMA TellKeeps ==
  ASSUME IInv, NEW t \in Ticks, NEW r \in Recipients, Tell(t, r)
  PROVE  IInv'
<1> USE OutboxAssumption DEF IInv
<1> DEFINE e == tick[t].event
<1>1. TypeOK'
  <2>1. notes' \in [Events -> [Recipients -> Nat]]
      BY DEF Tell, TypeOK
  <2>2. tick' \in [Ticks -> Tick]
      BY DEF Tell, TypeOK, Tick
  <2> QED
      BY <2>1, <2>2 DEF Tell, TypeOK, Tick
<1>2. \A u \in Ticks : HeldBy(u)' = HeldBy(u)
    BY DEF Tell, TypeOK, HeldBy
<1>3. \A d : Held(d)' <=> Held(d)
    BY <1>2 DEF Held
<1>4. \A d \in Events, s \in Recipients :
        /\ notes'[d][s] = notes[d][s] \/ notes'[d][s] = 1
        /\ d = e /\ s = r => notes'[d][s] = 1
    BY DEF Tell, TypeOK
<1>5. \A d \in Events, s \in Recipients : notes[d][s] > 0 => notes'[d][s] > 0
    BY <1>4 DEF TypeOK
<1>6. OneTickPerEvent'
    BY <1>2 DEF OneTickPerEvent
<1>7. ToldOnce'
    BY <1>4 DEF ToldOnce, TypeOK
<1>8. NothingIsForgotten'
  <2>1. \A d \in Events : Told(d) => Told(d)'
      BY <1>5 DEF Told
  <2> QED
      BY <2>1, <1>3 DEF Tell, NothingIsForgotten
<1>9. Marked'
    BY <1>3 DEF Tell, Marked
<1>10. Underway'
  <2> SUFFICES ASSUME NEW u \in Ticks
               PROVE  /\ tick'[u].event \notin tick'[u].claimed
                      /\ tick'[u].event # NoEvent =>
                           \A s \in Recipients \ tick'[u].todo : notes'[tick'[u].event][s] > 0
      BY DEF Underway
  <2>1. /\ tick'[u].event = tick[u].event
        /\ tick'[u].claimed = tick[u].claimed
        /\ tick'[u].todo = IF u = t THEN tick[u].todo \ {r} ELSE tick[u].todo
      BY DEF Tell, TypeOK
  <2>2. ASSUME tick[u].event # NoEvent, NEW s \in Recipients \ tick'[u].todo
        PROVE  notes'[tick[u].event][s] > 0
    <3>1. tick[u].event \in Events
        BY <2>2, HeldIsEvents
    <3>2. s \in tick[u].todo => u = t /\ s = r
        BY <2>1, <2>2
    <3>3. s \notin tick[u].todo => notes[tick[u].event][s] > 0
        BY <2>2 DEF Underway
    <3> QED
        BY <3>1, <3>2, <3>3, <1>4, <1>5
  <2> QED
      BY <2>1, <2>2 DEF Underway
<1> QED
    BY <1>1, <1>6, <1>7, <1>8, <1>9, <1>10

-----------------------------------------------------------------------------
(* The steps that let go of events                                         *)

\* Whichever way a tick lets go of events and leaves their rows alone, nothing is
\* forgotten if they were told of or are known to be dropped.
LEMMA LetGo ==
  ASSUME IInv, NEW t \in Ticks, NEW gone \in SUBSET HeldBy(t),
         tick' \in [Ticks -> Tick],
         \A u \in Ticks \ {t} : tick'[u] = tick[u],
         HeldBy(t)' = HeldBy(t) \ gone,
         tick'[t].event = NoEvent, tick'[t].claimed \subseteq tick[t].claimed,
         dropped' \in SUBSET Events, dropped \subseteq dropped',
         \A e \in gone : Told(e) \/ e \in dropped',
         faults' \in 0..MaxFaults,
         UNCHANGED <<poison, row, notes>>
  PROVE  IInv'
<1> USE OutboxAssumption DEF IInv
<1>1. TypeOK'
    BY DEF TypeOK, Tick
<1>2. \A u \in Ticks : HeldBy(u)' \subseteq HeldBy(u)
    BY DEF HeldBy
<1>3. \A d \in Events : Held(d)' => Held(d)
    BY <1>2 DEF Held
<1>4. \A d \in Events : Held(d) /\ ~Held(d)' => d \in gone
  <2> SUFFICES ASSUME NEW d \in Events, Held(d), ~Held(d)' PROVE d \in gone
      OBVIOUS
  <2>1. PICK u \in Ticks : d \in HeldBy(u)
      BY DEF Held
  <2>2. d \notin HeldBy(u)'
      BY DEF Held
  <2>3. u = t
      BY <2>1, <2>2 DEF HeldBy
  <2> QED
      BY <2>1, <2>2, <2>3
<1>5. OneTickPerEvent'
    BY <1>2 DEF OneTickPerEvent
<1>6. ToldOnce'
    BY DEF ToldOnce
<1>7. NothingIsForgotten'
  <2> SUFFICES ASSUME NEW d \in Events, row'[d].at = "processed", ~Held(d)', d \notin dropped'
               PROVE  Told(d)' \/ row'[d].attempts = MaxAttempts
      BY DEF NothingIsForgotten
  <2>1. CASE Held(d)
      BY <2>1, <1>4 DEF Told
  <2>2. CASE ~Held(d)
      BY <2>2 DEF NothingIsForgotten, Told
  <2> QED
      BY <2>1, <2>2
<1>8. Marked'
    BY <1>3 DEF Marked
<1>9. Underway'
    BY DEF Underway, TypeOK, Tick, NoEvent
<1> QED
    BY <1>1, <1>5, <1>6, <1>7, <1>8, <1>9

\* An event that is finished has been told to all.
LEMMA FinishKeeps ==
  ASSUME IInv, NEW t \in Ticks, Finish(t)
  PROVE  IInv'
<1> USE OutboxAssumption DEF IInv
<1> DEFINE e == tick[t].event
<1>1. tick[t] \in Tick /\ e \in Events /\ e \in HeldBy(t)
    BY HeldIsEvents DEF Finish
<1>2. Told(e)
    BY <1>1 DEF Finish, Underway, Told
<1>3. tick' \in [Ticks -> Tick]
    BY DEF Finish, TypeOK, Tick
<1>4. /\ tick'[t].event = NoEvent
      /\ tick'[t].claimed = tick[t].claimed
      /\ \A u \in Ticks \ {t} : tick'[u] = tick[u]
    BY DEF Finish, TypeOK
<1>5. HeldBy(t)' = HeldBy(t) \ {e}
    BY <1>1, <1>4 DEF HeldBy, Underway
<1>6. {e} \in SUBSET HeldBy(t) /\ \A d \in {e} : Told(d)
    BY <1>1, <1>2
<1>7. /\ UNCHANGED <<poison, row, notes>>
      /\ dropped' = dropped /\ dropped \in SUBSET Events
      /\ faults' \in 0..MaxFaults
    BY DEF Finish, TypeOK
<1> HIDE DEF e
<1> QED
    BY <1>3, <1>4, <1>5, <1>6, <1>7, LetGo

\* A write that nobody hears of leaves its event dropped.
LEMMA FaultUnheardKeeps ==
  ASSUME IInv, NEW t \in Ticks, FaultUnheard(t)
  PROVE  IInv'
<1> USE OutboxAssumption DEF IInv
<1> DEFINE e == tick[t].event
<1>1. tick[t] \in Tick /\ e \in Events /\ e \in HeldBy(t)
    BY HeldIsEvents DEF FaultUnheard
<1>3. tick' \in [Ticks -> Tick]
    BY DEF FaultUnheard, TypeOK, Tick
<1>4. /\ tick'[t].event = NoEvent
      /\ tick'[t].claimed = tick[t].claimed
      /\ \A u \in Ticks \ {t} : tick'[u] = tick[u]
    BY DEF FaultUnheard, TypeOK
<1>5. HeldBy(t)' = HeldBy(t) \ {e}
    BY <1>1, <1>4 DEF HeldBy, Underway
<1>6. dropped' = dropped \cup {e} /\ dropped' \in SUBSET Events
    BY <1>1 DEF FaultUnheard, TypeOK
<1>7. faults' \in 0..MaxFaults /\ UNCHANGED <<poison, row, notes>>
    BY DEF FaultUnheard, TypeOK
<1>8. {e} \in SUBSET HeldBy(t)
    BY <1>1
<1> HIDE DEF e
<1> QED
    BY <1>3, <1>4, <1>5, <1>6, <1>7, <1>8, LetGo

\* A crash drops all that the tick held.
LEMMA CrashKeeps ==
  ASSUME IInv, NEW t \in Ticks, Crash(t)
  PROVE  IInv'
<1> USE OutboxAssumption DEF IInv
<1>1. HeldBy(t) \subseteq Events
    BY HeldIsEvents
<1>3. tick' \in [Ticks -> Tick]
    BY DEF Crash, TypeOK, Tick, AtRest
<1>4. /\ tick'[t] = AtRest
      /\ \A u \in Ticks \ {t} : tick'[u] = tick[u]
    BY DEF Crash, TypeOK
<1>5. HeldBy(t)' = HeldBy(t) \ HeldBy(t)
    BY <1>4 DEF HeldBy, AtRest
<1>6. dropped' = dropped \cup HeldBy(t) /\ dropped' \in SUBSET Events
    BY <1>1 DEF Crash, TypeOK
<1>7. faults' \in 0..MaxFaults
    BY DEF Crash, TypeOK
<1>8. tick'[t].event = NoEvent /\ tick'[t].claimed \subseteq tick[t].claimed
    BY <1>4 DEF AtRest
<1> QED
    BY <1>3, <1>4, <1>5, <1>6, <1>7, <1>8, LetGo DEF Crash

\* An event that is given back is pending again, or has had all its attempts.
LEMMA GiveBackKeeps ==
  ASSUME IInv, NEW t \in Ticks, tick[t].event # NoEvent, GiveBack(t),
         faults' \in 0..MaxFaults, dropped' = dropped
  PROVE  IInv'
<1> USE OutboxAssumption DEF IInv
<1> PICK e \in Events : e = tick[t].event
    BY HeldIsEvents
<1> DEFINE n == row[e].attempts + 1
<1>1. tick[t] \in Tick /\ e \in HeldBy(t)
    BY HeldIsEvents
<1>2. Held(e) /\ row[e].attempts \in 0..MaxAttempts /\ n \in 1..MaxAttempts
    BY <1>1 DEF Held, Marked, TypeOK
<1>3. row' = [row EXCEPT ![e] = [at |-> IF n >= MaxAttempts THEN "processed" ELSE "pending", attempts |-> n]]
    BY DEF GiveBack
<1>4. /\ tick' \in [Ticks -> Tick]
      /\ tick'[t].event = NoEvent
      /\ tick'[t].claimed = tick[t].claimed
      /\ \A u \in Ticks \ {t} : tick'[u] = tick[u]
    BY DEF GiveBack, TypeOK, Tick
<1>5. TypeOK'
  <2>1. row' \in [Events -> Row]
      BY <1>1, <1>2, <1>3 DEF TypeOK, Row
  <2> QED
      BY <2>1, <1>4 DEF GiveBack, TypeOK, Tick, Row
<1>6. /\ HeldBy(t)' = HeldBy(t) \ {e}
      /\ \A u \in Ticks \ {t} : HeldBy(u)' = HeldBy(u)
    BY <1>1, <1>4 DEF HeldBy, Underway
<1>7. ~Held(e)' /\ \A d \in Events \ {e} : Held(d)' <=> Held(d)
  <2>1. \A u \in Ticks \ {t} : e \notin HeldBy(u)
      BY <1>1 DEF OneTickPerEvent
  <2>2. \A u \in Ticks : HeldBy(u)' = HeldBy(u) \ {e}
      BY <2>1, <1>6
  <2>3. ~Held(e)'
      BY <2>2 DEF Held
  <2>4. ASSUME NEW d \in Events \ {e} PROVE Held(d)' <=> Held(d)
    <3>1. \A u \in Ticks : d \in HeldBy(u)' <=> d \in HeldBy(u)
        BY <2>2
    <3> QED
        BY <3>1 DEF Held
  <2> QED
      BY <2>3, <2>4
<1>8. /\ row'[e].attempts = n
      /\ row'[e].at = IF n >= MaxAttempts THEN "processed" ELSE "pending"
      /\ \A d \in Events \ {e} : row'[d] = row[d]
    BY <1>1, <1>3 DEF TypeOK
<1>9. OneTickPerEvent'
    BY <1>6 DEF OneTickPerEvent
<1>10. ToldOnce'
    BY DEF GiveBack, ToldOnce
<1>11. NothingIsForgotten'
  <2> SUFFICES ASSUME NEW d \in Events, row'[d].at = "processed", ~Held(d)', d \notin dropped
               PROVE  Told(d)' \/ row'[d].attempts = MaxAttempts
      BY DEF NothingIsForgotten
  <2>1. CASE d = e
      BY <2>1, <1>2, <1>8
  <2>2. CASE d # e
    <3>1. Told(d) \/ row[d].attempts = MaxAttempts
        BY <2>2, <1>7, <1>8 DEF NothingIsForgotten
    <3> QED
        BY <3>1, <2>2, <1>8 DEF GiveBack, Told
  <2> QED
      BY <2>1, <2>2
<1>12. Marked'
  <2> SUFFICES ASSUME NEW d \in Events
               PROVE  /\ row'[d].at # "processed" => row'[d].attempts < MaxAttempts
                      /\ Held(d)' => row'[d].at = "processed" /\ row'[d].attempts < MaxAttempts
      BY DEF Marked
  <2>1. CASE d = e
    <3>1. ~Held(d)'
        BY <2>1, <1>7
    <3> QED
        BY <3>1, <2>1, <1>2, <1>8
  <2>2. CASE d # e
    <3>1. row'[d] = row[d] /\ (Held(d)' <=> Held(d))
        BY <2>2, <1>7, <1>8
    <3> QED
        BY <3>1 DEF Marked
  <2> QED
      BY <2>1, <2>2
<1>13. Underway'
    BY <1>4 DEF GiveBack, Underway, TypeOK, Tick, NoEvent
<1> QED
    BY <1>5, <1>9, <1>10, <1>11, <1>12, <1>13

\* Every step keeps the invariant.
LEMMA NextIInv == IInv /\ [Next]_outboxVars => IInv'
<1> SUFFICES ASSUME IInv, [Next]_outboxVars PROVE IInv'
    OBVIOUS
<1>1. CASE UNCHANGED outboxVars
    BY <1>1 DEF outboxVars, IInv, TypeOK, OneTickPerEvent, ToldOnce, NothingIsForgotten, Marked,
                Underway, Told, Held, HeldBy
<1>2. ASSUME NEW e \in Events, Publish(e) PROVE IInv'
    BY <1>2, PublishKeeps
<1>3. ASSUME NEW t \in Ticks, Run(t) PROVE IInv'
  <2>1. CASE Claim(t)
      BY <2>1, ClaimKeeps
  <2>2. CASE \E e \in Events : Take(t, e)
      BY <2>2, TakeKeeps
  <2>3. CASE \E r \in Recipients : Tell(t, r)
      BY <2>3, TellKeeps
  <2>4. CASE Finish(t)
      BY <2>4, FinishKeeps
  <2>5. CASE Fail(t)
      BY <2>5, GiveBackKeeps DEF Fail, IInv, TypeOK
  <2> QED
      BY <1>3, <2>1, <2>2, <2>3, <2>4, <2>5 DEF Run
<1>4. ASSUME NEW t \in Ticks, Fault(t) PROVE IInv'
  <2>1. faults' \in 0..MaxFaults
      BY <1>4, OutboxAssumption DEF Fault, IInv, TypeOK
  <2> QED
      BY <1>4, <2>1, GiveBackKeeps DEF Fault
<1>5. ASSUME NEW t \in Ticks, FaultUnheard(t) \/ Crash(t) PROVE IInv'
    BY <1>5, FaultUnheardKeeps, CrashKeeps
<1> QED
    BY <1>1, <1>2, <1>3, <1>4, <1>5 DEF Next

-----------------------------------------------------------------------------
(* The theorems                                                            *)

\* The inductive invariant holds in every state.
THEOREM Invariant == Spec => []IInv
<1>1. Init => IInv
    BY InitIInv
<1>2. IInv /\ [Next]_outboxVars => IInv'
    BY NextIInv
<1> QED
    BY <1>1, <1>2, PTL DEF Spec

\* However many ticks overlap, fail and die: no two have an event, no recipient is
\* told twice, and what is left undelivered was given up or dropped (event-bus 56-104).
THEOREM EventsAreDelivered == Spec => []Delivery
<1>1. IInv => Delivery
    BY DEF IInv, Delivery
<1> QED
    BY <1>1, Invariant, PTL

-----------------------------------------------------------------------------
(* The comments.  Another part that moves leaves them alone, but for the   *)
(* calm that all of them share.                                            *)

\* The module's instance counts as this one does.
LEMMA CommentCardinality == ASSUME NEW S PROVE C!Cardinality(S) = Cardinality(S)
BY Zenon DEF C!Cardinality, Cardinality, C!IsFiniteSet, IsFiniteSet

\* A patrol writes a number, and what it counts is one.
LEMMA LiveIsFinite ==
  /\ IsFiniteSet(C!Live)
  /\ C!Cardinality(C!Live) \in Nat
  /\ C!Cardinality(C!Live) = Cardinality(C!Live)
<1>1. IsFiniteSet(C!Live)
  BY BoardAssumption, FS_Subset DEF C!Live
<1> QED
  BY <1>1, CommentCardinality, FS_CardinalityType

CommentMove ==
  \/ C!Next
  \/ UNCHANGED <<solo, commentOnly>> /\ calm' \in {calm, TRUE}

LEMMA PostsOnlyCalm == P!Next => solo' = solo /\ calm' \in {calm, TRUE}
<1>1. P!CalmDown \/ P!Patrol => solo' = solo /\ calm' \in {calm, TRUE}
  BY DEF P!CalmDown, P!Patrol, P!PatrolCounts, P!PatrolWrites
<1>2. \A h \in PostHandlers : P!Commit(h) => solo' = solo /\ calm' \in {calm, TRUE}
  BY DEF P!Commit, P!Publish, P!SoftDelete, P!Moderate, P!CountReports, P!RefuseReport,
         P!CommitReport, P!Judge, P!Resolve, P!Purge
<1>3. \A h, p, s : P!Create(h, p, s) => solo' = solo /\ calm' \in {calm, TRUE}
  BY DEF P!Create
<1>4. \A h, op, p, r, b : P!Begin(h, op, p, r, b) => solo' = solo /\ calm' \in {calm, TRUE}
  BY DEF P!Begin
<1> QED
  BY <1>1, <1>2, <1>3, <1>4 DEF P!Next

LEMMA CommentMoves == [BoardNext]_vars => CommentMove
<1> SUFFICES ASSUME [BoardNext]_vars PROVE CommentMove
  OBVIOUS
<1>1. CASE BoardNext
  BY <1>1, PostsOnlyCalm DEF BoardNext, CommentMove, viewOnly, commentOnly
<1>2. CASE UNCHANGED vars
  BY <1>2 DEF vars, CommentMove, commentOnly
<1> QED
  BY <1>1, <1>2

\* What a deletion, an edit or a purge is about has been written.
Aimed ==
  \A h \in CommentHandlers :
    commentReq[h].op \in {"delete", "counted", "edit", "purge"} =>
      commentReq[h].id \in CommentIds /\ C!Written(commentReq[h].id)

\* One request at a time has a parent's lock, and the number it is going to write is past
\* those of all the comments there.
LocksStand ==
  \A g \in CommentHandlers : commentReq[g].op = "locked" =>
    /\ \A h \in CommentHandlers :
         commentReq[h].op = "locked" /\ commentReq[h].id = commentReq[g].id => h = g
    /\ \A c \in C!Siblings(commentReq[g].id) : C!NotAfter(seq[c], commentReq[g].seq - 1)

PathIInv == C!TypeOK /\ Aimed /\ LocksStand /\ SiblingPathsUnique

LEMMA CommentTypeStep == C!TypeOK /\ CommentMove => C!TypeOK'
<1> SUFFICES ASSUME C!TypeOK, CommentMove PROVE C!TypeOK'
  OBVIOUS
<1> USE DEF C!TypeOK, C!tree, C!Done, C!Resting, C!Parents, C!Ready
<1>1. CASE UNCHANGED <<solo, commentOnly>> /\ calm' \in {calm, TRUE}
  BY <1>1 DEF commentOnly
<1>2. CASE C!Quieten
  BY <1>2 DEF C!Quieten
<1>3. CASE C!CountComments
  BY <1>3, LiveIsFinite DEF C!CountComments
<1>4. CASE C!WriteCount
  BY <1>4 DEF C!WriteCount, C!Nothing
<1>5. CASE C!ClearTombs
  BY <1>5 DEF C!ClearTombs
<1>6. ASSUME NEW h \in CommentHandlers, NEW q \in C!Parents, C!ReadParent(h, q)
      PROVE  C!TypeOK'
  BY <1>6 DEF C!ReadParent
<1>7. ASSUME NEW h \in CommentHandlers, C!LockSiblings(h)
      PROVE  C!TypeOK'
  <2>1. PICK n \in 0..(MaxSiblings + 1) :
          commentReq' = [commentReq EXCEPT ![h].op = "locked", ![h].seq = n + 1]
    BY <1>7 DEF C!LockSiblings
  <2>2. n + 1 \in Nat
    BY BoardAssumption
  <2> HIDE DEF C!Resting
  <2>3. [commentReq[h] EXCEPT !.op = "locked", !.seq = n + 1] \in
          [op : {"idle", "create", "locked", "delete", "counted", "edit", "purge"},
           id : C!Parents, seq : Nat, kids : BOOLEAN]
    BY <2>2
  <2>4. commentReq' = [commentReq EXCEPT ![h] =
          [commentReq[h] EXCEPT !.op = "locked", !.seq = n + 1]]
    BY <2>1
  <2>5. commentReq' \in [CommentHandlers ->
          [op : {"idle", "create", "locked", "delete", "counted", "edit", "purge"},
           id : C!Parents, seq : Nat, kids : BOOLEAN]]
    BY <2>3, <2>4
  <2> QED
    BY <1>7, <2>5 DEF C!LockSiblings
<1>8. ASSUME NEW h \in CommentHandlers, NEW c \in CommentIds, C!Insert(h, c)
      PROVE  C!TypeOK'
  BY <1>8 DEF C!Insert
<1>9. ASSUME NEW h \in CommentHandlers, NEW c \in CommentIds,
             NEW op \in {"delete", "edit", "purge"}, C!Take(h, op, c)
      PROVE  C!TypeOK'
  BY <1>9 DEF C!Take
<1>10. ASSUME NEW h \in CommentHandlers, C!CountKids(h)
       PROVE  C!TypeOK'
  <2> DEFINE some == C!Kids(commentReq[h].id) # {}
  <2>1. commentReq' = [commentReq EXCEPT ![h].op = "counted", ![h].kids = some]
    BY <1>10 DEF C!CountKids
  <2>2. some \in BOOLEAN
    OBVIOUS
  <2> HIDE DEF some
  <2>3. commentReq' \in [CommentHandlers ->
          [op : {"idle", "create", "locked", "delete", "counted", "edit", "purge"},
           id : C!Parents, seq : Nat, kids : BOOLEAN]]
    BY <2>1, <2>2
  <2> QED
    BY <1>10, <2>3 DEF C!CountKids
<1>11. ASSUME NEW h \in CommentHandlers, C!Delete(h)
       PROVE  C!TypeOK'
  <2> DEFINE cut == IF commentReq[h].kids \/ shown[commentReq[h].id] = "tomb" THEN {}
                    ELSE {commentReq[h].id} \cup C!Released(commentReq[h].id)
  <2>1. shown' = [c \in CommentIds |->
          IF c \in cut THEN "cut" ELSE IF c = commentReq[h].id /\ commentReq[h].kids THEN "tomb"
          ELSE shown[c]]
    BY <1>11 DEF C!Delete
  <2> HIDE DEF cut
  <2> QED
    BY <1>11, <2>1 DEF C!Delete
<1>12. ASSUME NEW h \in CommentHandlers, C!Edit(h)
       PROVE  C!TypeOK'
  BY <1>12 DEF C!Edit
<1>13. ASSUME NEW h \in CommentHandlers, C!PurgeComment(h)
       PROVE  C!TypeOK'
  <2>1. shown' \in [CommentIds -> {"none", "live", "tomb", "cut"}]
    BY <1>13 DEF C!PurgeComment
  <2>2. commentCount' \in Int
    BY <1>13 DEF C!PurgeComment
  <2>3. commentReq' \in [CommentHandlers ->
          [op : {"idle", "create", "locked", "delete", "counted", "edit", "purge"},
           id : C!Parents, seq : Nat, kids : BOOLEAN]]
    BY <1>13 DEF C!PurgeComment
  <2> QED
    BY <1>13, <2>1, <2>2, <2>3 DEF C!PurgeComment
<1> HIDE DEF C!TypeOK
<1> QED
  BY <1>1, <1>2, <1>3, <1>4, <1>5, <1>6, <1>7, <1>8, <1>9, <1>10, <1>11, <1>12, <1>13
     DEF CommentMove, C!Next

\* What a deletion cuts above a comment are tombstones.
LEMMA ReleasedAreTombs ==
  ASSUME C!TypeOK, NEW c \in CommentIds
  PROVE  C!Released(c) \subseteq {t \in CommentIds : shown[t] = "tomb"}
<1> DEFINE S == {t \in CommentIds : shown[t] = "tomb"}
<1>1. \A d \in {c} \cup S : C!HeldOnlyBy(d) => parent[d] \in S
  <2> SUFFICES ASSUME NEW d \in {c} \cup S, C!HeldOnlyBy(d) PROVE parent[d] \in S
    OBVIOUS
  <2> QED
    BY DEF C!HeldOnlyBy, C!TypeOK, C!Parents
<1>2. S \in SUBSET CommentIds
  OBVIOUS
<1> HIDE DEF S
<1>3. C!Released(c) \subseteq S
  BY <1>1, <1>2 DEF C!Released
<1> QED
  BY <1>3 DEF S

\* A step that writes no comment and gives no parent's lock moves no path.
LEMMA PathsKeep ==
  ASSUME LocksStand, SiblingPathsUnique,
         parent' = parent, seq' = seq,
         \A c \in CommentIds : shown'[c] # "none" <=> shown[c] # "none",
         \A h \in CommentHandlers :
           commentReq'[h].op = "locked" => commentReq'[h] = commentReq[h]
  PROVE  LocksStand' /\ SiblingPathsUnique'
<1>1. \A q : C!Siblings(q)' = C!Siblings(q)
  BY DEF C!Siblings, C!Written
<1>2. LocksStand'
  BY <1>1 DEF LocksStand, C!NotAfter
<1>3. SiblingPathsUnique'
  BY DEF SiblingPathsUnique, C!SiblingPathsUnique, C!Written
<1> QED
  BY <1>2, <1>3

\* The same of a handler that goes on, or begins, and takes no lock.
LEMMA CallMoves ==
  ASSUME C!TypeOK, NEW h \in CommentHandlers, NEW r,
         commentReq' = [commentReq EXCEPT ![h] = r], r.op # "locked"
  PROVE  \A g \in CommentHandlers :
           /\ commentReq'[g] = IF g = h THEN r ELSE commentReq[g]
           /\ commentReq'[g].op = "locked" => commentReq'[g] = commentReq[g]
BY DEF C!TypeOK

LEMMA PathStep == PathIInv /\ CommentMove => PathIInv'
<1> SUFFICES ASSUME PathIInv, CommentMove PROVE PathIInv'
  OBVIOUS
<1>a. C!TypeOK /\ C!TypeOK'
  BY CommentTypeStep DEF PathIInv
<1>b. Aimed /\ LocksStand /\ SiblingPathsUnique
  BY DEF PathIInv
<1> SUFFICES Aimed' /\ LocksStand' /\ SiblingPathsUnique'
  BY <1>a DEF PathIInv
<1> USE DEF C!tree
<1>1. CASE UNCHANGED <<parent, seq, shown, commentReq>>
  BY <1>1, <1>b, PathsKeep DEF Aimed, C!Written
<1>2. CASE C!ClearTombs
  <2>1. \A c \in CommentIds : shown'[c] # "none" <=> shown[c] # "none"
    BY <1>2, <1>a DEF C!ClearTombs, C!Orphans
  <2> QED
    BY <1>2, <2>1, <1>b, PathsKeep DEF C!ClearTombs, Aimed, C!Written
<1>3. ASSUME NEW h \in CommentHandlers, NEW q \in C!Parents, C!ReadParent(h, q)
      PROVE  Aimed' /\ LocksStand' /\ SiblingPathsUnique'
  <2>1. PICK r : r.op = "create" /\ commentReq' = [commentReq EXCEPT ![h] = r]
    BY <1>3 DEF C!ReadParent, C!Resting
  <2>2. Aimed'
    BY <1>3, <2>1, <1>a, <1>b, CallMoves DEF C!ReadParent, Aimed, C!Written
  <2> QED
    BY <1>3, <2>1, <2>2, <1>a, <1>b, CallMoves, PathsKeep DEF C!ReadParent
<1>4. ASSUME NEW h \in CommentHandlers, C!LockSiblings(h)
      PROVE  Aimed' /\ LocksStand' /\ SiblingPathsUnique'
  <2>1. PICK n \in 0..(MaxSiblings + 1) :
          /\ C!IsLastNumber(commentReq[h].id, n)
          /\ commentReq' = [commentReq EXCEPT ![h].op = "locked", ![h].seq = n + 1]
    BY <1>4 DEF C!LockSiblings
  <2>2. \A g \in CommentHandlers : g # h => commentReq'[g] = commentReq[g]
    BY <2>1, <1>a DEF C!TypeOK
  <2>3. /\ commentReq'[h].op = "locked" /\ commentReq'[h].id = commentReq[h].id
        /\ commentReq'[h].seq = n + 1
    BY <2>1, <1>a DEF C!TypeOK
  <2>4. UNCHANGED <<parent, seq, shown>>
    BY <1>4 DEF C!LockSiblings
  <2>5. Aimed'
    BY <2>2, <2>3, <2>4, <1>b DEF Aimed, C!Written
  <2>6. SiblingPathsUnique'
    BY <2>4, <1>b DEF SiblingPathsUnique, C!SiblingPathsUnique, C!Written
  <2>7. \A q : C!Siblings(q)' = C!Siblings(q)
    BY <2>4 DEF C!Siblings, C!Written
  <2>8. (n + 1) - 1 = n
    BY BoardAssumption
  <2>9. \A c \in C!Siblings(commentReq[h].id) : C!NotAfter(seq[c], n)
    BY <2>1 DEF C!IsLastNumber
  <2>10. ~C!Locked(commentReq[h].id)
    BY <1>4 DEF C!LockSiblings
  <2>11. LocksStand'
    <3> SUFFICES ASSUME NEW g \in CommentHandlers, commentReq'[g].op = "locked"
                 PROVE  /\ \A k \in CommentHandlers :
                             commentReq'[k].op = "locked" /\ commentReq'[k].id = commentReq'[g].id
                             => k = g
                        /\ \A c \in C!Siblings(commentReq'[g].id) :
                             C!NotAfter(seq[c], commentReq'[g].seq - 1)
      BY <2>4, <2>7 DEF LocksStand, C!NotAfter
    <3>1. CASE g = h
      BY <3>1, <2>2, <2>3, <2>8, <2>9, <2>10 DEF C!Locked
    <3>2. CASE g # h
      BY <3>2, <2>2, <2>3, <2>10, <1>b DEF C!Locked, LocksStand
    <3> QED
      BY <3>1, <3>2
  <2> QED
    BY <2>5, <2>6, <2>11
<1>5. ASSUME NEW h \in CommentHandlers, NEW c \in CommentIds, C!Insert(h, c)
      PROVE  Aimed' /\ LocksStand' /\ SiblingPathsUnique'
  <2>1. /\ parent' = [parent EXCEPT ![c] = commentReq[h].id]
        /\ seq' = [seq EXCEPT ![c] = commentReq[h].seq]
        /\ shown' = [shown EXCEPT ![c] = "live"]
        /\ commentReq' = [commentReq EXCEPT ![h] = C!Resting]
        /\ commentReq[h].op = "locked" /\ shown[c] = "none"
    BY <1>5 DEF C!Insert, C!Done, C!Written
  <2>2. \A g \in CommentHandlers :
          /\ commentReq'[g] = IF g = h THEN C!Resting ELSE commentReq[g]
          /\ commentReq'[g].op = "locked" => commentReq'[g] = commentReq[g]
    <3>1. C!Resting.op # "locked"
      BY DEF C!Resting
    <3> QED
      BY <3>1, <2>1, <1>a, CallMoves
  <2>3. C!Resting.op = "idle"
    BY DEF C!Resting
  <2>4. \A d \in CommentIds :
          /\ d # c => parent'[d] = parent[d] /\ seq'[d] = seq[d] /\ shown'[d] = shown[d]
          /\ parent'[c] = commentReq[h].id /\ seq'[c] = commentReq[h].seq /\ shown'[c] = "live"
    BY <2>1, <1>a DEF C!TypeOK
  <2>5. Aimed'
    BY <2>2, <2>3, <2>4, <1>b DEF Aimed, C!Written
  <2>7. LocksStand'
    <3> SUFFICES ASSUME NEW g \in CommentHandlers, commentReq'[g].op = "locked"
                 PROVE  /\ \A k \in CommentHandlers :
                             commentReq'[k].op = "locked" /\ commentReq'[k].id = commentReq'[g].id
                             => k = g
                        /\ \A d \in CommentIds :
                             shown'[d] # "none" /\ parent'[d] = commentReq'[g].id
                             => C!NotAfter(seq'[d], commentReq'[g].seq - 1)
      BY DEF LocksStand, C!NotAfter, C!Siblings, C!Written
    <3>1. g # h /\ commentReq'[g] = commentReq[g]
      BY <2>2, <2>3
    <3>2. commentReq[g].id # commentReq[h].id
      BY <3>1, <2>1, <1>b DEF LocksStand
    <3>3. \A d \in CommentIds :
            shown[d] # "none" /\ parent[d] = commentReq[g].id
            => C!NotAfter(seq[d], commentReq[g].seq - 1)
      BY <3>1, <2>1, <1>b DEF LocksStand, C!Siblings, C!Written
    <3> QED
      BY <3>1, <3>2, <3>3, <2>2, <2>4, <1>b DEF LocksStand
  <2>8. SiblingPathsUnique'
    <3> SUFFICES ASSUME NEW d \in CommentIds, NEW e \in CommentIds, d # e,
                        shown'[d] # "none", shown'[e] # "none",
                        parent'[d] = parent'[e], seq'[d] = seq'[e]
                 PROVE  seq'[d] > MaxSiblings
      BY DEF SiblingPathsUnique, C!SiblingPathsUnique, C!Written
    <3>1. CASE d # c /\ e # c
      BY <3>1, <2>4, <1>b DEF SiblingPathsUnique, C!SiblingPathsUnique, C!Written
    <3>2. ASSUME NEW x \in CommentIds, x # c, shown[x] # "none",
                 parent[x] = commentReq[h].id, seq[x] = commentReq[h].seq
          PROVE  commentReq[h].seq > MaxSiblings
      <4>1. x \in C!Siblings(commentReq[h].id)
        BY <3>2 DEF C!Siblings, C!Written
      <4>2. C!NotAfter(seq[x], commentReq[h].seq - 1)
        BY <4>1, <2>1, <1>b DEF LocksStand
      <4>3. commentReq[h].seq \in Nat
        BY <1>a DEF C!TypeOK
      <4> QED
        BY <4>2, <4>3, <3>2, BoardAssumption DEF C!NotAfter
    <3> QED
      BY <3>1, <3>2, <2>4
  <2> QED
    BY <2>5, <2>7, <2>8
<1>6. ASSUME NEW h \in CommentHandlers, NEW c \in CommentIds,
             NEW op \in {"delete", "edit", "purge"}, C!Take(h, op, c)
      PROVE  Aimed' /\ LocksStand' /\ SiblingPathsUnique'
  <2>1. PICK r : r.op = op /\ r.id = c /\ commentReq' = [commentReq EXCEPT ![h] = r]
    BY <1>6 DEF C!Take, C!Resting
  <2>2. Aimed'
    BY <1>6, <2>1, <1>a, <1>b, CallMoves DEF C!Take, Aimed, C!Written
  <2> QED
    BY <1>6, <2>1, <2>2, <1>a, <1>b, CallMoves, PathsKeep DEF C!Take
<1>7. ASSUME NEW h \in CommentHandlers, C!CountKids(h)
      PROVE  Aimed' /\ LocksStand' /\ SiblingPathsUnique'
  <2> DEFINE r == [commentReq[h] EXCEPT !.op = "counted", !.kids = C!Kids(commentReq[h].id) # {}]
  <2>1. commentReq' = [commentReq EXCEPT ![h] = r] /\ r.op = "counted" /\ r.id = commentReq[h].id
    BY <1>7, <1>a DEF C!CountKids, C!TypeOK
  <2>3. commentReq[h].op = "delete" /\ UNCHANGED <<parent, seq, shown>>
    BY <1>7 DEF C!CountKids
  <2> HIDE DEF r
  <2>2. Aimed'
    BY <2>1, <2>3, <1>a, <1>b, CallMoves DEF Aimed, C!Written
  <2> QED
    BY <2>1, <2>2, <2>3, <1>a, <1>b, CallMoves, PathsKeep
<1>8. ASSUME NEW h \in CommentHandlers, commentReq' = [commentReq EXCEPT ![h] = C!Resting],
             parent' = parent, seq' = seq,
             \A c \in CommentIds : shown'[c] # "none" <=> shown[c] # "none"
      PROVE  Aimed' /\ LocksStand' /\ SiblingPathsUnique'
  <2>1. C!Resting.op = "idle"
    BY DEF C!Resting
  <2>2. Aimed'
    BY <1>8, <2>1, <1>a, <1>b, CallMoves DEF Aimed, C!Written
  <2> QED
    BY <1>8, <2>1, <2>2, <1>a, <1>b, CallMoves, PathsKeep
<1>9. ASSUME NEW h \in CommentHandlers, C!Delete(h)
      PROVE  Aimed' /\ LocksStand' /\ SiblingPathsUnique'
  <2>1. commentReq[h].id \in CommentIds /\ C!Written(commentReq[h].id)
    BY <1>9, <1>b DEF C!Delete, Aimed
  <2>2. C!Released(commentReq[h].id) \subseteq {t \in CommentIds : shown[t] = "tomb"}
    BY <2>1, <1>a, ReleasedAreTombs
  <2>3. \A c \in CommentIds : shown'[c] # "none" <=> shown[c] # "none"
    BY <1>9, <2>1, <2>2 DEF C!Delete, C!Written
  <2> QED
    BY <1>9, <2>3, <1>8 DEF C!Delete, C!Done
<1>10. ASSUME NEW h \in CommentHandlers, C!Edit(h) \/ C!PurgeComment(h)
       PROVE  Aimed' /\ LocksStand' /\ SiblingPathsUnique'
  <2>1. \A c \in CommentIds : shown'[c] # "none" <=> shown[c] # "none"
    BY <1>10, <1>a DEF C!Edit, C!PurgeComment, C!TypeOK
  <2> QED
    BY <1>10, <2>1, <1>8 DEF C!Edit, C!PurgeComment, C!Done
<1> QED
  BY <1>1, <1>2, <1>3, <1>4, <1>5, <1>6, <1>7, <1>9, <1>10
     DEF CommentMove, C!Next, C!Quieten, C!CountComments, C!WriteCount, commentOnly

LEMMA PathInit == BoardInit => PathIInv
<1> SUFFICES ASSUME BoardInit PROVE PathIInv
  OBVIOUS
<1>1. C!Init
  BY DEF BoardInit
<1>2. C!TypeOK
  <2>1. C!Resting \in [op : {"idle", "create", "locked", "delete", "counted", "edit", "purge"},
                        id : C!Parents, seq : Nat, kids : BOOLEAN]
    BY DEF C!Resting, C!Parents
  <2>2. commentReq = [h \in CommentHandlers |-> C!Resting]
    BY <1>1 DEF C!Init
  <2>3. commentReq \in [CommentHandlers ->
          [op : {"idle", "create", "locked", "delete", "counted", "edit", "purge"},
           id : C!Parents, seq : Nat, kids : BOOLEAN]]
    BY <2>1, <2>2
  <2>4. Root \in C!Parents
    BY DEF C!Parents
  <2>5. solo \in BOOLEAN /\ calm \in BOOLEAN /\ pruned \in BOOLEAN
    BY <1>1 DEF C!Init
  <2>6. parent \in [CommentIds -> C!Parents]
    BY <1>1, <2>4 DEF C!Init
  <2>7. seq \in [CommentIds -> Nat]
    BY <1>1 DEF C!Init
  <2>8. shown \in [CommentIds -> {"none", "live", "tomb", "cut"}]
    BY <1>1 DEF C!Init
  <2>9. commentCount \in Int /\ commentRecount \in Nat \cup {C!Nothing}
    BY <1>1 DEF C!Init
  <2> QED
    BY <2>3, <2>5, <2>6, <2>7, <2>8, <2>9 DEF C!TypeOK
<1> QED
  BY <1>1, <1>2 DEF C!Init, PathIInv, Aimed, LocksStand, SiblingPathsUnique,
     C!SiblingPathsUnique, C!Written, C!Resting

\* However creations overlap, two comments under the same parent have different paths,
\* as long as their number fits the digits of a segment (comments.service, the advisory
\* lock on the parent).
THEOREM PathsAreUnique == BoardSpec => []SiblingPathsUnique
<1>1. BoardInit => PathIInv
  BY PathInit
<1>2. PathIInv /\ [BoardNext]_vars => PathIInv'
  BY PathStep, CommentMoves
<1>3. PathIInv => SiblingPathsUnique
  BY DEF PathIInv
<1> QED
  BY <1>1, <1>2, <1>3, PTL DEF BoardSpec

-----------------------------------------------------------------------------
(* The tree of comments, while requests come one at a time: a deletion     *)
(* cuts a comment and the tombstones that only it was holding, and the     *)
(* least set of these is all that has to go.                               *)

\* What a set of tombstones has to have for the loop above c to be over.
Clear(c, S) == \A d \in {c} \cup S : C!HeldOnlyBy(d) => parent[d] \in S

\* The released tombstones are such a set, and each of them was held by one of the others
\* or by c alone.
LEMMA ReleasedAreChain ==
  ASSUME C!TypeOK, NEW c \in CommentIds
  PROVE  /\ C!Released(c) \subseteq {t \in CommentIds : shown[t] = "tomb"}
         /\ Clear(c, C!Released(c))
         /\ \A t \in C!Released(c) :
              \E d \in {c} \cup C!Released(c) : parent[d] = t /\ C!HeldOnlyBy(d)
         /\ \A S \in SUBSET CommentIds : Clear(c, S) => C!Released(c) \subseteq S
<1> DEFINE R == C!Released(c)
           Tombs == {t \in CommentIds : shown[t] = "tomb"}
<1>1. R = {t \in CommentIds : \A S \in SUBSET CommentIds : Clear(c, S) => t \in S}
  BY DEF C!Released, Clear
<1> HIDE DEF R
<1>2. \A S \in SUBSET CommentIds : Clear(c, S) => R \subseteq S
  BY <1>1
<1>3. \A d \in CommentIds : C!HeldOnlyBy(d) => parent[d] \in Tombs
  BY DEF C!HeldOnlyBy, C!TypeOK, C!Parents
<1>4. R \subseteq Tombs
  <2>1. Clear(c, Tombs)
    BY <1>3 DEF Clear
  <2> QED
    BY <1>2, <2>1
<1>5. Clear(c, R)
  <2> SUFFICES ASSUME NEW d \in {c} \cup R, C!HeldOnlyBy(d)
               PROVE  parent[d] \in R
    BY DEF Clear
  <2>1. parent[d] \in CommentIds
    BY <1>1, <1>3
  <2>2. \A S \in SUBSET CommentIds : Clear(c, S) => parent[d] \in S
    BY <1>2 DEF Clear
  <2> QED
    BY <1>1, <2>1, <2>2
<1>6. ASSUME NEW t \in R
      PROVE  \E d \in {c} \cup R : parent[d] = t /\ C!HeldOnlyBy(d)
  <2> SUFFICES ASSUME \A d \in {c} \cup R : ~(parent[d] = t /\ C!HeldOnlyBy(d))
               PROVE  FALSE
    OBVIOUS
  <2>1. Clear(c, R \ {t})
    BY <1>5 DEF Clear
  <2>2. R \ {t} \in SUBSET CommentIds
    BY <1>1
  <2>3. R \subseteq R \ {t}
    BY <1>2, <2>1, <2>2
  <2> QED
    BY <2>3
<1> QED
  BY <1>2, <1>4, <1>5, <1>6 DEF R

\* What is cut has one branch at a time: of two comments that are cut neither stands beside
\* the other under one that stays.
LEMMA CutIsBranch ==
  ASSUME C!TypeOK, NEW c \in CommentIds,
         NEW x \in {c} \cup C!Released(c), NEW y \in {c} \cup C!Released(c),
         parent[x] = parent[y], parent[x] \notin {c} \cup C!Released(c)
  PROVE  x = y
<1> DEFINE R == C!Released(c)
           cut == {c} \cup R
           Down(S) == \A r \in S \cap R : \A d \in cut : parent[d] = r => d \in S
           Below(z) == {w \in cut : \A S \in SUBSET cut : z \in S /\ Down(S) => w \in S}
<1> HIDE DEF R
<1> SUFFICES ASSUME x # y PROVE FALSE
  OBVIOUS
<1>0. x \in cut /\ y \in cut /\ parent[x] \notin R /\ parent[y] \notin R
  BY DEF R
<1>1. ASSUME NEW z \in cut
      PROVE  /\ z \in Below(z) /\ Below(z) \subseteq cut /\ Down(Below(z))
             /\ \A S \in SUBSET cut : z \in S /\ Down(S) => Below(z) \subseteq S
  OBVIOUS
<1> HIDE DEF Below
<1>2. ASSUME NEW z \in cut
      PROVE  c \in Below(z)
  <2> SUFFICES ASSUME c \notin Below(z) PROVE FALSE
    OBVIOUS
  <2> DEFINE B == Below(z)
  <2>1. z \in B /\ Down(B)
    BY <1>1
  <2>2. Clear(c, R) /\ \A S \in SUBSET CommentIds : Clear(c, S) => R \subseteq S
    BY ReleasedAreChain DEF R
  <2>3. R \subseteq CommentIds
    BY ReleasedAreChain DEF R
  <2>4. c \notin B
    OBVIOUS
  <2> HIDE DEF B
  <2>5. Clear(c, R \ B)
    <3> SUFFICES ASSUME NEW d \in {c} \cup (R \ B), C!HeldOnlyBy(d)
                 PROVE  parent[d] \in R \ B
      BY DEF Clear
    <3>1. parent[d] \in R
      BY <2>2 DEF Clear
    <3>2. d \notin B
      BY <2>4
    <3> QED
      BY <2>1, <3>1, <3>2
  <2>6. R \subseteq R \ B
    BY <2>2, <2>3, <2>5
  <2> QED
    BY <2>1, <2>4, <2>6
<1>3. ASSUME NEW d \in Below(y), d # y, \A r \in Below(y) \cap R : parent[d] # r
      PROVE  FALSE
  <2> DEFINE B == Below(y)
  <2>1. y \in B /\ Down(B) /\ B \subseteq cut
    BY <1>0, <1>1
  <2>2. \A S \in SUBSET cut : y \in S /\ Down(S) => B \subseteq S
    BY <1>0, <1>1
  <2>3. \A r \in B \cap R : parent[d] # r
    BY <1>3
  <2>6. d \in B
    OBVIOUS
  <2> HIDE DEF B
  <2>4. Down(B \ {d})
    BY <2>1, <2>3
  <2>5. B \subseteq B \ {d}
    BY <2>1, <2>2, <2>4, <1>3
  <2> QED
    BY <2>5, <2>6
<1>4. x \notin Below(y)
  BY <1>0, <1>3
<1>5. Down(Below(x) \ Below(y))
  <2> SUFFICES ASSUME NEW r \in (Below(x) \ Below(y)) \cap R, NEW d \in cut, parent[d] = r
               PROVE  d \in Below(x) \ Below(y)
    OBVIOUS
  <2>1. d \in Below(x)
    BY <1>0, <1>1
  <2>2. d # y
    BY <1>0
  <2>3. d \notin Below(y)
    BY <1>3, <2>2
  <2> QED
    BY <2>1, <2>3
<1>6. x \in Below(x) \ Below(y) /\ Below(x) \ Below(y) \in SUBSET cut
  BY <1>0, <1>1, <1>4
<1> HIDE DEF Down
<1>7. Below(x) \subseteq Below(x) \ Below(y)
  BY <1>0, <1>1, <1>5, <1>6
<1>8. c \in Below(x) /\ c \in Below(y)
  BY <1>0, <1>2
<1> QED
  BY <1>7, <1>8

\* The tree without the history in front of it.
Tree ==
  \A c \in CommentIds :
    /\ C!InSight(c) /\ parent[c] # Root => C!InSight(parent[c])
    /\ shown[c] = "tomb" => C!Kids(c) # {}

\* A comment that has nothing under it goes, with what it alone was holding.
LEMMA CutKeepsTree ==
  ASSUME C!TypeOK, Tree, NEW c \in CommentIds, shown[c] = "live", C!Kids(c) = {},
         parent' = parent,
         shown' = [d \in CommentIds |-> IF d \in {c} \cup C!Released(c) THEN "cut" ELSE shown[d]]
  PROVE  Tree'
<1> DEFINE R == C!Released(c)
<1>1. /\ R \subseteq {t \in CommentIds : shown[t] = "tomb"} /\ Clear(c, R)
      /\ \A t \in R : \E d \in {c} \cup R : parent[d] = t /\ C!HeldOnlyBy(d)
  BY ReleasedAreChain
<1>2. \A x, y \in {c} \cup R : parent[x] = parent[y] /\ parent[x] \notin {c} \cup R => x = y
  BY CutIsBranch
<1>3. \A d \in CommentIds :
        shown'[d] = IF d \in {c} \cup R THEN "cut" ELSE shown[d]
  OBVIOUS
<1> HIDE DEF R
<1>4. ASSUME NEW d \in CommentIds, C!InSight(d)', parent[d] # Root
      PROVE  C!InSight(parent[d])'
  <2>1. d \notin {c} \cup R /\ C!InSight(d)
    BY <1>3, <1>4 DEF C!InSight
  <2>2. parent[d] \in CommentIds /\ C!InSight(parent[d])
    BY <1>4, <2>1 DEF Tree, C!TypeOK, C!Parents
  <2>3. d \in C!Kids(parent[d])
    BY <2>1 DEF C!Kids, C!Siblings, C!Written, C!InSight
  <2>4. parent[d] # c
    BY <2>3
  <2>5. parent[d] \notin R
    <3> SUFFICES ASSUME parent[d] \in R PROVE FALSE
      OBVIOUS
    <3>1. PICK e \in {c} \cup R : parent[e] = parent[d] /\ C!HeldOnlyBy(e)
      BY <1>1
    <3>2. d = e
      BY <2>3, <3>1 DEF C!HeldOnlyBy
    <3> QED
      BY <2>1, <3>2
  <2> QED
    BY <1>3, <2>2, <2>4, <2>5 DEF C!InSight
<1>5. ASSUME NEW d \in CommentIds, shown'[d] = "tomb"
      PROVE  C!Kids(d)' # {}
  <2>1. d \notin {c} \cup R /\ shown[d] = "tomb"
    BY <1>3, <1>5
  <2>2. C!Kids(d) # {} /\ \A x \in C!Kids(d) : x \in CommentIds /\ parent[x] = d /\ C!InSight(x)
    BY <2>1 DEF Tree, C!Kids, C!Siblings
  <2> SUFFICES ASSUME NEW x \in C!Kids(d), C!Kids(d)' = {}
               PROVE  FALSE
    BY <2>2
  <2>3. C!Kids(d) \subseteq {c} \cup R
    BY <1>3, <2>2 DEF C!Kids, C!Siblings, C!Written, C!InSight
  <2>4. C!Kids(d) \subseteq {x}
    BY <1>2, <2>1, <2>2, <2>3
  <2>5. C!HeldOnlyBy(x)
    BY <2>1, <2>2, <2>4, BoardAssumption DEF C!HeldOnlyBy
  <2>6. parent[x] \in R
    BY <1>1, <2>3, <2>5 DEF Clear
  <2> QED
    BY <2>1, <2>2, <2>6
<1> QED
  BY <1>4, <1>5 DEF Tree

\* While requests come one at a time: the handler that is busy is the only one, the comment
\* it has read is still alive, and the patrol finds the count right.
Undisturbed ==
  /\ commentRecount = C!Nothing
  /\ commentCount = Cardinality(C!Live)
  /\ \A g, h \in CommentHandlers :
       commentReq[g].op # "idle" /\ commentReq[h].op # "idle" => g = h
  /\ \A h \in CommentHandlers :
       commentReq[h].op # "idle" /\ commentReq[h].id # Root => shown[commentReq[h].id] = "live"

\* As long as nobody was purged the tree stands, and a deletion knows what is under its
\* comment.
TreeStands ==
  /\ Tree
  /\ \A h \in CommentHandlers :
       commentReq[h].op = "counted" => (commentReq[h].kids <=> C!Kids(commentReq[h].id) # {})

\* The inductive invariant of what comments keep when requests come one at a time.
CommentIInv == PathIInv /\ (solo => Undisturbed /\ (~pruned => TreeStands))

\* A step that leaves the comments and the counter alone.
LEMMA CallKeeps ==
  ASSUME C!TypeOK, Undisturbed, NEW h \in CommentHandlers, NEW r,
         commentReq' = [commentReq EXCEPT ![h] = r],
         \A g \in CommentHandlers : g # h => commentReq[g].op = "idle",
         r.op # "idle" /\ r.id # Root => shown[r.id] = "live",
         UNCHANGED <<commentRecount, commentCount, shown>>
  PROVE  Undisturbed'
<1>1. \A g \in CommentHandlers : commentReq'[g] = IF g = h THEN r ELSE commentReq[g]
  BY DEF C!TypeOK
<1>2. C!Live' = C!Live
  BY DEF C!Live
<1> QED
  BY <1>1, <1>2 DEF Undisturbed, C!Nothing

LEMMA TreeSame ==
  ASSUME Tree, UNCHANGED <<parent, shown>>
  PROVE  Tree'
BY DEF Tree, C!InSight, C!Kids, C!Siblings, C!Written

LEMMA CommentStep == CommentIInv /\ CommentMove => CommentIInv'
<1> SUFFICES ASSUME CommentIInv, CommentMove PROVE CommentIInv'
  OBVIOUS
<1>a. PathIInv /\ PathIInv' /\ C!TypeOK /\ C!TypeOK' /\ Aimed
  BY PathStep DEF CommentIInv, PathIInv
<1>b. solo' = solo
  BY DEF CommentMove, C!Next, C!Quieten, C!CountComments, C!WriteCount, C!ClearTombs,
         C!ReadParent, C!LockSiblings, C!Insert, C!Take, C!CountKids, C!Delete, C!Edit,
         C!PurgeComment
<1> SUFFICES ASSUME solo PROVE Undisturbed' /\ (~pruned' => TreeStands')
  BY <1>a, <1>b DEF CommentIInv
<1>c. Undisturbed /\ (~pruned => TreeStands)
  BY DEF CommentIInv
<1>d. \A h \in CommentHandlers : commentReq[h].op # "idle" =>
        \A g \in CommentHandlers : g # h => commentReq[g].op = "idle"
  BY <1>c DEF Undisturbed
<1>e. \A c \in CommentIds : c # Root
  BY BoardAssumption
<1> USE DEF C!tree
<1>1. CASE UNCHANGED <<parent, seq, shown, commentCount, commentRecount, commentReq, pruned>>
  <2>1. C!Live' = C!Live
    BY <1>1 DEF C!Live
  <2>2. \A q : C!Kids(q)' = C!Kids(q)
    BY <1>1 DEF C!Kids, C!Siblings, C!Written, C!InSight
  <2>3. Undisturbed'
    BY <1>1, <1>c, <2>1 DEF Undisturbed, C!Nothing
  <2>4. ~pruned' => TreeStands'
    BY <1>1, <1>c, <2>2, TreeSame DEF TreeStands
  <2> QED
    BY <2>3, <2>4
<1>2. CASE C!CountComments \/ C!WriteCount
  BY <1>2, <1>c, LiveIsFinite DEF C!CountComments, C!WriteCount, Undisturbed
<1>3. CASE C!ClearTombs
  <2>1. C!Live' = C!Live
    BY <1>3, <1>a DEF C!ClearTombs, C!Live, C!Orphans
  <2>2. \A c \in CommentIds : shown[c] = "live" => shown'[c] = "live"
    BY <1>3 DEF C!ClearTombs, C!Orphans
  <2>3. Undisturbed'
    BY <1>3, <1>a, <1>c, <2>1, <2>2 DEF C!ClearTombs, Undisturbed, C!TypeOK, C!Parents, C!Nothing
  <2>4. pruned' = pruned /\ ~TreeStands
    BY <1>3 DEF C!ClearTombs, TreeStands, Tree, C!Orphans
  <2> QED
    BY <1>c, <2>3, <2>4
<1>4. ASSUME NEW h \in CommentHandlers, NEW q \in C!Parents, C!ReadParent(h, q)
      PROVE  Undisturbed' /\ (~pruned' => TreeStands')
  <2>1. PICK r : r.op = "create" /\ r.id = q /\ commentReq' = [commentReq EXCEPT ![h] = r]
    BY <1>4 DEF C!ReadParent, C!Resting
  <2>2. \A g \in CommentHandlers : commentReq[g].op = "idle"
    BY <1>4 DEF C!ReadParent, C!Ready
  <2>3. (q # Root => shown[q] = "live") /\ UNCHANGED <<commentRecount, commentCount, parent, shown, pruned>>
    BY <1>4 DEF C!ReadParent
  <2>4. Undisturbed'
    BY <1>a, <1>c, <2>1, <2>2, <2>3, CallKeeps
  <2>5. \A g \in CommentHandlers : commentReq'[g].op # "counted"
    BY <1>a, <2>1, <2>2 DEF C!TypeOK
  <2> QED
    BY <1>c, <2>3, <2>4, <2>5, TreeSame DEF TreeStands
<1>5. ASSUME NEW h \in CommentHandlers, C!LockSiblings(h)
      PROVE  Undisturbed' /\ (~pruned' => TreeStands')
  <2>1. PICK r : r.op = "locked" /\ r.id = commentReq[h].id /\ commentReq' = [commentReq EXCEPT ![h] = r]
    <3>1. PICK n : commentReq' = [commentReq EXCEPT ![h].op = "locked", ![h].seq = n + 1]
      BY <1>5 DEF C!LockSiblings
    <3>2. commentReq' = [commentReq EXCEPT ![h] = [commentReq[h] EXCEPT !.op = "locked", !.seq = n + 1]]
      BY <3>1
    <3> QED
      BY <3>2, <1>a DEF C!TypeOK
  <2>2. commentReq[h].op = "create" /\ UNCHANGED <<commentRecount, commentCount, parent, shown, pruned>>
    BY <1>5 DEF C!LockSiblings
  <2>3. Undisturbed'
    BY <1>a, <1>c, <1>d, <2>1, <2>2, CallKeeps DEF Undisturbed
  <2>4. \A g \in CommentHandlers : commentReq'[g].op # "counted"
    BY <1>a, <1>d, <2>1, <2>2 DEF C!TypeOK
  <2> QED
    BY <1>c, <2>2, <2>3, <2>4, TreeSame DEF TreeStands
<1>6. ASSUME NEW h \in CommentHandlers, NEW c \in CommentIds, C!Insert(h, c)
      PROVE  Undisturbed' /\ (~pruned' => TreeStands')
  <2>1. /\ parent' = [parent EXCEPT ![c] = commentReq[h].id]
        /\ shown' = [shown EXCEPT ![c] = "live"]
        /\ commentReq' = [commentReq EXCEPT ![h] = C!Resting]
        /\ commentCount' = commentCount + 1 /\ UNCHANGED <<commentRecount, pruned>>
        /\ commentReq[h].op = "locked" /\ shown[c] = "none"
    BY <1>6 DEF C!Insert, C!Done, C!Written
  <2>2. \A g \in CommentHandlers : commentReq'[g].op = "idle"
    BY <1>a, <1>d, <2>1 DEF C!TypeOK, C!Resting
  <2>3. \A d \in CommentIds :
          /\ shown'[d] = IF d = c THEN "live" ELSE shown[d]
          /\ parent'[d] = IF d = c THEN commentReq[h].id ELSE parent[d]
    BY <1>a, <2>1 DEF C!TypeOK
  <2>4. commentCount' = Cardinality(C!Live')
    <3>1. C!Live' = C!Live \cup {c} /\ c \notin C!Live
      BY <2>1, <2>3 DEF C!Live
    <3> QED
      BY <1>c, <2>1, <3>1, LiveIsFinite, FS_AddElement DEF Undisturbed
  <2>5. Undisturbed'
    BY <1>c, <2>1, <2>2, <2>4 DEF Undisturbed, C!Nothing
  <2>6. ASSUME TreeStands PROVE Tree'
    <3>1. C!InSight(c)' /\ \A d \in CommentIds : C!InSight(d) => C!InSight(d)' /\ d # c
      BY <2>1, <2>3 DEF C!InSight
    <3>2. \A d \in CommentIds : d # c => (C!InSight(d)' => C!InSight(d))
      BY <2>3 DEF C!InSight
    <3>3. commentReq[h].id # Root => commentReq[h].id \in CommentIds /\ C!InSight(commentReq[h].id)
      BY <1>a, <1>c, <2>1 DEF Undisturbed, C!TypeOK, C!Parents, C!InSight
    <3>4. \A q : C!Kids(q) \subseteq C!Kids(q)'
      BY <2>1, <2>3 DEF C!Kids, C!Siblings, C!Written, C!InSight
    <3>5. \A d \in CommentIds : parent[d] # Root => parent[d] \in CommentIds
      BY <1>a DEF C!TypeOK, C!Parents
    <3>6. \A d \in CommentIds :
            C!InSight(d)' /\ parent'[d] # Root => shown'[parent'[d]] \in {"live", "tomb"}
      <4> SUFFICES ASSUME NEW d \in CommentIds, C!InSight(d)', parent'[d] # Root
                   PROVE  shown'[parent'[d]] \in {"live", "tomb"}
        OBVIOUS
      <4>1. CASE d = c
        BY <4>1, <2>3, <3>1, <3>3 DEF C!InSight
      <4>2. CASE d # c
        BY <4>2, <2>3, <2>6, <3>1, <3>2, <3>5 DEF TreeStands, Tree, C!InSight
      <4> QED
        BY <4>1, <4>2
    <3>7. \A d \in CommentIds : shown'[d] = "tomb" => C!Kids(d)' # {}
      BY <2>3, <2>6, <3>4 DEF TreeStands, Tree
    <3> QED
      BY <3>6, <3>7 DEF Tree, C!InSight
  <2> QED
    BY <1>c, <2>1, <2>2, <2>5, <2>6 DEF TreeStands
<1>7. ASSUME NEW h \in CommentHandlers, NEW c \in CommentIds,
             NEW op \in {"delete", "edit", "purge"}, C!Take(h, op, c)
      PROVE  Undisturbed' /\ (~pruned' => TreeStands')
  <2>1. PICK r : r.op = op /\ r.id = c /\ commentReq' = [commentReq EXCEPT ![h] = r]
    BY <1>7 DEF C!Take, C!Resting
  <2>2. \A g \in CommentHandlers : commentReq[g].op = "idle"
    BY <1>7 DEF C!Take, C!Ready
  <2>3. shown[c] = "live" /\ UNCHANGED <<commentRecount, commentCount, parent, shown, pruned>>
    BY <1>7 DEF C!Take
  <2>4. Undisturbed'
    BY <1>a, <1>c, <2>1, <2>2, <2>3, CallKeeps
  <2>5. \A g \in CommentHandlers : commentReq'[g].op # "counted"
    BY <1>a, <2>1, <2>2 DEF C!TypeOK
  <2> QED
    BY <1>c, <2>3, <2>4, <2>5, TreeSame DEF TreeStands
<1>8. ASSUME NEW h \in CommentHandlers, C!CountKids(h)
      PROVE  Undisturbed' /\ (~pruned' => TreeStands')
  <2> DEFINE r == [commentReq[h] EXCEPT !.op = "counted", !.kids = C!Kids(commentReq[h].id) # {}]
  <2>1. /\ commentReq' = [commentReq EXCEPT ![h] = r] /\ r.op = "counted" /\ r.id = commentReq[h].id
        /\ r.kids = (C!Kids(commentReq[h].id) # {})
    BY <1>8, <1>a DEF C!CountKids, C!TypeOK
  <2>2. commentReq[h].op = "delete" /\ UNCHANGED <<commentRecount, commentCount, parent, shown, pruned>>
    BY <1>8 DEF C!CountKids
  <2> HIDE DEF r
  <2>3. Undisturbed'
    BY <1>a, <1>c, <1>d, <2>1, <2>2, CallKeeps DEF Undisturbed
  <2>4. \A g \in CommentHandlers : commentReq'[g].op = "counted" => g = h /\ commentReq'[g] = r
    BY <1>a, <1>d, <2>1, <2>2 DEF C!TypeOK
  <2>5. \A q : C!Kids(q)' = C!Kids(q)
    BY <2>2 DEF C!Kids, C!Siblings, C!Written, C!InSight
  <2> QED
    BY <1>c, <2>1, <2>2, <2>3, <2>4, <2>5, TreeSame DEF TreeStands
<1>9. ASSUME NEW h \in CommentHandlers, C!Resting.op = "idle", commentReq[h].op # "idle",
             commentReq' = [commentReq EXCEPT ![h] = C!Resting], commentRecount' = commentRecount
      PROVE  /\ \A g \in CommentHandlers : commentReq'[g].op = "idle"
             /\ commentCount' = Cardinality(C!Live') => Undisturbed'
             /\ Tree' => TreeStands'
  <2>1. \A g \in CommentHandlers : commentReq'[g].op = "idle"
    BY <1>9, <1>a, <1>d DEF C!TypeOK
  <2> QED
    BY <1>9, <1>c, <2>1 DEF Undisturbed, TreeStands, C!Nothing
<1>r. C!Resting.op = "idle"
  BY DEF C!Resting
<1>10. ASSUME NEW c \in CommentIds, shown[c] = "live", shown'[c] # "live",
              \A d \in CommentIds : d # c => (shown'[d] = "live" <=> shown[d] = "live"),
              commentCount' = commentCount - 1
       PROVE  commentCount' = Cardinality(C!Live')
  <2>1. C!Live' = C!Live \ {c} /\ c \in C!Live
    BY <1>10 DEF C!Live
  <2> QED
    BY <1>10, <1>c, <2>1, LiveIsFinite, FS_RemoveElement DEF Undisturbed
<1>11. ASSUME NEW h \in CommentHandlers, C!Delete(h)
       PROVE  Undisturbed' /\ (~pruned' => TreeStands')
  <2> DEFINE c == commentReq[h].id
             R == C!Released(c)
  <2>1. /\ commentReq[h].op = "counted" /\ commentReq' = [commentReq EXCEPT ![h] = C!Resting]
        /\ commentCount' = commentCount - 1 /\ UNCHANGED <<parent, commentRecount, pruned>>
    BY <1>11 DEF C!Delete, C!Done
  <2>2. c \in CommentIds /\ shown[c] = "live"
    BY <1>a, <1>c, <1>e, <2>1 DEF Aimed, Undisturbed
  <2>3. commentReq[h].kids \in BOOLEAN
    BY <1>a DEF C!TypeOK
  <2>4. CASE commentReq[h].kids = FALSE
    <3>1. shown' = [d \in CommentIds |-> IF d \in {c} \cup R THEN "cut" ELSE shown[d]]
      BY <1>11, <2>2, <2>4 DEF C!Delete
    <3>2. R \subseteq {t \in CommentIds : shown[t] = "tomb"}
      BY <1>a, <2>2, ReleasedAreTombs
    <3>3. \A d \in CommentIds : shown'[d] = IF d \in {c} \cup R THEN "cut" ELSE shown[d]
      BY <3>1
    <3> HIDE DEF R
    <3>4. commentCount' = Cardinality(C!Live')
      BY <1>10, <2>1, <2>2, <3>2, <3>3
    <3>5. ~pruned => Tree'
      <4> SUFFICES ASSUME ~pruned PROVE Tree'
        OBVIOUS
      <4>1. C!Kids(c) = {}
        BY <1>c, <2>1, <2>4 DEF TreeStands
      <4> QED
        BY <1>a, <1>c, <2>1, <2>2, <3>1, <4>1, CutKeepsTree DEF R, TreeStands
    <3> QED
      BY <1>9, <1>r, <2>1, <3>4, <3>5
  <2>5. CASE commentReq[h].kids = TRUE
    <3>1. \A d \in CommentIds : shown'[d] = IF d = c THEN "tomb" ELSE shown[d]
      BY <1>11, <2>5 DEF C!Delete
    <3>2. commentCount' = Cardinality(C!Live')
      BY <1>10, <2>1, <2>2, <3>1
    <3>3. \A d \in CommentIds : C!InSight(d)' <=> C!InSight(d)
      BY <2>2, <3>1 DEF C!InSight
    <3>4. \A q : C!Kids(q)' = C!Kids(q)
      BY <2>1, <2>2, <3>1, <3>3 DEF C!Kids, C!Siblings, C!Written
    <3>5. \A d \in CommentIds : parent[d] # Root => parent[d] \in CommentIds
      BY <1>a DEF C!TypeOK, C!Parents
    <3>6. ~pruned => C!Kids(c) # {}
      BY <1>c, <2>1, <2>5 DEF TreeStands
    <3>7. ~pruned => Tree'
      BY <1>c, <2>1, <3>1, <3>3, <3>4, <3>5, <3>6 DEF TreeStands, Tree
    <3> QED
      BY <1>9, <1>r, <2>1, <3>2, <3>7
  <2> QED
    BY <2>3, <2>4, <2>5
<1>12. ASSUME NEW h \in CommentHandlers, C!Edit(h)
       PROVE  Undisturbed' /\ (~pruned' => TreeStands')
  <2>1. /\ commentReq[h].op = "edit" /\ commentReq' = [commentReq EXCEPT ![h] = C!Resting]
        /\ UNCHANGED <<parent, commentCount, commentRecount, pruned>>
    BY <1>12 DEF C!Edit, C!Done
  <2>2. commentReq[h].id \in CommentIds /\ shown[commentReq[h].id] = "live"
    BY <1>a, <1>c, <1>e, <2>1 DEF Aimed, Undisturbed
  <2>3. shown' = shown
    BY <1>12, <1>a, <2>2 DEF C!Edit, C!TypeOK
  <2>4. C!Live' = C!Live
    BY <2>3 DEF C!Live
  <2> QED
    BY <1>9, <1>r, <1>c, <2>1, <2>3, <2>4, TreeSame DEF Undisturbed, TreeStands
<1>13. ASSUME NEW h \in CommentHandlers, C!PurgeComment(h)
       PROVE  Undisturbed' /\ (~pruned' => TreeStands')
  <2>1. /\ commentReq[h].op = "purge" /\ commentReq' = [commentReq EXCEPT ![h] = C!Resting]
        /\ commentCount' = commentCount - 1 /\ UNCHANGED <<parent, commentRecount>> /\ pruned'
    BY <1>13 DEF C!PurgeComment, C!Done
  <2>2. commentReq[h].id \in CommentIds /\ shown[commentReq[h].id] = "live"
    BY <1>a, <1>c, <1>e, <2>1 DEF Aimed, Undisturbed
  <2>3. \A d \in CommentIds : shown'[d] = IF d = commentReq[h].id THEN "cut" ELSE shown[d]
    BY <1>13, <1>a, <2>2 DEF C!PurgeComment, C!TypeOK
  <2>4. commentCount' = Cardinality(C!Live')
    BY <1>10, <2>1, <2>2, <2>3
  <2> QED
    BY <1>9, <1>r, <2>1, <2>4
<1> HIDE DEF C!tree
<1>14. CASE UNCHANGED <<solo, commentOnly>>
  BY <1>14, <1>1 DEF commentOnly
<1>15. CASE C!Quieten
  BY <1>15, <1>1 DEF C!Quieten, C!tree
<1> QED
  BY <1>2, <1>3, <1>4, <1>5, <1>6, <1>7, <1>8, <1>11, <1>12, <1>13, <1>14, <1>15
     DEF CommentMove, C!Next

LEMMA CommentInvariant == BoardSpec => []CommentIInv
<1>1. BoardInit => CommentIInv
  <2> SUFFICES ASSUME BoardInit PROVE CommentIInv
    OBVIOUS
  <2>1. C!Init
    BY DEF BoardInit
  <2>2. PathIInv
    BY PathInit
  <2>3. C!Live = {}
    BY <2>1 DEF C!Init, C!Live
  <2>4. Undisturbed
    BY <2>1, <2>3, FS_EmptySet DEF C!Init, Undisturbed, C!Resting
  <2>5. TreeStands
    BY <2>1 DEF C!Init, TreeStands, Tree, C!InSight, C!Resting
  <2> QED
    BY <2>2, <2>4, <2>5 DEF CommentIInv
<1>2. CommentIInv /\ [BoardNext]_vars => CommentIInv'
  BY CommentStep, CommentMoves
<1> QED
  BY <1>1, <1>2, PTL DEF BoardSpec

\* Requests one at a time and nobody purged: what is in sight hangs on something in sight,
\* and a tombstone is there because something hangs on it (comments.service softDelete).
THEOREM TreeStandsWhole == BoardSpec => []TreeHolds
<1>1. CommentIInv => TreeHolds
  BY DEF CommentIInv, TreeStands, Tree, TreeHolds, C!TreeHolds
<1> QED
  BY <1>1, CommentInvariant, PTL

\* The counter of comments, which CountersExact is about, with that of the posts below.
LEMMA CommentsCounted == CommentIInv => C!CommentCountIsExact
BY LiveIsFinite DEF CommentIInv, Undisturbed, C!CommentCountIsExact

-----------------------------------------------------------------------------
(* The posts.  Another part that moves leaves them alone, but for the calm *)
(* that all of them share.                                                 *)

\* The module's instance counts as this one does.
LEMMA PostCardinality == ASSUME NEW S PROVE P!Cardinality(S) = Cardinality(S)
BY Zenon DEF P!Cardinality, Cardinality, P!IsFiniteSet, IsFiniteSet

LEMMA OpenIsFinite ==
  ASSUME NEW p
  PROVE  /\ IsFiniteSet(P!Open(p))
         /\ P!Cardinality(P!Open(p)) \in Nat
         /\ P!Cardinality(P!Open(p)) = Cardinality(P!Open(p))
<1>1. IsFiniteSet(P!Open(p))
  BY BoardAssumption, FS_Subset DEF P!Open
<1> QED
  BY <1>1, PostCardinality, FS_CardinalityType

LEMMA RealCountIsNat == ASSUME NEW b PROVE P!RealCount(b) \in Nat
<1>1. IsFiniteSet({p \in PostIds : P!Counted(p, b)})
  BY BoardAssumption, FS_Subset
<1> QED
  BY <1>1, PostCardinality, FS_CardinalityType DEF P!RealCount

PostMove ==
  \/ P!Next
  \/ UNCHANGED <<solo, postOnly>> /\ calm' \in {calm, TRUE}

LEMMA CommentsOnlyCalm == C!Next => solo' = solo /\ calm' \in {calm, TRUE}
BY DEF C!Next, C!Quieten, C!CountComments, C!WriteCount, C!ClearTombs, C!ReadParent,
   C!LockSiblings, C!Insert, C!Take, C!CountKids, C!Delete, C!Edit, C!PurgeComment

LEMMA PostMoves == [BoardNext]_vars => PostMove
<1> SUFFICES ASSUME [BoardNext]_vars PROVE PostMove
  OBVIOUS
<1>1. CASE BoardNext
  BY <1>1, CommentsOnlyCalm DEF BoardNext, PostMove, viewOnly, postOnly
<1>2. CASE UNCHANGED vars
  BY <1>2 DEF vars, PostMove, postOnly
<1> QED
  BY <1>1, <1>2

PostCalls ==
  [op : P!Ops \cup {"idle", "reported"}, post : PostIds, seen : P!Seen,
   by : Reporters \cup {0}, to : BoardIds, heard : Nat, open : SUBSET Reporters]

LEMMA IdleIsCall == P!AnyPost \in PostIds /\ P!AnyBoard \in BoardIds /\ P!Unseen \in P!Seen
                    /\ P!Idle \in PostCalls
BY BoardAssumption DEF P!AnyPost, P!AnyBoard, P!Idle, P!Unseen, PostCalls, P!Seen, P!Statuses

\* What each step does to the post, the counters and the call of one handler.
LEMMA PostTypeStep == P!TypeOK /\ PostMove => P!TypeOK'
<1> SUFFICES ASSUME P!TypeOK, PostMove PROVE P!TypeOK'
  OBVIOUS
<1>a. /\ posts \in [PostIds -> P!Row] /\ postCount \in [BoardIds -> Int]
      /\ released \in [PostIds -> BOOLEAN] /\ postReq \in [PostHandlers -> PostCalls]
      /\ reports \in [PostIds -> [Reporters -> {"none", "OPEN", "UPHELD", "DISMISSED"}]]
      /\ solo \in BOOLEAN /\ scene \in Scenes /\ calm \in BOOLEAN /\ bent \in BOOLEAN
      /\ recount \in [BoardIds -> Nat \cup {P!Skip}]
  BY DEF P!TypeOK, PostCalls
<1>b. /\ posts' \in [PostIds -> P!Row] /\ postCount' \in [BoardIds -> Int]
      /\ released' \in [PostIds -> BOOLEAN] /\ postReq' \in [PostHandlers -> PostCalls]
      /\ reports' \in [PostIds -> [Reporters -> {"none", "OPEN", "UPHELD", "DISMISSED"}]]
      /\ solo' \in BOOLEAN /\ scene' \in Scenes /\ calm' \in BOOLEAN /\ bent' \in BOOLEAN
      /\ recount' \in [BoardIds -> Nat \cup {P!Skip}]
      => P!TypeOK'
  BY DEF P!TypeOK, PostCalls
<1>c. ASSUME NEW h \in PostHandlers, P!Finish(h)
      PROVE  postReq' \in [PostHandlers -> PostCalls]
  BY <1>a, <1>c, IdleIsCall DEF P!Finish
<1>d. ASSUME NEW h \in PostHandlers
      PROVE  /\ postReq[h] \in PostCalls /\ postReq[h].post \in PostIds /\ postReq[h].seen \in P!Seen
             /\ postReq[h].seen.board \in BoardIds /\ postReq[h].to \in BoardIds
             /\ posts[postReq[h].post] \in P!Row
  BY <1>a DEF PostCalls, P!Seen
<1>e. ASSUME NEW p \in PostIds, NEW entry \in P!Row, P!Put(p, entry)
      PROVE  posts' \in [PostIds -> P!Row]
  BY <1>a, <1>e DEF P!Put
<1>f. ASSUME NEW entry \in P!Row, NEW s \in P!Statuses
      PROVE  [entry EXCEPT !.status = s] \in P!Row /\ P!Gone(entry) \in P!Row
  BY DEF P!Row, P!Gone, P!Statuses
<1>g. ASSUME NEW b \in BoardIds, NEW n \in Int, P!Count(b, n)
      PROVE  postCount' \in [BoardIds -> Int]
  BY <1>a, <1>g DEF P!Count
<1>s. {"DRAFT", "PUBLISHED", "HIDDEN", "DELETED"} \subseteq P!Statuses
  BY DEF P!Statuses
<1>1. CASE UNCHANGED <<solo, postOnly>> /\ calm' \in {calm, TRUE}
  BY <1>1, <1>a, <1>b DEF postOnly
<1>2. CASE P!CalmDown
  BY <1>2, <1>a, <1>b DEF P!CalmDown
<1>3. CASE P!PatrolCounts
  <2>1. recount' \in [BoardIds -> Nat \cup {P!Skip}]
    BY <1>3, RealCountIsNat DEF P!PatrolCounts
  <2> QED
    BY <1>3, <1>a, <1>b, <2>1 DEF P!PatrolCounts
<1>4. CASE P!PatrolWrites
  <2>1. postCount' \in [BoardIds -> Int]
    BY <1>4, <1>a DEF P!PatrolWrites
  <2>2. recount' \in [BoardIds -> Nat \cup {P!Skip}]
    BY <1>4 DEF P!PatrolWrites, P!NoRecount
  <2> QED
    BY <1>4, <1>a, <1>b, <2>1, <2>2 DEF P!PatrolWrites
<1>5. ASSUME NEW h \in PostHandlers, NEW p \in PostIds, NEW s, P!Create(h, p, s)
      PROVE  P!TypeOK'
  <2>1. [status |-> s, gone |-> FALSE, board |-> P!AnyBoard] \in P!Row
    BY <1>5, <1>s, IdleIsCall DEF P!Create, P!Row
  <2>2. posts' \in [PostIds -> P!Row]
    BY <1>5, <1>e, <2>1 DEF P!Create
  <2>3. postCount' \in [BoardIds -> Int]
    BY <1>5, <1>a, <1>g, IdleIsCall DEF P!Create
  <2> QED
    BY <1>5, <1>a, <1>b, <2>2, <2>3 DEF P!Create
<1>6. ASSUME NEW h \in PostHandlers, NEW op \in P!Ops, NEW p \in PostIds,
             NEW r \in Reporters \cup {0}, NEW b \in BoardIds, P!Begin(h, op, p, r, b)
      PROVE  P!TypeOK'
  <2> DEFINE s == IF op \in {"uphold", "dismiss"} THEN P!Unseen
                  ELSE [status |-> posts[p].status, board |-> posts[p].board]
  <2>1. s \in P!Seen
    BY <1>a, IdleIsCall DEF P!Row, P!Seen
  <2>2. postReq' = [postReq EXCEPT ![h] =
                      [P!Idle EXCEPT !.op = op, !.post = p, !.by = r, !.to = b, !.seen = s]]
    BY <1>6 DEF P!Begin
  <2> HIDE DEF s
  <2>3. [P!Idle EXCEPT !.op = op, !.post = p, !.by = r, !.to = b, !.seen = s] \in PostCalls
    BY <2>1, IdleIsCall DEF PostCalls
  <2> QED
    BY <1>6, <1>a, <1>b, <2>2, <2>3 DEF P!Begin
<1>7. ASSUME NEW h \in PostHandlers, P!Publish(h)
      PROVE  P!TypeOK'
  <2> DEFINE q == postReq[h]
  <2>1. posts' \in [PostIds -> P!Row]
    BY <1>7, <1>a, <1>d, <1>e, <1>f, <1>s DEF P!Publish
  <2>2. postCount' \in [BoardIds -> Int]
    BY <1>7, <1>a, <1>d, <1>g DEF P!Publish
  <2> DEFINE heardOf == "report" \in scene
  <2>4. heardOf \in BOOLEAN
    OBVIOUS
  <2>5. released' = [released EXCEPT ![q.post] = heardOf] \/ released' = released
    BY <1>7 DEF P!Publish
  <2> HIDE DEF heardOf
  <2>3. released' \in [PostIds -> BOOLEAN]
    BY <1>a, <2>4, <2>5
  <2> QED
    BY <1>7, <1>a, <1>b, <1>c, <2>1, <2>2, <2>3 DEF P!Publish
<1>8. ASSUME NEW h \in PostHandlers, P!SoftDelete(h)
      PROVE  P!TypeOK'
  <2>1. posts' \in [PostIds -> P!Row]
    BY <1>8, <1>d, <1>e, <1>f, <1>s DEF P!SoftDelete
  <2>2. postCount' \in [BoardIds -> Int]
    BY <1>8, <1>a, <1>d, <1>g DEF P!SoftDelete
  <2> QED
    BY <1>8, <1>a, <1>b, <1>c, <2>1, <2>2 DEF P!SoftDelete
<1>9. ASSUME NEW h \in PostHandlers, P!Moderate(h)
      PROVE  P!TypeOK'
  <2>1. PICK entry : P!Put(postReq[h].post, entry) /\
          entry = [posts[postReq[h].post] EXCEPT
                   !.status = CASE postReq[h].op = "hide" -> "HIDDEN"
                                [] postReq[h].op = "show" -> "PUBLISHED"
                                [] OTHER -> @,
                   !.board = IF postReq[h].to = postReq[h].seen.board THEN @ ELSE postReq[h].to]
    BY <1>9 DEF P!Moderate
  <2>2. entry \in P!Row
    BY <1>d, <1>s, <2>1 DEF P!Row
  <2>3. posts' \in [PostIds -> P!Row]
    BY <1>d, <1>e, <2>1, <2>2
  <2>4. postCount' \in [BoardIds -> Int]
    BY <1>9, <1>a DEF P!Moderate
  <2>5. released' \in [PostIds -> BOOLEAN]
    BY <1>9, <1>a DEF P!Moderate
  <2> QED
    BY <1>9, <1>a, <1>b, <1>c, <2>3, <2>4, <2>5 DEF P!Moderate
<1>10. ASSUME NEW h \in PostHandlers, P!CountReports(h)
       PROVE  P!TypeOK'
  <2> DEFINE n == P!Cardinality(P!Open(postReq[h].post)) + 1
  <2>1. n \in Nat
    BY OpenIsFinite
  <2>2. postReq' = [postReq EXCEPT ![h] = [postReq[h] EXCEPT !.op = "reported", !.heard = n]]
    BY <1>10 DEF P!CountReports
  <2> HIDE DEF n
  <2>3. [postReq[h] EXCEPT !.op = "reported", !.heard = n] \in PostCalls
    BY <1>d, <2>1 DEF PostCalls
  <2> QED
    BY <1>10, <1>a, <1>b, <2>2, <2>3 DEF P!CountReports
<1>11. ASSUME NEW h \in PostHandlers, P!RefuseReport(h)
       PROVE  P!TypeOK'
  BY <1>11, <1>a, <1>b, <1>c DEF P!RefuseReport
<1>12. ASSUME NEW h \in PostHandlers, P!CommitReport(h)
       PROVE  P!TypeOK'
  <2>1. posts' \in [PostIds -> P!Row]
    BY <1>12, <1>a, <1>d, <1>e, <1>f, <1>s DEF P!CommitReport
  <2>2. reports' \in [PostIds -> [Reporters -> {"none", "OPEN", "UPHELD", "DISMISSED"}]]
    BY <1>12, <1>a DEF P!CommitReport
  <2>3. bent' \in BOOLEAN
    BY <1>12, <1>a DEF P!CommitReport
  <2> QED
    BY <1>12, <1>a, <1>b, <1>c, <2>1, <2>2, <2>3 DEF P!CommitReport
<1>13. ASSUME NEW h \in PostHandlers, P!Judge(h)
       PROVE  P!TypeOK'
  <2> DEFINE entry == posts[postReq[h].post]
             s == [status |-> IF entry.gone THEN "DELETED" ELSE entry.status, board |-> entry.board]
             o == P!Open(postReq[h].post)
  <2>1. s \in P!Seen
    BY <1>d, <1>s DEF P!Row, P!Seen
  <2>2. o \in SUBSET Reporters
    BY DEF P!Open
  <2>3. postReq' = [postReq EXCEPT ![h] = [postReq[h] EXCEPT !.open = o, !.seen = s]]
    BY <1>13 DEF P!Judge
  <2> HIDE DEF s, o
  <2>4. [postReq[h] EXCEPT !.open = o, !.seen = s] \in PostCalls
    BY <1>d, <2>1, <2>2 DEF PostCalls
  <2> QED
    BY <1>13, <1>a, <1>b, <2>3, <2>4 DEF P!Judge
<1>14. ASSUME NEW h \in PostHandlers, P!Resolve(h)
       PROVE  P!TypeOK'
  <2>1. posts' \in [PostIds -> P!Row]
    BY <1>14, <1>a, <1>d, <1>e, <1>f, <1>s DEF P!Resolve
  <2>2. postCount' \in [BoardIds -> Int]
    BY <1>14, <1>a, <1>d, <1>g DEF P!Resolve
  <2>3. P!Decided(postReq[h]) \in [Reporters -> {"none", "OPEN", "UPHELD", "DISMISSED"}]
    BY <1>a, <1>d DEF P!Decided
  <2>4. reports' \in [PostIds -> [Reporters -> {"none", "OPEN", "UPHELD", "DISMISSED"}]]
    BY <1>14, <1>a, <2>3 DEF P!Resolve
  <2>5. bent' \in BOOLEAN /\ released' \in [PostIds -> BOOLEAN]
    BY <1>14, <1>a DEF P!Resolve
  <2> QED
    BY <1>14, <1>a, <1>b, <1>c, <2>1, <2>2, <2>4, <2>5 DEF P!Resolve
<1>15. ASSUME NEW h \in PostHandlers, P!Purge(h)
       PROVE  P!TypeOK'
  <2>1. posts' \in [PostIds -> P!Row]
    BY <1>15, <1>d, <1>e, <1>f, <1>s DEF P!Purge
  <2>2. postCount' \in [BoardIds -> Int]
    BY <1>15, <1>d, <1>g DEF P!Purge
  <2>3. bent' \in BOOLEAN
    BY <1>15, <1>a DEF P!Purge
  <2> QED
    BY <1>15, <1>a, <1>b, <1>c, <2>1, <2>2, <2>3 DEF P!Purge
<1>16. ASSUME NEW h \in PostHandlers, P!Commit(h) PROVE P!TypeOK'
  BY <1>7, <1>8, <1>9, <1>10, <1>11, <1>12, <1>13, <1>14, <1>15, <1>16 DEF P!Commit
<1> QED
  BY <1>1, <1>2, <1>3, <1>4, <1>5, <1>6, <1>16 DEF PostMove, P!Next, P!Patrol

-----------------------------------------------------------------------------
(* What is decided of a post, however the requests overlap.                *)

\* A post that is not written has nothing; a deleted one is gone; and a verdict that read
\* its post deleted has it so.
RowsStand ==
  /\ \A p \in PostIds :
       /\ posts[p].status = "DELETED" => posts[p].gone
       /\ posts[p].status = "none" => ~posts[p].gone /\ \A r \in Reporters : reports[p][r] = "none"
  /\ \A h \in PostHandlers : postReq[h].op # "idle" =>
       /\ posts[postReq[h].post].status # "none"
       /\ postReq[h].op \in {"uphold", "dismiss"} /\ postReq[h].seen.status = "DELETED" =>
            posts[postReq[h].post].gone
       /\ postReq[h].op \in {"report", "reported"} => "report" \in scene
       /\ \A r \in postReq[h].open : reports[postReq[h].post][r] # "none"
  /\ \A p \in PostIds, r \in Reporters : reports[p][r] # "none" => "report" \in scene

PostIInv == P!TypeOK /\ RowsStand /\ P!UpheldIsGone

\* What a handler that ends leaves of the calls, and what a row that is written leaves of the
\* others.
LEMMA Finished ==
  ASSUME P!TypeOK, NEW h \in PostHandlers, P!Finish(h)
  PROVE  /\ \A g \in PostHandlers : postReq'[g] = IF g = h THEN P!Idle ELSE postReq[g]
         /\ P!Idle.op = "idle" /\ P!Idle.post \in PostIds
BY IdleIsCall DEF P!TypeOK, P!Finish, P!Idle, PostCalls

LEMMA Written ==
  ASSUME P!TypeOK, NEW p \in PostIds, NEW entry, P!Put(p, entry)
  PROVE  \A o \in PostIds : posts'[o] = IF o = p THEN entry ELSE posts[o]
BY DEF P!TypeOK, P!Put

\* A row whose status alone is written, and one that is deleted.
LEMMA StatusWritten ==
  ASSUME P!TypeOK, NEW p \in PostIds, NEW s \in {"DRAFT", "PUBLISHED", "HIDDEN", "DELETED"},
         P!Put(p, [posts[p] EXCEPT !.status = s])
  PROVE  /\ \A o \in PostIds : o # p => posts'[o] = posts[o]
         /\ posts'[p].status = s /\ posts'[p].gone = posts[p].gone /\ posts'[p].board = posts[p].board
<1> DEFINE entry == [posts[p] EXCEPT !.status = s]
<1>1. posts[p] \in P!Row
  BY DEF P!TypeOK
<1>2. entry.status = s /\ entry.gone = posts[p].gone /\ entry.board = posts[p].board
  BY <1>1 DEF P!Row
<1>3. P!Put(p, entry)
  OBVIOUS
<1> HIDE DEF entry
<1> QED
  BY <1>2, <1>3, Written

LEMMA RowDeleted ==
  ASSUME P!TypeOK, NEW p \in PostIds, P!Put(p, P!Gone(posts[p]))
  PROVE  /\ \A o \in PostIds : o # p => posts'[o] = posts[o]
         /\ posts'[p].status = "DELETED" /\ posts'[p].gone
<1>1. posts[p] \in P!Row
  BY DEF P!TypeOK
<1>2. P!Gone(posts[p]).gone /\ P!Gone(posts[p]).status = "DELETED"
  BY <1>1 DEF P!Row, P!Gone
<1> QED
  BY <1>2, Written

\* A call that begins.
LEMMA CallBegins ==
  ASSUME P!TypeOK, NEW h \in PostHandlers, NEW op \in P!Ops, NEW p \in PostIds,
         NEW r \in Reporters \cup {0}, NEW b \in BoardIds, P!Begin(h, op, p, r, b)
  PROVE  \E c \in PostCalls :
           /\ c.op = op /\ c.post = p /\ c.by = r /\ c.to = b /\ c.open = {}
           /\ c.seen = IF op \in {"uphold", "dismiss"} THEN P!Unseen
                       ELSE [status |-> posts[p].status, board |-> posts[p].board]
           /\ \A g \in PostHandlers : postReq'[g] = IF g = h THEN c ELSE postReq[g]
<1> DEFINE s == IF op \in {"uphold", "dismiss"} THEN P!Unseen
                ELSE [status |-> posts[p].status, board |-> posts[p].board]
           c == [P!Idle EXCEPT !.op = op, !.post = p, !.by = r, !.to = b, !.seen = s]
<1>1. s \in P!Seen
  BY IdleIsCall DEF P!TypeOK, P!Row, P!Seen
<1>2. postReq' = [postReq EXCEPT ![h] = c]
  BY DEF P!Begin
<1>3. P!Idle.open = {}
  BY DEF P!Idle
<1> HIDE DEF s
<1>4. c \in PostCalls /\ c.op = op /\ c.post = p /\ c.by = r /\ c.to = b /\ c.open = {} /\ c.seen = s
  BY <1>1, <1>3, IdleIsCall DEF PostCalls
<1> HIDE DEF c
<1>5. \A g \in PostHandlers : postReq'[g] = IF g = h THEN c ELSE postReq[g]
  BY <1>2 DEF P!TypeOK
<1> QED
  BY <1>4, <1>5 DEF s

\* What a verdict takes down of its post.
LEMMA CallJudges ==
  ASSUME P!TypeOK, NEW h \in PostHandlers, P!Judge(h)
  PROVE  \E c \in PostCalls :
           /\ c.op = postReq[h].op /\ c.post = postReq[h].post /\ c.by = postReq[h].by
           /\ c.open = P!Open(postReq[h].post)
           /\ c.seen.status = IF posts[postReq[h].post].gone THEN "DELETED"
                              ELSE posts[postReq[h].post].status
           /\ c.seen.board = posts[postReq[h].post].board
           /\ \A g \in PostHandlers : postReq'[g] = IF g = h THEN c ELSE postReq[g]
<1> DEFINE entry == posts[postReq[h].post]
           s == [status |-> IF entry.gone THEN "DELETED" ELSE entry.status, board |-> entry.board]
           o == P!Open(postReq[h].post)
           c == [postReq[h] EXCEPT !.open = o, !.seen = s]
<1>1. postReq[h] \in PostCalls /\ entry \in P!Row
  BY DEF P!TypeOK, PostCalls
<1>2. s \in P!Seen /\ o \in SUBSET Reporters
  BY <1>1 DEF P!Row, P!Seen, P!Statuses, P!Open
<1>3. postReq' = [postReq EXCEPT ![h] = c]
  BY DEF P!Judge
<1>4. s.status = (IF entry.gone THEN "DELETED" ELSE entry.status) /\ s.board = entry.board
  OBVIOUS
<1> HIDE DEF s, o
<1>5. c \in PostCalls /\ c.op = postReq[h].op /\ c.post = postReq[h].post /\ c.by = postReq[h].by
      /\ c.open = o /\ c.seen = s
  BY <1>1, <1>2 DEF PostCalls
<1> HIDE DEF c
<1>6. \A g \in PostHandlers : postReq'[g] = IF g = h THEN c ELSE postReq[g]
  BY <1>3 DEF P!TypeOK
<1> QED
  BY <1>4, <1>5, <1>6 DEF o

\* What a moderator writes.
LEMMA RowModerated ==
  ASSUME P!TypeOK, NEW h \in PostHandlers, P!Moderate(h)
  PROVE  /\ \A o \in PostIds : o # postReq[h].post => posts'[o] = posts[o]
         /\ posts'[postReq[h].post].gone = posts[postReq[h].post].gone
         /\ posts'[postReq[h].post].status =
              IF postReq[h].op = "hide" THEN "HIDDEN"
              ELSE IF postReq[h].op = "show" THEN "PUBLISHED" ELSE posts[postReq[h].post].status
         /\ posts'[postReq[h].post].board =
              IF postReq[h].to = postReq[h].seen.board THEN posts[postReq[h].post].board
              ELSE postReq[h].to
<1> DEFINE q == postReq[h]
           next == [posts[q.post] EXCEPT
                      !.status = CASE q.op = "hide" -> "HIDDEN"
                                   [] q.op = "show" -> "PUBLISHED"
                                   [] OTHER -> @,
                      !.board = IF q.to = q.seen.board THEN @ ELSE q.to]
<1>1. posts[q.post] \in P!Row /\ q.post \in PostIds
  BY DEF P!TypeOK
<1>2. /\ next.gone = posts[q.post].gone
      /\ next.status = IF q.op = "hide" THEN "HIDDEN"
                       ELSE IF q.op = "show" THEN "PUBLISHED" ELSE posts[q.post].status
      /\ next.board = IF q.to = q.seen.board THEN posts[q.post].board ELSE q.to
  BY <1>1 DEF P!Row
<1>3. P!Put(q.post, next)
  BY DEF P!Moderate
<1> HIDE DEF next
<1> QED
  BY <1>1, <1>2, <1>3, Written

\* A step after which the reports are what they were, and each row is the same or has been
\* written over one that was there, and no less gone.
LEMMA RowsKeep ==
  ASSUME RowsStand, P!UpheldIsGone, UNCHANGED <<reports, scene>>,
         \A p \in PostIds :
           \/ posts'[p] = posts[p]
           \/ /\ posts[p].status # "none" /\ posts'[p].status # "none"
              /\ posts[p].gone => posts'[p].gone
              /\ posts'[p].status = "DELETED" => posts'[p].gone,
         \A h \in PostHandlers :
           \/ postReq'[h] = postReq[h]
           \/ postReq'[h].op = "idle"
           \/ /\ posts'[postReq'[h].post].status # "none"
              /\ postReq'[h].op \in {"report", "reported"} => "report" \in scene
              /\ \A r \in postReq'[h].open : reports[postReq'[h].post][r] # "none"
              /\ postReq'[h].op \in {"uphold", "dismiss"} /\ postReq'[h].seen.status = "DELETED"
                 => posts'[postReq'[h].post].gone,
         \A h \in PostHandlers : postReq[h].post \in PostIds
  PROVE  RowsStand' /\ P!UpheldIsGone'
BY DEF RowsStand, P!UpheldIsGone

LEMMA PostStep == PostIInv /\ PostMove => PostIInv'
<1> SUFFICES ASSUME PostIInv, PostMove PROVE PostIInv'
  OBVIOUS
<1>a. P!TypeOK /\ P!TypeOK' /\ RowsStand /\ P!UpheldIsGone
  BY PostTypeStep DEF PostIInv
<1> SUFFICES RowsStand' /\ P!UpheldIsGone'
  BY <1>a DEF PostIInv
<1>b. \A h \in PostHandlers :
        /\ postReq[h] \in PostCalls /\ postReq[h].post \in PostIds
        /\ posts[postReq[h].post] \in P!Row
  BY <1>a DEF P!TypeOK, PostCalls
<1>1. CASE UNCHANGED <<posts, reports, scene, postReq>>
  BY <1>1, <1>a, <1>b, RowsKeep
<1>2. ASSUME NEW h \in PostHandlers, NEW p \in PostIds, NEW s, P!Create(h, p, s)
      PROVE  RowsStand' /\ P!UpheldIsGone'
  <2>1. \A o \in PostIds : o # p => posts'[o] = posts[o]
    BY <1>2, <1>a, Written DEF P!Create
  <2>2. posts'[p].status = s /\ ~posts'[p].gone /\ s \in {"DRAFT", "PUBLISHED"}
        /\ posts[p].status = "none" /\ UNCHANGED <<reports, scene, postReq>>
    BY <1>2, <1>a, Written DEF P!Create
  <2> QED
    BY <1>a, <1>b, <2>1, <2>2 DEF RowsStand, P!UpheldIsGone
<1>3. ASSUME NEW h \in PostHandlers, NEW op \in P!Ops, NEW p \in PostIds,
             NEW r \in Reporters \cup {0}, NEW b \in BoardIds, P!Begin(h, op, p, r, b)
      PROVE  RowsStand' /\ P!UpheldIsGone'
  <2>1. PICK c \in PostCalls :
          /\ c.op = op /\ c.post = p /\ c.by = r /\ c.to = b /\ c.open = {}
          /\ c.seen = IF op \in {"uphold", "dismiss"} THEN P!Unseen
                      ELSE [status |-> posts[p].status, board |-> posts[p].board]
          /\ \A g \in PostHandlers : postReq'[g] = IF g = h THEN c ELSE postReq[g]
    BY <1>3, <1>a, CallBegins
  <2>3. posts[p].status # "none" /\ op \in scene /\ op # "reported" /\ P!Unseen.status # "DELETED"
    BY <1>3 DEF P!Begin, P!Admits, P!Exists, P!Ops, P!Unseen
  <2>4. UNCHANGED <<posts, reports, scene>>
    BY <1>3 DEF P!Begin
  <2> QED
    BY <1>a, <1>b, <2>1, <2>3, <2>4, RowsKeep
<1>4. ASSUME NEW h \in PostHandlers, P!Publish(h)
      PROVE  RowsStand' /\ P!UpheldIsGone'
  <2> DEFINE q == postReq[h]
  <2>1. P!Finish(h) /\ q.op = "publish" /\ UNCHANGED <<reports, scene>>
        /\ (posts' = posts \/ P!Put(q.post, [posts[q.post] EXCEPT !.status = "PUBLISHED"]))
    BY <1>4 DEF P!Publish
  <2>2. posts[q.post].status # "none"
    BY <1>a, <2>1 DEF RowsStand
  <2>3. \A p \in PostIds : posts'[p] = posts[p] \/
          (p = q.post /\ posts'[p].status = "PUBLISHED" /\ posts'[p].gone = posts[p].gone)
    BY <1>a, <1>b, <2>1, StatusWritten
  <2>4. \A g \in PostHandlers : postReq'[g] = postReq[g] \/ postReq'[g].op = "idle"
    BY <1>a, <2>1, Finished
  <2> QED
    BY <1>a, <1>b, <2>1, <2>2, <2>3, <2>4, RowsKeep
<1>5. ASSUME NEW h \in PostHandlers, P!SoftDelete(h) \/ P!Purge(h)
      PROVE  RowsStand' /\ P!UpheldIsGone'
  <2> DEFINE q == postReq[h]
  <2>1. P!Finish(h) /\ q.op # "idle" /\ UNCHANGED <<reports, scene>>
        /\ P!Put(q.post, P!Gone(posts[q.post]))
    BY <1>5 DEF P!SoftDelete, P!Purge
  <2>2. posts[q.post].status # "none"
    BY <1>a, <2>1 DEF RowsStand
  <2>3. \A p \in PostIds : posts'[p] = posts[p] \/
          (p = q.post /\ posts'[p].status = "DELETED" /\ posts'[p].gone)
    BY <1>a, <1>b, <2>1, RowDeleted
  <2>4. \A g \in PostHandlers : postReq'[g] = postReq[g] \/ postReq'[g].op = "idle"
    BY <1>a, <2>1, Finished
  <2> QED
    BY <1>a, <1>b, <2>1, <2>2, <2>3, <2>4, RowsKeep
<1>6. ASSUME NEW h \in PostHandlers, P!Moderate(h)
      PROVE  RowsStand' /\ P!UpheldIsGone'
  <2> DEFINE q == postReq[h]
  <2>1. P!Finish(h) /\ q.op # "idle" /\ UNCHANGED <<reports, scene>>
    BY <1>6 DEF P!Moderate
  <2>2. posts[q.post].status # "none"
    BY <1>a, <2>1 DEF RowsStand
  <2>3. posts'[q.post].gone = posts[q.post].gone
        /\ posts'[q.post].status \in {"HIDDEN", "PUBLISHED", posts[q.post].status}
    BY <1>6, <1>a, RowModerated
  <2>4. \A p \in PostIds : p # q.post => posts'[p] = posts[p]
    BY <1>6, <1>a, RowModerated
  <2>5. posts[q.post].status = "DELETED" => posts[q.post].gone
    BY <1>a, <1>b DEF RowsStand
  <2>6. \A g \in PostHandlers : postReq'[g] = postReq[g] \/ postReq'[g].op = "idle"
    BY <1>a, <2>1, Finished
  <2>7. \A p \in PostIds :
           \/ posts'[p] = posts[p]
           \/ /\ posts[p].status # "none" /\ posts'[p].status # "none"
              /\ posts[p].gone => posts'[p].gone
              /\ posts'[p].status = "DELETED" => posts'[p].gone
    BY <2>2, <2>3, <2>4, <2>5
  <2> QED
    BY <1>a, <1>b, <2>1, <2>6, <2>7, RowsKeep
<1>7. ASSUME NEW h \in PostHandlers, P!CountReports(h)
      PROVE  RowsStand' /\ P!UpheldIsGone'
  <2>1. PICK n : postReq' = [postReq EXCEPT ![h] = [postReq[h] EXCEPT !.op = "reported", !.heard = n]]
    BY <1>7 DEF P!CountReports
  <2>2. \A g \in PostHandlers : postReq'[g] =
          IF g = h THEN [postReq[h] EXCEPT !.op = "reported", !.heard = n] ELSE postReq[g]
    BY <1>a, <2>1 DEF P!TypeOK
  <2>3. postReq'[h].op = "reported" /\ postReq'[h].post = postReq[h].post
        /\ postReq'[h].open = postReq[h].open
    BY <1>b, <2>2 DEF PostCalls
  <2>4. postReq[h].op = "report" /\ UNCHANGED <<posts, reports, scene>>
    BY <1>7 DEF P!CountReports
  <2>5. posts[postReq[h].post].status # "none" /\ "report" \in scene
        /\ \A r \in postReq[h].open : reports[postReq[h].post][r] # "none"
    BY <1>a, <2>4 DEF RowsStand
  <2> QED
    BY <1>a, <1>b, <2>2, <2>3, <2>4, <2>5, RowsKeep
<1>8. ASSUME NEW h \in PostHandlers, P!RefuseReport(h)
      PROVE  RowsStand' /\ P!UpheldIsGone'
  <2>1. P!Finish(h) /\ UNCHANGED <<posts, reports, scene>>
    BY <1>8 DEF P!RefuseReport
  <2>2. \A g \in PostHandlers : postReq'[g] = postReq[g] \/ postReq'[g].op = "idle"
    BY <1>a, <2>1, Finished
  <2> QED
    BY <1>a, <1>b, <2>1, <2>2, RowsKeep
<1>9. ASSUME NEW h \in PostHandlers, P!CommitReport(h)
      PROVE  RowsStand' /\ P!UpheldIsGone'
  <2> DEFINE q == postReq[h]
  <2>1. /\ P!Finish(h) /\ q.op = "reported" /\ scene' = scene
        /\ reports' = [reports EXCEPT ![q.post][q.by] = "OPEN"]
        /\ posts' = posts \/ P!Put(q.post, [posts[q.post] EXCEPT !.status = "HIDDEN"])
    BY <1>9 DEF P!CommitReport
  <2>2. posts[q.post].status # "none" /\ "report" \in scene
    BY <1>a, <2>1 DEF RowsStand
  <2>3. \A p \in PostIds : posts'[p] = posts[p] \/
          (p = q.post /\ posts'[p].status = "HIDDEN" /\ posts'[p].gone = posts[p].gone)
    BY <1>a, <1>b, <2>1, StatusWritten
  <2>4. \A g \in PostHandlers : postReq'[g] = postReq[g] \/ postReq'[g].op = "idle"
    BY <1>a, <2>1, Finished
  <2>5. \A p \in PostIds, r \in Reporters :
          /\ reports'[p][r] = "UPHELD" => reports[p][r] = "UPHELD"
          /\ p # q.post => reports'[p][r] = reports[p][r]
          /\ reports[p][r] # "none" => reports'[p][r] # "none"
    BY <1>a, <2>1 DEF P!TypeOK
  <2> QED
    BY <1>a, <1>b, <2>1, <2>2, <2>3, <2>4, <2>5 DEF RowsStand, P!UpheldIsGone
<1>10. ASSUME NEW h \in PostHandlers, P!Judge(h)
       PROVE  RowsStand' /\ P!UpheldIsGone'
  <2> DEFINE q == postReq[h]
             entry == posts[q.post]
  <2>1. PICK c \in PostCalls :
          /\ c.op = q.op /\ c.post = q.post /\ c.open = P!Open(q.post)
          /\ c.seen.status = IF entry.gone THEN "DELETED" ELSE entry.status
          /\ \A g \in PostHandlers : postReq'[g] = IF g = h THEN c ELSE postReq[g]
    BY <1>10, <1>a, CallJudges
  <2>2. \A r \in c.open : reports[q.post][r] # "none"
    BY <2>1 DEF P!Open
  <2>3. q.op \in {"uphold", "dismiss"} /\ UNCHANGED <<posts, reports, scene>>
    BY <1>10 DEF P!Judge
  <2>4. entry.status # "none" /\ (entry.status = "DELETED" => entry.gone)
    BY <1>a, <1>b, <2>3 DEF RowsStand
  <2> QED
    BY <1>a, <1>b, <2>1, <2>2, <2>3, <2>4, RowsKeep
<1>11. ASSUME NEW h \in PostHandlers, P!Resolve(h)
       PROVE  RowsStand' /\ P!UpheldIsGone'
  <2> DEFINE q == postReq[h]
  <2>1. /\ P!Finish(h) /\ q.op \in {"uphold", "dismiss"} /\ scene' = scene
        /\ reports' = [reports EXCEPT ![q.post] = P!Decided(q)]
        /\ \/ P!Put(q.post, P!Gone(posts[q.post]))
           \/ q.op = "dismiss" /\ P!Put(q.post, [posts[q.post] EXCEPT !.status = "PUBLISHED"])
           \/ posts' = posts /\ (q.op = "uphold" => q.seen.status = "DELETED")
    BY <1>11 DEF P!Resolve
  <2>2. posts[q.post].status # "none" /\ (q.seen.status = "DELETED" => posts[q.post].gone)
    BY <1>a, <2>1 DEF RowsStand
  <2>3. \A p \in PostIds :
          \/ posts'[p] = posts[p]
          \/ p = q.post /\ posts'[p].status = "DELETED" /\ posts'[p].gone
          \/ p = q.post /\ posts'[p].status = "PUBLISHED" /\ posts'[p].gone = posts[p].gone
    BY <1>a, <1>b, <2>1, StatusWritten, RowDeleted
  <2>4. \A g \in PostHandlers : postReq'[g] = postReq[g] \/ postReq'[g].op = "idle"
    BY <1>a, <2>1, Finished
  <2>5. \A r \in Reporters :
          /\ P!Decided(q)[r] = "UPHELD" => reports[q.post][r] = "UPHELD" \/ q.op = "uphold"
          /\ P!Decided(q)[r] # "none" => reports[q.post][r] # "none" \/ r \in q.open
    BY DEF P!Decided
  <2>6. \A p \in PostIds : reports'[p] = IF p = q.post THEN P!Decided(q) ELSE reports[p]
    BY <1>a, <2>1 DEF P!TypeOK
  <2>7. q.op = "uphold" => posts'[q.post].gone
    BY <1>a, <1>b, <2>1, <2>2, RowDeleted
  <2>8. P!UpheldIsGone'
    BY <1>a, <1>b, <2>3, <2>5, <2>6, <2>7 DEF P!UpheldIsGone
  <2>9. \A r \in q.open : reports[q.post][r] # "none"
    BY <1>a, <2>1 DEF RowsStand
  <2>10. \A r \in Reporters : reports[q.post][r] # "none" => P!Decided(q)[r] # "none"
    BY DEF P!Decided
  <2>11. \A p \in PostIds, r \in Reporters : reports[p][r] # "none" <=> reports'[p][r] # "none"
    BY <1>b, <2>5, <2>6, <2>9, <2>10
  <2>12. \A p \in PostIds :
           /\ posts'[p].status = "none" <=> posts[p].status = "none"
           /\ posts[p].gone => posts'[p].gone
           /\ posts'[p].status = "none" => posts'[p] = posts[p]
           /\ posts[p].status = "DELETED" => posts[p].gone
           /\ posts'[p].status = "DELETED" => posts'[p].gone
    BY <1>a, <2>2, <2>3 DEF RowsStand
  <2>13. \A p \in PostIds :
           /\ posts'[p].status = "DELETED" => posts'[p].gone
           /\ posts'[p].status = "none" => ~posts'[p].gone /\ \A r \in Reporters : reports'[p][r] = "none"
    BY <1>a, <2>11, <2>12 DEF RowsStand
  <2>14. \A g \in PostHandlers : postReq[g].open \subseteq Reporters
    BY <1>b DEF PostCalls
  <2>15. \A g \in PostHandlers : postReq'[g].op # "idle" =>
           /\ posts'[postReq'[g].post].status # "none"
           /\ postReq'[g].op \in {"uphold", "dismiss"} /\ postReq'[g].seen.status = "DELETED" =>
                posts'[postReq'[g].post].gone
           /\ postReq'[g].op \in {"report", "reported"} => "report" \in scene'
           /\ \A r \in postReq'[g].open : reports'[postReq'[g].post][r] # "none"
    BY <1>a, <1>b, <2>1, <2>4, <2>11, <2>12, <2>14 DEF RowsStand
  <2>16. \A p \in PostIds, r \in Reporters : reports'[p][r] # "none" => "report" \in scene'
    BY <1>a, <2>1, <2>11 DEF RowsStand
  <2> QED
    BY <2>8, <2>13, <2>15, <2>16 DEF RowsStand
<1> QED
  BY <1>1, <1>2, <1>3, <1>4, <1>5, <1>6, <1>7, <1>8, <1>9, <1>10, <1>11
     DEF PostMove, postOnly, P!Next, P!Commit, P!CalmDown, P!Patrol, P!PatrolCounts, P!PatrolWrites

LEMMA PostInit == BoardInit => PostIInv
<1> SUFFICES ASSUME BoardInit PROVE PostIInv
  OBVIOUS
<1>1. P!Init
  BY DEF BoardInit
<1>2. P!NoRow \in P!Row /\ P!NoRow.status = "none" /\ ~P!NoRow.gone
  BY IdleIsCall DEF P!NoRow, P!Row, P!Statuses
<1>3. P!TypeOK
  <2>1. solo \in BOOLEAN /\ scene \in Scenes /\ calm \in BOOLEAN /\ bent \in BOOLEAN
    BY <1>1 DEF P!Init
  <2>2. posts \in [PostIds -> P!Row]
    BY <1>1, <1>2 DEF P!Init
  <2>3. reports \in [PostIds -> [Reporters -> {"none", "OPEN", "UPHELD", "DISMISSED"}]]
    BY <1>1 DEF P!Init
  <2>4. postCount \in [BoardIds -> Int]
    BY <1>1 DEF P!Init
  <2>5. recount \in [BoardIds -> Nat \cup {P!Skip}]
    BY <1>1 DEF P!Init, P!NoRecount
  <2>6. released \in [PostIds -> BOOLEAN]
    BY <1>1 DEF P!Init
  <2>7. postReq \in [PostHandlers -> PostCalls]
    BY <1>1, IdleIsCall DEF P!Init
  <2> QED
    BY <2>1, <2>2, <2>3, <2>4, <2>5, <2>6, <2>7 DEF P!TypeOK, PostCalls
<1>4. RowsStand
  BY <1>1, <1>2 DEF P!Init, RowsStand, P!Idle
<1>5. P!UpheldIsGone
  BY <1>1 DEF P!Init, P!UpheldIsGone
<1> QED
  BY <1>3, <1>4, <1>5 DEF PostIInv

\* Only a moderator takes a hidden post out of hiding, or an owner who read it as a draft.
LEMMA Unhiding ==
  ASSUME P!TypeOK, PostMove, NEW p \in PostIds,
         posts[p].status = "HIDDEN", posts'[p].status = "PUBLISHED"
  PROVE  \E h \in PostHandlers :
           /\ postReq[h].post = p /\ postReq'[h] = P!Idle
           /\ \/ postReq[h].op \in {"show", "dismiss"}
              \/ postReq[h].op = "publish" /\ postReq[h].seen.status = "DRAFT"
<1>b. \A h \in PostHandlers : postReq[h].post \in PostIds
  BY DEF P!TypeOK
<1>1. ASSUME NEW h \in PostHandlers, NEW o \in PostIds, NEW s, P!Create(h, o, s)
      PROVE  FALSE
  BY <1>1, Written DEF P!Create
<1>2. ASSUME NEW h \in PostHandlers, P!Publish(h)
      PROVE  p = postReq[h].post /\ postReq'[h] = P!Idle /\ postReq[h].op = "publish"
             /\ postReq[h].seen.status = "DRAFT"
  <2>1. P!Finish(h) /\ postReq[h].op = "publish"
    BY <1>2 DEF P!Publish
  <2>2. CASE postReq[h].seen.status = "DRAFT"
    <3>1. P!Put(postReq[h].post, [posts[postReq[h].post] EXCEPT !.status = "PUBLISHED"])
      BY <1>2, <2>2 DEF P!Publish
    <3> QED
      BY <1>b, <2>1, <2>2, <3>1, StatusWritten, Finished
  <2>3. CASE postReq[h].seen.status # "DRAFT"
    BY <1>2, <2>3 DEF P!Publish
  <2> QED
    BY <2>2, <2>3
<1>3. ASSUME NEW h \in PostHandlers, P!SoftDelete(h) \/ P!Purge(h)
      PROVE  FALSE
  <2>1. P!Put(postReq[h].post, P!Gone(posts[postReq[h].post]))
    BY <1>3 DEF P!SoftDelete, P!Purge
  <2> QED
    BY <1>b, <2>1, RowDeleted
<1>4. ASSUME NEW h \in PostHandlers, P!Moderate(h)
      PROVE  p = postReq[h].post /\ postReq'[h] = P!Idle /\ postReq[h].op = "show"
  <2>1. P!Finish(h)
    BY <1>4 DEF P!Moderate
  <2> QED
    BY <1>4, <1>b, <2>1, RowModerated, Finished
<1>5. ASSUME NEW h \in PostHandlers, P!CommitReport(h)
      PROVE  FALSE
  <2>1. posts' = posts \/ P!Put(postReq[h].post, [posts[postReq[h].post] EXCEPT !.status = "HIDDEN"])
    BY <1>5 DEF P!CommitReport
  <2> QED
    BY <1>b, <2>1, StatusWritten
<1>6. ASSUME NEW h \in PostHandlers, P!Resolve(h)
      PROVE  p = postReq[h].post /\ postReq'[h] = P!Idle /\ postReq[h].op = "dismiss"
  <2>1. /\ P!Finish(h)
        /\ \/ P!Put(postReq[h].post, P!Gone(posts[postReq[h].post]))
           \/ /\ postReq[h].op = "dismiss"
              /\ P!Put(postReq[h].post, [posts[postReq[h].post] EXCEPT !.status = "PUBLISHED"])
           \/ posts' = posts
    BY <1>6 DEF P!Resolve
  <2> QED
    BY <1>b, <2>1, RowDeleted, StatusWritten, Finished
<1>7. ASSUME P!CalmDown \/ P!Patrol \/ UNCHANGED postOnly
      PROVE  FALSE
  BY <1>7 DEF postOnly, P!CalmDown, P!Patrol, P!PatrolCounts, P!PatrolWrites
<1>8. ASSUME NEW h \in PostHandlers, P!CountReports(h) \/ P!RefuseReport(h) \/ P!Judge(h)
      PROVE  FALSE
  BY <1>8 DEF P!CountReports, P!RefuseReport, P!Judge
<1>9. ASSUME NEW h, NEW op, NEW o, NEW r, NEW b, P!Begin(h, op, o, r, b)
      PROVE  FALSE
  BY <1>9 DEF P!Begin
<1>10. ASSUME NEW h \in PostHandlers, P!Commit(h)
       PROVE  /\ postReq[h].post = p /\ postReq'[h] = P!Idle
              /\ \/ postReq[h].op \in {"show", "dismiss"}
                 \/ postReq[h].op = "publish" /\ postReq[h].seen.status = "DRAFT"
  BY <1>2, <1>3, <1>4, <1>5, <1>6, <1>8, <1>10 DEF P!Commit
<1>11. P!Next
  BY <1>7 DEF PostMove, postOnly
<1> QED
  BY <1>1, <1>7, <1>9, <1>10, <1>11 DEF P!Next

LEMMA PostInvariant == BoardSpec => []PostIInv
<1>1. PostIInv /\ [BoardNext]_vars => PostIInv'
  BY PostStep, PostMoves
<1> QED
  BY <1>1, PostInit, PTL DEF BoardSpec

\* HiddenStaysHidden, however requests overlap: only a moderator takes a hidden post out of
\* hiding, or an owner who read it as a draft before it was hidden (posts.service update).
THEOREM HidingLasts == BoardSpec => HiddenStaysHidden
<1>1. PostIInv /\ [BoardNext]_vars =>
        [\A p \in PostIds :
           posts[p].status = "HIDDEN" /\ posts'[p].status = "PUBLISHED" =>
             \E h \in PostHandlers :
               /\ postReq[h].post = p /\ postReq'[h] = P!Idle
               /\ \/ postReq[h].op \in {"show", "dismiss"}
                  \/ postReq[h].op = "publish" /\ postReq[h].seen.status = "DRAFT"]_(P!postVars)
  BY PostMoves, Unhiding DEF PostIInv
<1> QED
  BY <1>1, PostInvariant, PTL DEF BoardSpec, HiddenStaysHidden, P!HiddenStaysHidden

-----------------------------------------------------------------------------
(* The reports of a post, however they overlap.                            *)

\* Reports on their way that will not hide the post they are about: they have counted too
\* few, or read it when it was not public.
Quiet(p) ==
  {h \in PostHandlers :
     /\ postReq[h].post = p
     /\ \/ /\ postReq[h].op = "reported"
           /\ postReq[h].heard < AutoHideThreshold \/ postReq[h].seen.status # "PUBLISHED"
        \/ postReq[h].op = "report" /\ postReq[h].seen.status # "PUBLISHED"}

Busy == {h \in PostHandlers : postReq[h].op # "idle"}
AtOnce == IF solo THEN 1 ELSE Cardinality(PostHandlers)

\* Requests that come one at a time do.
OneAtATime ==
  solo => /\ \A g, h \in Busy : g = h
          /\ recount # P!NoRecount => Busy = {}

\* Of a public post that nobody showed, the open reports and those that will join them
\* without hiding it are fewer than the threshold and the requests in flight allow.
Heeded(p) ==
  posts[p].status = "PUBLISHED" /\ ~posts[p].gone /\ ~released[p] =>
    Cardinality(P!Open(p)) + Cardinality(Quiet(p)) < AutoHideThreshold + AtOnce - 1

HeedIInv == PostIInv /\ OneAtATime /\ \A p \in PostIds : Heeded(p)

\* Sizes.
LEMMA QuietSizes ==
  ASSUME NEW p
  PROVE  /\ IsFiniteSet(P!Open(p)) /\ Cardinality(P!Open(p)) \in Nat
         /\ IsFiniteSet(Quiet(p)) /\ Cardinality(Quiet(p)) \in Nat
<1>1. IsFiniteSet(Quiet(p))
  BY BoardAssumption, FS_Subset DEF Quiet
<1> QED
  BY <1>1, OpenIsFinite, FS_CardinalityType

LEMMA BusySizes ==
  ASSUME OneAtATime, NEW h \in PostHandlers
  PROVE  /\ AtOnce \in Nat /\ AtOnce >= 1
         /\ \A S : S \subseteq Busy => Cardinality(S) <= AtOnce
         /\ h \in Busy => \A S : S \subseteq Busy \ {h} => Cardinality(S) <= AtOnce - 1
<1>1. IsFiniteSet(Busy) /\ Cardinality(PostHandlers) \in Nat /\ Cardinality(PostHandlers) >= 1
  <2>1. IsFiniteSet(Busy)
    BY BoardAssumption, FS_Subset DEF Busy
  <2>2. IsFiniteSet({h}) /\ Cardinality({h}) = 1
    BY FS_Singleton
  <2> QED
    BY <2>1, <2>2, BoardAssumption, FS_CardinalityType, FS_Subset
<1>2. IsFiniteSet(PostHandlers \ {h}) /\ Cardinality(PostHandlers \ {h}) = Cardinality(PostHandlers) - 1
  BY BoardAssumption, FS_RemoveElement
<1>3. ASSUME NEW S, S \subseteq Busy
      PROVE  Cardinality(S) <= AtOnce
  <2>1. CASE solo
    <3>1. S = {} \/ \E g : S = {g}
      BY <1>3, <2>1 DEF OneAtATime
    <3>2. Cardinality({}) = 0 /\ \A g : Cardinality({g}) = 1
      BY FS_EmptySet, FS_Singleton
    <3>3. Cardinality(S) \in {0, 1}
      BY <3>1, <3>2
    <3> QED
      BY <2>1, <3>3 DEF AtOnce
  <2>2. CASE ~solo
    <3>1. S \subseteq PostHandlers
      BY <1>3 DEF Busy
    <3>2. Cardinality(S) <= Cardinality(PostHandlers)
      BY <3>1, BoardAssumption, FS_Subset
    <3> QED
      BY <2>2, <3>2 DEF AtOnce
  <2> QED
    BY <2>1, <2>2
<1>4. ASSUME h \in Busy, NEW S, S \subseteq Busy \ {h}
      PROVE  Cardinality(S) <= AtOnce - 1
  <2>1. CASE solo
    <3>1. S = {}
      BY <1>4, <2>1 DEF OneAtATime
    <3> QED
      BY <2>1, <3>1, FS_EmptySet DEF AtOnce
  <2>2. CASE ~solo
    <3>1. S \subseteq PostHandlers \ {h}
      BY <1>4 DEF Busy
    <3>2. Cardinality(S) <= Cardinality(PostHandlers \ {h})
      BY <3>1, <1>2, FS_Subset
    <3> QED
      BY <1>1, <1>2, <2>2, <3>2 DEF AtOnce
  <2> QED
    BY <2>1, <2>2
<1> QED
  BY <1>1, <1>3, <1>4 DEF AtOnce

\* Reports that are decided or given up, and a post that is no more public than it was.
LEMMA HeedKeeps ==
  ASSUME NEW p \in PostIds, Heeded(p), OneAtATime, solo' = solo, PostHandlers # {},
         P!Open(p)' \subseteq P!Open(p), Quiet(p)' \subseteq Quiet(p),
         posts'[p].status = "PUBLISHED" /\ ~posts'[p].gone /\ ~released'[p] =>
           posts[p].status = "PUBLISHED" /\ ~posts[p].gone /\ ~released[p]
  PROVE  Heeded(p)'
<1>1. /\ IsFiniteSet(P!Open(p)) /\ Cardinality(P!Open(p)) \in Nat
      /\ IsFiniteSet(Quiet(p)) /\ Cardinality(Quiet(p)) \in Nat
  BY QuietSizes
<1>2. /\ Cardinality(P!Open(p)') \in Nat /\ Cardinality(P!Open(p)') <= Cardinality(P!Open(p))
      /\ Cardinality(Quiet(p)') \in Nat /\ Cardinality(Quiet(p)') <= Cardinality(Quiet(p))
  BY <1>1, FS_Subset, FS_CardinalityType
<1>3. AtOnce' = AtOnce /\ AtOnce \in Nat
  BY BusySizes DEF AtOnce
<1>4. Cardinality(P!Open(p))' = Cardinality(P!Open(p)') /\ Cardinality(Quiet(p))' = Cardinality(Quiet(p)')
  OBVIOUS
<1> QED
  BY <1>1, <1>2, <1>3, <1>4, BoardAssumption DEF Heeded

\* A post of which no report is open, once one of the requests is over.
LEMMA HeedFresh ==
  ASSUME NEW p \in PostIds, OneAtATime, solo' = solo, NEW h \in PostHandlers,
         P!Open(p)' = {}, Quiet(p)' = {} \/ (h \in Busy /\ Quiet(p)' \subseteq Busy \ {h})
  PROVE  Heeded(p)'
<1>1. Cardinality(P!Open(p)') = 0 /\ Cardinality({}) = 0
  BY FS_EmptySet
<1>2. AtOnce' = AtOnce /\ AtOnce \in Nat /\ AtOnce >= 1
  BY BusySizes DEF AtOnce
<1>3. Cardinality(Quiet(p)') <= AtOnce - 1
  BY <1>1, <1>2, BusySizes
<1>4. Cardinality(Quiet(p)') \in Nat
  <2>1. IsFiniteSet(Quiet(p)')
    BY BoardAssumption, FS_Subset DEF Quiet
  <2> QED
    BY <2>1, FS_CardinalityType
<1> QED
  BY <1>1, <1>2, <1>3, <1>4, BoardAssumption DEF Heeded

LEMMA OneAtATimeStep == P!TypeOK /\ OneAtATime /\ PostMove => OneAtATime' /\ solo' = solo
<1> SUFFICES ASSUME P!TypeOK, OneAtATime, PostMove PROVE OneAtATime' /\ solo' = solo
  OBVIOUS
<1>1. CASE UNCHANGED <<solo, postOnly>> \/ P!CalmDown
  BY <1>1 DEF OneAtATime, Busy, postOnly, P!CalmDown, P!NoRecount
<1>2. CASE P!Patrol
  BY <1>2 DEF OneAtATime, Busy, P!NoRecount, P!Patrol, P!PatrolCounts, P!PatrolWrites
<1>3. ASSUME NEW h \in PostHandlers, NEW p \in PostIds, NEW s, P!Create(h, p, s)
      PROVE  OneAtATime' /\ solo' = solo
  BY <1>3 DEF OneAtATime, Busy, P!NoRecount, P!Create
<1>4. ASSUME NEW h \in PostHandlers, NEW op \in P!Ops, NEW p \in PostIds,
             NEW r \in Reporters \cup {0}, NEW b \in BoardIds, P!Begin(h, op, p, r, b)
      PROVE  OneAtATime' /\ solo' = solo
  <2>1. PICK c \in PostCalls :
          /\ c.op = op /\ c.post = p /\ c.by = r /\ c.to = b /\ c.open = {}
          /\ c.seen = IF op \in {"uphold", "dismiss"} THEN P!Unseen
                      ELSE [status |-> posts[p].status, board |-> posts[p].board]
          /\ \A g \in PostHandlers : postReq'[g] = IF g = h THEN c ELSE postReq[g]
    BY <1>4, CallBegins
  <2>2. solo => recount = P!NoRecount /\ Busy = {}
    BY <1>4 DEF P!Begin, P!Free, Busy
  <2>3. solo' = solo /\ recount' = recount
    BY <1>4 DEF P!Begin
  <2> QED
    BY <2>1, <2>2, <2>3 DEF OneAtATime, Busy, P!NoRecount
<1>5. ASSUME NEW h \in PostHandlers, P!Commit(h)
      PROVE  OneAtATime' /\ solo' = solo
  <2>1. solo' = solo /\ recount' = recount /\ h \in Busy
    BY <1>5 DEF Busy, P!Commit, P!Publish, P!SoftDelete, P!Moderate, P!CountReports,
       P!RefuseReport, P!CommitReport, P!Judge, P!Resolve, P!Purge
  <2>2. \A g \in PostHandlers : g # h => postReq'[g] = postReq[g]
    BY <1>5 DEF P!TypeOK, P!Commit, P!Publish, P!SoftDelete, P!Moderate, P!CountReports,
       P!RefuseReport, P!CommitReport, P!Judge, P!Resolve, P!Purge, P!Finish
  <2>3. Busy' \subseteq Busy
    BY <2>1, <2>2 DEF Busy
  <2> QED
    BY <2>1, <2>3 DEF OneAtATime, P!NoRecount
<1> QED
  BY <1>1, <1>2, <1>3, <1>4, <1>5 DEF PostMove, P!Next

\* A handler that is done is quiet no longer, and the others are as they were.
LEMMA QuietEnds ==
  ASSUME P!TypeOK, NEW h \in PostHandlers, P!Finish(h), NEW p
  PROVE  Quiet(p)' = Quiet(p) \ {h}
BY Finished DEF Quiet

LEMMA OpenSame ==
  ASSUME reports' = reports, NEW p
  PROVE  P!Open(p)' = P!Open(p)
BY DEF P!Open

LEMMA HeedStep ==
  ASSUME HeedIInv, PostMove, NEW p \in PostIds
  PROVE  Heeded(p)'
<1>a. P!TypeOK /\ RowsStand /\ OneAtATime /\ Heeded(p) /\ solo' = solo
  BY OneAtATimeStep DEF HeedIInv, PostIInv
<1>b. \A h \in PostHandlers : postReq[h] \in PostCalls /\ postReq[h].post \in PostIds
  BY <1>a DEF P!TypeOK, PostCalls
<1>1. CASE UNCHANGED <<posts, reports, postReq, released>>
  <2>1. P!Open(p)' = P!Open(p) /\ Quiet(p)' = Quiet(p)
    BY <1>1 DEF P!Open, Quiet
  <2>2. Cardinality(P!Open(p))' = Cardinality(P!Open(p)) /\ Cardinality(Quiet(p))' = Cardinality(Quiet(p))
    BY <2>1
  <2> QED
    BY <1>1, <1>a, <2>2 DEF Heeded, AtOnce
<1>2. ASSUME NEW h \in PostHandlers, NEW o \in PostIds, NEW s, P!Create(h, o, s)
      PROVE  Heeded(p)'
  <2>1. UNCHANGED <<reports, postReq, released>> /\ (p # o => posts'[p] = posts[p])
        /\ posts[o].status = "none"
    BY <1>2, <1>a, Written DEF P!Create
  <2>2. P!Open(p)' = P!Open(p) /\ Quiet(p)' = Quiet(p)
    BY <2>1 DEF P!Open, Quiet
  <2>3. p = o => P!Open(p) = {} /\ Quiet(p) = {}
    BY <1>a, <2>1 DEF RowsStand, P!Open, Quiet
  <2> QED
    BY <1>a, <2>1, <2>2, <2>3, HeedKeeps, HeedFresh
<1>3. ASSUME NEW h \in PostHandlers, NEW op \in P!Ops, NEW o \in PostIds,
             NEW r \in Reporters \cup {0}, NEW b \in BoardIds, P!Begin(h, op, o, r, b)
      PROVE  Heeded(p)'
  <2>1. PICK c \in PostCalls :
          /\ c.op = op /\ c.post = o /\ c.by = r /\ c.to = b /\ c.open = {}
          /\ c.seen = IF op \in {"uphold", "dismiss"} THEN P!Unseen
                      ELSE [status |-> posts[o].status, board |-> posts[o].board]
          /\ \A g \in PostHandlers : postReq'[g] = IF g = h THEN c ELSE postReq[g]
    BY <1>3, <1>a, CallBegins
  <2>2. UNCHANGED <<posts, reports, released>> /\ op # "reported"
    BY <1>3 DEF P!Begin, P!Ops
  <2>3. P!Open(p)' = P!Open(p)
    BY <2>2, OpenSame
  <2>4. posts[p].status = "PUBLISHED" => Quiet(p)' \subseteq Quiet(p)
    BY <2>1, <2>2 DEF Quiet
  <2>5. CASE posts[p].status = "PUBLISHED"
    BY <1>a, <2>2, <2>3, <2>4, <2>5, HeedKeeps
  <2> QED
    BY <2>2, <2>5 DEF Heeded
<1>4. ASSUME NEW h \in PostHandlers, P!Publish(h)
      PROVE  Heeded(p)'
  <2>1. P!Finish(h) /\ reports' = reports
    BY <1>4 DEF P!Publish
  <2>2. P!Open(p)' = P!Open(p) /\ Quiet(p)' \subseteq Quiet(p)
    BY <1>a, <2>1, OpenSame, QuietEnds
  <2>3. CASE posts'[p] = posts[p] /\ released'[p] = released[p]
    BY <1>a, <2>2, <2>3, HeedKeeps
  <2>4. CASE p = postReq[h].post /\ released'[p] = ("report" \in scene)
    <3>1. CASE "report" \in scene
      BY <2>4, <3>1 DEF Heeded
    <3>2. CASE "report" \notin scene
      <4>1. P!Open(p) = {} /\ Quiet(p) = {}
        BY <1>a, <3>2 DEF RowsStand, P!Open, Quiet
      <4> QED
        BY <1>a, <2>2, <4>1, HeedFresh
    <3> QED
      BY <3>1, <3>2
  <2>5. \/ posts'[p] = posts[p] /\ released'[p] = released[p]
        \/ p = postReq[h].post /\ released'[p] = ("report" \in scene)
    BY <1>4, <1>a, <1>b, StatusWritten DEF P!Publish, P!TypeOK
  <2> QED
    BY <2>3, <2>4, <2>5
<1>5. ASSUME NEW h \in PostHandlers, P!SoftDelete(h) \/ P!Purge(h)
      PROVE  Heeded(p)'
  <2>1. P!Finish(h) /\ UNCHANGED <<reports, released>>
        /\ P!Put(postReq[h].post, P!Gone(posts[postReq[h].post]))
    BY <1>5 DEF P!SoftDelete, P!Purge
  <2>2. P!Open(p)' = P!Open(p) /\ Quiet(p)' \subseteq Quiet(p)
    BY <1>a, <2>1, OpenSame, QuietEnds
  <2>3. posts'[p] = posts[p] \/ posts'[p].status = "DELETED"
    BY <1>a, <1>b, <2>1, RowDeleted
  <2> QED
    BY <1>a, <2>1, <2>2, <2>3, HeedKeeps
<1>6. ASSUME NEW h \in PostHandlers, P!Moderate(h)
      PROVE  Heeded(p)'
  <2> DEFINE q == postReq[h]
  <2>1. P!Finish(h) /\ reports' = reports
    BY <1>6 DEF P!Moderate
  <2>2. P!Open(p)' = P!Open(p) /\ Quiet(p)' \subseteq Quiet(p)
    BY <1>a, <2>1, OpenSame, QuietEnds
  <2>3. p # q.post => posts'[p] = posts[p] /\ released'[p] = released[p]
    BY <1>6, <1>a, <1>b, RowModerated DEF P!Moderate, P!TypeOK
  <2>4. p = q.post => posts'[p].gone = posts[p].gone /\ (q.op # "show" /\ posts'[p].status = "PUBLISHED"
                                                        => posts[p].status = "PUBLISHED")
    BY <1>6, <1>a, <1>b, RowModerated
  <2>5. p = q.post => (released'[p] <=> (released[p] \/ (q.op = "show" /\ "report" \in scene)))
    BY <1>6, <1>a DEF P!Moderate, P!TypeOK
  <2>6. CASE p = q.post /\ q.op = "show"
    <3>1. CASE "report" \in scene
      BY <2>5, <2>6, <3>1 DEF Heeded
    <3>2. CASE "report" \notin scene
      <4>1. P!Open(p) = {} /\ Quiet(p) = {}
        BY <1>a, <3>2 DEF RowsStand, P!Open, Quiet
      <4> QED
        BY <1>a, <2>2, <4>1, HeedFresh
    <3> QED
      BY <3>1, <3>2
  <2>7. CASE p # q.post \/ q.op # "show"
    BY <1>a, <2>2, <2>3, <2>4, <2>5, <2>7, HeedKeeps
  <2> QED
    BY <2>6, <2>7
<1>7. ASSUME NEW h \in PostHandlers, P!CountReports(h)
      PROVE  Heeded(p)'
  <2> DEFINE q == postReq[h]
             n == P!Cardinality(P!Open(q.post)) + 1
  <2>1. postReq' = [postReq EXCEPT ![h] = [q EXCEPT !.op = "reported", !.heard = n]]
    BY <1>7 DEF P!CountReports
  <2>2. UNCHANGED <<posts, reports, released>> /\ q.op = "report"
    BY <1>7 DEF P!CountReports
  <2>3. n = Cardinality(P!Open(q.post)) + 1
    BY OpenIsFinite
  <2> HIDE DEF n
  <2>4. /\ \A g \in PostHandlers : g # h => postReq'[g] = postReq[g]
        /\ postReq'[h].op = "reported" /\ postReq'[h].heard = n /\ postReq'[h].seen = q.seen
        /\ postReq'[h].post = q.post
    BY <1>a, <1>b, <2>1 DEF P!TypeOK, PostCalls
  <2>5. P!Open(p)' = P!Open(p)
    BY <2>2, OpenSame
  <2>6. CASE Quiet(p)' \subseteq Quiet(p)
    BY <1>a, <2>2, <2>5, <2>6, HeedKeeps
  <2>7. CASE ~(Quiet(p)' \subseteq Quiet(p))
    <3>1. p = q.post /\ n < AutoHideThreshold
      BY <2>2, <2>4, <2>7 DEF Quiet
    <3>2. Quiet(p)' \subseteq Busy
      BY <2>2, <2>4 DEF Quiet, Busy
    <3>3. Cardinality(Quiet(p)') <= AtOnce /\ AtOnce \in Nat /\ AtOnce' = AtOnce
      BY <1>a, <3>2, BusySizes DEF AtOnce
    <3>4. Cardinality(P!Open(p)) \in Nat /\ Cardinality(P!Open(p)') = Cardinality(P!Open(p))
      BY <2>5, QuietSizes
    <3>5. Cardinality(Quiet(p)') \in Nat
      <4>1. IsFiniteSet(Quiet(p)')
        BY BoardAssumption, FS_Subset DEF Quiet
      <4> QED
        BY <4>1, FS_CardinalityType
    <3> QED
      BY <2>3, <3>1, <3>3, <3>4, <3>5, BoardAssumption DEF Heeded
  <2> QED
    BY <2>6, <2>7
<1>8. ASSUME NEW h \in PostHandlers, P!RefuseReport(h)
      PROVE  Heeded(p)'
  <2>1. P!Finish(h) /\ UNCHANGED <<reports, released, posts>>
    BY <1>8 DEF P!RefuseReport
  <2>2. P!Open(p)' = P!Open(p) /\ Quiet(p)' \subseteq Quiet(p)
    BY <1>a, <2>1, OpenSame, QuietEnds
  <2> QED
    BY <1>a, <2>1, <2>2, HeedKeeps
<1>9. ASSUME NEW h \in PostHandlers, P!CommitReport(h)
      PROVE  Heeded(p)'
  <2> DEFINE q == postReq[h]
  <2>1. P!Finish(h) /\ released' = released /\ q.op = "reported"
        /\ reports' = [reports EXCEPT ![q.post][q.by] = "OPEN"]
    BY <1>9 DEF P!CommitReport
  <2>2. Quiet(p)' = Quiet(p) \ {h}
    BY <1>a, <2>1, QuietEnds
  <2>3. P!Open(p)' \subseteq IF p = q.post THEN P!Open(p) \cup {q.by} ELSE P!Open(p)
    BY <1>a, <1>b, <2>1 DEF P!Open, P!TypeOK
  <2>4. CASE p # q.post
    <3>1. posts'[p] = posts[p]
      BY <1>9, <1>a, <1>b, <2>4, StatusWritten DEF P!CommitReport
    <3> QED
      BY <1>a, <2>1, <2>2, <2>3, <2>4, <3>1, HeedKeeps
  <2>5. CASE p = q.post /\ q.heard >= AutoHideThreshold /\ q.seen.status = "PUBLISHED"
    <3>1. P!Put(q.post, [posts[q.post] EXCEPT !.status = "HIDDEN"])
      BY <1>9, <2>5 DEF P!CommitReport
    <3>2. posts'[p].status = "HIDDEN"
      BY <1>a, <1>b, <2>5, <3>1, StatusWritten
    <3> QED
      BY <3>2 DEF Heeded
  <2>6. CASE p = q.post /\ ~(q.heard >= AutoHideThreshold /\ q.seen.status = "PUBLISHED")
    <3>1. posts' = posts
      BY <1>9, <2>6 DEF P!CommitReport
    <3>2. q.heard \in Nat
      BY <1>b DEF PostCalls
    <3>3. h \in Quiet(p)
      BY <2>1, <2>6, <3>2, BoardAssumption DEF Quiet
    <3>4. /\ IsFiniteSet(P!Open(p)) /\ Cardinality(P!Open(p)) \in Nat
          /\ IsFiniteSet(Quiet(p)) /\ Cardinality(Quiet(p)) \in Nat
      BY QuietSizes
    <3>5. Cardinality(Quiet(p)') = Cardinality(Quiet(p)) - 1
      BY <2>2, <3>3, <3>4, FS_RemoveElement
    <3>6. /\ IsFiniteSet(P!Open(p) \cup {q.by})
          /\ Cardinality(P!Open(p) \cup {q.by}) <= Cardinality(P!Open(p)) + 1
          /\ Cardinality(P!Open(p) \cup {q.by}) \in Nat
      <4> DEFINE O == P!Open(p)
                 r == q.by
      <4>1. IsFiniteSet(O) /\ Cardinality(O) \in Nat
        BY <3>4
      <4> HIDE DEF O, r
      <4>2. /\ IsFiniteSet(O \cup {r})
            /\ Cardinality(O \cup {r}) = Cardinality(O) \/ Cardinality(O \cup {r}) = Cardinality(O) + 1
        BY <4>1, FS_AddElement
      <4>3. Cardinality(O \cup {r}) <= Cardinality(O) + 1 /\ Cardinality(O \cup {r}) \in Nat
        BY <4>1, <4>2
      <4> QED
        BY <4>2, <4>3 DEF O, r
    <3>7. Cardinality(P!Open(p)') <= Cardinality(P!Open(p)) + 1 /\ Cardinality(P!Open(p)') \in Nat
      <4>1. P!Open(p)' \subseteq P!Open(p) \cup {q.by}
        BY <2>3, <2>6
      <4> QED
        BY <3>4, <3>6, <4>1, FS_Subset, FS_CardinalityType
    <3>8. AtOnce' = AtOnce /\ AtOnce \in Nat
      BY <1>a, BusySizes DEF AtOnce
    <3> QED
      BY <1>a, <2>1, <3>1, <3>4, <3>5, <3>7, <3>8, BoardAssumption DEF Heeded
  <2> QED
    BY <2>4, <2>5, <2>6
<1>10. ASSUME NEW h \in PostHandlers, P!Judge(h)
       PROVE  Heeded(p)'
  <2>1. UNCHANGED <<posts, reports, released>> /\ postReq[h].op \in {"uphold", "dismiss"}
    BY <1>10 DEF P!Judge
  <2>2. PICK c : c.op = postReq[h].op
                 /\ \A g \in PostHandlers : postReq'[g] = IF g = h THEN c ELSE postReq[g]
    BY <1>10, <1>a, CallJudges
  <2>3. Quiet(p)' \subseteq Quiet(p)
    BY <2>1, <2>2 DEF Quiet
  <2> QED
    BY <1>a, <2>1, <2>3, OpenSame, HeedKeeps
<1>11. ASSUME NEW h \in PostHandlers, P!Resolve(h)
       PROVE  Heeded(p)'
  <2> DEFINE q == postReq[h]
  <2>1. /\ P!Finish(h) /\ q.op \in {"uphold", "dismiss"}
        /\ reports' = [reports EXCEPT ![q.post] = P!Decided(q)]
        /\ \/ P!Put(q.post, P!Gone(posts[q.post]))
           \/ /\ q.op = "dismiss" /\ q.seen.status = "HIDDEN"
              /\ P!Put(q.post, [posts[q.post] EXCEPT !.status = "PUBLISHED"])
           \/ posts' = posts
        /\ released' = [released EXCEPT ![q.post] =
             @ \/ (q.op = "dismiss" /\ q.seen.status = "HIDDEN" /\ ~(P!Open(q.post) \subseteq q.open))]
    BY <1>11 DEF P!Resolve
  <2>2. Quiet(p)' \subseteq Quiet(p) /\ Quiet(p)' \subseteq Busy \ {h} /\ h \in Busy
    BY <1>a, <2>1, QuietEnds DEF Quiet, Busy
  <2>3. \A r \in Reporters : P!Decided(q)[r] = "OPEN" => reports[q.post][r] = "OPEN" /\ r \notin q.open
    BY DEF P!Decided
  <2>4. reports'[p] = IF p = q.post THEN P!Decided(q) ELSE reports[p]
    BY <1>a, <2>1 DEF P!TypeOK
  <2>5. P!Open(p)' \subseteq P!Open(p) /\ (p = q.post => P!Open(p)' \subseteq P!Open(p) \ q.open)
    BY <2>3, <2>4 DEF P!Open
  <2>6. released'[p] <=> released[p] \/ (p = q.post /\ q.op = "dismiss" /\ q.seen.status = "HIDDEN"
                                          /\ ~(P!Open(q.post) \subseteq q.open))
    BY <1>a, <2>1 DEF P!TypeOK
  <2>7. CASE posts'[p] = posts[p] \/ posts'[p].status = "DELETED"
    BY <1>a, <2>2, <2>5, <2>6, <2>7, HeedKeeps
  <2>8. CASE p = q.post /\ q.op = "dismiss" /\ q.seen.status = "HIDDEN"
    <3>1. CASE P!Open(p) \subseteq q.open
      <4>1. P!Open(p)' = {}
        BY <2>5, <2>8, <3>1
      <4> QED
        BY <1>a, <2>2, <4>1, HeedFresh
    <3>2. CASE ~(P!Open(p) \subseteq q.open)
      BY <2>6, <2>8, <3>2 DEF Heeded
    <3> QED
      BY <3>1, <3>2
  <2>9. \/ posts'[p] = posts[p] \/ posts'[p].status = "DELETED"
        \/ p = q.post /\ q.op = "dismiss" /\ q.seen.status = "HIDDEN"
    BY <1>a, <1>b, <2>1, RowDeleted, StatusWritten
  <2> QED
    BY <2>7, <2>8, <2>9
<1>12. ASSUME NEW h \in PostHandlers, P!Commit(h) PROVE Heeded(p)'
  BY <1>4, <1>5, <1>6, <1>7, <1>8, <1>9, <1>10, <1>11, <1>12 DEF P!Commit
<1>13. CASE P!CalmDown \/ P!Patrol \/ UNCHANGED <<solo, postOnly>>
  BY <1>1, <1>13 DEF postOnly, P!CalmDown, P!Patrol, P!PatrolCounts, P!PatrolWrites
<1> QED
  BY <1>2, <1>3, <1>12, <1>13 DEF PostMove, P!Next

-----------------------------------------------------------------------------
(* The counters of the boards, while requests come one at a time.          *)

Weight(p, b) == IF P!Counted(p, b) THEN 1 ELSE 0

\* One post moves a counter by what it weighs.
LEMMA CountMoves ==
  ASSUME NEW p \in PostIds, NEW b, \A o \in PostIds : o # p => posts'[o] = posts[o]
  PROVE  /\ P!RealCount(b) \in Nat /\ P!RealCount(b)' \in Nat
         /\ P!RealCount(b)' = P!RealCount(b) + Weight(p, b)' - Weight(p, b)
<1> DEFINE S == {o \in PostIds : P!Counted(o, b)}
           T == {o \in PostIds : P!Counted(o, b)'}
           R == S \ {p}
<1>1. P!RealCount(b) = Cardinality(S) /\ P!RealCount(b)' = Cardinality(T)
  BY PostCardinality DEF P!RealCount
<1>2. T \ {p} = R
  BY DEF P!Counted
<1>3. IsFiniteSet(S) /\ IsFiniteSet(T) /\ IsFiniteSet(R)
  BY BoardAssumption, FS_Subset
<1>4. Weight(p, b) = IF p \in S THEN 1 ELSE 0
  BY DEF Weight
<1>5. Weight(p, b)' = IF p \in T THEN 1 ELSE 0
  BY DEF Weight
<1>6. R = S \ {p}
  OBVIOUS
<1> HIDE DEF S, T, R
<1>7. Cardinality(S) = Cardinality(R) + (IF p \in S THEN 1 ELSE 0) /\ Cardinality(S) \in Nat
  BY <1>3, <1>6, FS_RemoveElement, FS_CardinalityType
<1>8. Cardinality(T) = Cardinality(R) + (IF p \in T THEN 1 ELSE 0) /\ Cardinality(T) \in Nat
  BY <1>2, <1>3, FS_RemoveElement, FS_CardinalityType
<1> QED
  BY <1>1, <1>4, <1>5, <1>7, <1>8, <1>3, FS_CardinalityType

\* While requests come one at a time: what a handler has read is so, what the patrol is
\* about to write is so, and the counters are right unless a step bent them.
Current ==
  /\ \A p \in PostIds : posts[p].gone <=> posts[p].status = "DELETED"
  /\ \A h \in Busy :
       /\ ~posts[postReq[h].post].gone
       /\ \/ postReq[h].op \in {"uphold", "dismiss"} /\ postReq[h].seen = P!Unseen
          \/ /\ postReq[h].seen.status = posts[postReq[h].post].status
             /\ postReq[h].seen.board = posts[postReq[h].post].board
       /\ postReq[h].op = "publish" => posts[postReq[h].post].status \in {"DRAFT", "PUBLISHED"}
  /\ recount # P!NoRecount =>
       \A b \in BoardIds :
         \/ recount[b] = P!RealCount(b)
         \/ recount[b] = P!Skip /\ postCount[b] = P!RealCount(b)
  /\ ~bent => P!CountRight

CountIInv == HeedIInv /\ (solo => Current)

\* A request that is over, the only one there was.
LEMMA CurrentEnds ==
  ASSUME P!TypeOK, OneAtATime, solo, NEW h \in Busy, P!Finish(h), recount' = recount,
         \A p \in PostIds : posts'[p].gone <=> posts'[p].status = "DELETED",
         ~bent' => P!CountRight'
  PROVE  Current'
<1>1. Busy' = {} /\ recount = P!NoRecount
  BY Finished DEF OneAtATime, Busy
<1>2. P!NoRecount' = P!NoRecount
  BY DEF P!NoRecount
<1> QED
  BY <1>1, <1>2 DEF Current

LEMMA CurrentStep ==
  ASSUME HeedIInv, PostMove, solo, Current
  PROVE  Current'
<1>a. P!TypeOK /\ P!TypeOK' /\ RowsStand /\ OneAtATime
  BY PostTypeStep DEF HeedIInv, PostIInv
<1>b. \A h \in PostHandlers : postReq[h] \in PostCalls /\ postReq[h].post \in PostIds
        /\ postReq[h].seen.board \in BoardIds /\ posts[postReq[h].post].board \in BoardIds
  BY <1>a DEF P!TypeOK, PostCalls, P!Seen, P!Row
<1>c. \A p \in PostIds : posts[p].gone <=> posts[p].status = "DELETED"
  BY DEF Current
<1>d. \A b \in BoardIds : P!RealCount(b) \in Nat /\ postCount[b] \in Int
  BY <1>a, RealCountIsNat DEF P!TypeOK
<1>e. ~bent => \A b \in BoardIds : postCount[b] = P!RealCount(b)
  BY DEF Current, P!CountRight
<1>1. CASE UNCHANGED <<posts, postCount, postReq, recount, bent>>
  BY <1>1 DEF Current, Busy, P!CountRight, P!RealCount, P!Counted, P!NoRecount, P!Unseen, P!AnyBoard
<1>2. CASE P!PatrolCounts
  <2>1. Busy = {} /\ UNCHANGED <<posts, postCount, postReq, bent>>
        /\ recount' = [b \in BoardIds |->
             IF postCount[b] = P!RealCount(b) THEN P!Skip ELSE P!RealCount(b)]
    BY <1>2 DEF P!PatrolCounts, Busy
  <2>2. Busy' = {}
    BY <2>1 DEF Busy
  <2>3. \A b \in BoardIds : P!RealCount(b)' = P!RealCount(b)
    BY <2>1 DEF P!RealCount, P!Counted
  <2>4. P!Skip' = P!Skip /\ (P!CountRight' <=> P!CountRight)
    BY <2>1, <2>3 DEF P!Skip, P!CountRight
  <2> QED
    BY <2>1, <2>2, <2>3, <2>4 DEF Current
<1>3. CASE P!PatrolWrites
  <2>1. Busy = {} /\ UNCHANGED <<posts, postReq>> /\ recount' = P!NoRecount /\ recount # P!NoRecount
        /\ postCount' = [b \in BoardIds |-> IF recount[b] = P!Skip THEN postCount[b] ELSE recount[b]]
    BY <1>3, <1>a DEF P!PatrolWrites, OneAtATime
  <2>2. Busy' = {}
    BY <2>1 DEF Busy
  <2>3. \A b \in BoardIds : P!RealCount(b)' = P!RealCount(b)
    BY <2>1 DEF P!RealCount, P!Counted
  <2>4. \A b \in BoardIds : postCount'[b] = P!RealCount(b)
    BY <1>d, <2>1 DEF Current, P!Skip
  <2>5. P!CountRight' /\ P!NoRecount' = P!NoRecount
    BY <2>3, <2>4 DEF P!CountRight, P!NoRecount
  <2> QED
    BY <2>1, <2>2, <2>5 DEF Current
<1>4. ASSUME NEW p \in PostIds, \A o \in PostIds : o # p => posts'[o] = posts[o],
             \A b \in BoardIds : postCount'[b] = postCount[b] + Weight(p, b)' - Weight(p, b), ~bent
      PROVE  P!CountRight'
  <2>1. \A b \in BoardIds : /\ P!RealCount(b)' = P!RealCount(b) + Weight(p, b)' - Weight(p, b)
                            /\ P!RealCount(b)' \in Nat
                            /\ Weight(p, b) \in {0, 1} /\ Weight(p, b)' \in {0, 1}
    BY <1>4, CountMoves DEF Weight
  <2> QED
    BY <1>4, <1>d, <1>e, <2>1 DEF P!CountRight
<1>5. ASSUME NEW h \in PostHandlers, NEW p \in PostIds, NEW s, P!Create(h, p, s)
      PROVE  Current'
  <2>1. /\ Busy = {} /\ recount = P!NoRecount /\ UNCHANGED <<postReq, recount, bent>>
        /\ posts[p].status = "none" /\ s \in {"DRAFT", "PUBLISHED"}
        /\ P!Put(p, [status |-> s, gone |-> FALSE, board |-> P!AnyBoard])
        /\ IF s = "PUBLISHED" THEN P!Count(P!AnyBoard, 1) ELSE UNCHANGED postCount
    BY <1>5 DEF P!Create, P!Free, Busy
  <2>2. /\ \A o \in PostIds : o # p => posts'[o] = posts[o]
        /\ posts'[p].status = s /\ ~posts'[p].gone /\ posts'[p].board = P!AnyBoard
    BY <1>a, <2>1, Written
  <2>3. \A b \in BoardIds : /\ Weight(p, b) = 0
                            /\ Weight(p, b)' = IF s = "PUBLISHED" /\ b = P!AnyBoard THEN 1 ELSE 0
    BY <2>1, <2>2 DEF Weight, P!Counted
  <2>a. postCount' = IF s = "PUBLISHED" THEN [postCount EXCEPT ![P!AnyBoard] = @ + 1] ELSE postCount
    BY <2>1 DEF P!Count
  <2>b. \A b \in BoardIds :
          postCount'[b] = postCount[b] + IF s = "PUBLISHED" /\ b = P!AnyBoard THEN 1 ELSE 0
    BY <1>a, <1>d, <2>a DEF P!TypeOK
  <2>4. \A b \in BoardIds : postCount'[b] = postCount[b] + Weight(p, b)' - Weight(p, b)
    BY <1>d, <2>3, <2>b
  <2>5. Busy' = {} /\ P!NoRecount' = P!NoRecount
    BY <2>1 DEF Busy, P!NoRecount
  <2>6. ~bent' => P!CountRight'
    BY <1>4, <2>1, <2>2, <2>4
  <2> QED
    BY <1>c, <2>1, <2>2, <2>5, <2>6 DEF Current
<1>6. ASSUME NEW h \in PostHandlers, NEW op \in P!Ops, NEW p \in PostIds,
             NEW r \in Reporters \cup {0}, NEW b \in BoardIds, P!Begin(h, op, p, r, b)
      PROVE  Current'
  <2>1. PICK c \in PostCalls :
          /\ c.op = op /\ c.post = p /\ c.by = r /\ c.to = b /\ c.open = {}
          /\ c.seen = IF op \in {"uphold", "dismiss"} THEN P!Unseen
                      ELSE [status |-> posts[p].status, board |-> posts[p].board]
          /\ \A g \in PostHandlers : postReq'[g] = IF g = h THEN c ELSE postReq[g]
    BY <1>6, <1>a, CallBegins
  <2>2. /\ Busy = {} /\ recount = P!NoRecount /\ UNCHANGED <<posts, postCount, recount, bent>>
        /\ ~posts[p].gone /\ (op = "publish" => posts[p].status \in {"DRAFT", "PUBLISHED"})
    BY <1>6 DEF P!Begin, P!Free, P!Admits, P!Exists, Busy
  <2>3. Busy' \subseteq {h}
    BY <2>1, <2>2 DEF Busy
  <2>4. P!CountRight' <=> P!CountRight
    BY <2>2 DEF P!CountRight, P!RealCount, P!Counted
  <2>5. P!NoRecount' = P!NoRecount /\ P!Unseen' = P!Unseen
    BY DEF P!NoRecount, P!Unseen, P!AnyBoard
  <2> QED
    BY <2>1, <2>2, <2>3, <2>4, <2>5 DEF Current
<1>7. ASSUME NEW h \in PostHandlers, P!CountReports(h)
      PROVE  Current'
  <2>1. PICK n : postReq' = [postReq EXCEPT ![h] = [postReq[h] EXCEPT !.op = "reported", !.heard = n]]
    BY <1>7 DEF P!CountReports
  <2>2. /\ \A g \in PostHandlers : g # h => postReq'[g] = postReq[g]
        /\ postReq'[h].op = "reported" /\ postReq'[h].seen = postReq[h].seen
        /\ postReq'[h].post = postReq[h].post
    BY <1>a, <1>b, <2>1 DEF P!TypeOK, PostCalls
  <2>3. postReq[h].op = "report" /\ UNCHANGED <<posts, postCount, recount, bent>>
    BY <1>7 DEF P!CountReports
  <2>4. Busy' \subseteq Busy /\ h \in Busy
    BY <2>2, <2>3 DEF Busy
  <2>5. (P!CountRight' <=> P!CountRight) /\ \A b : P!RealCount(b)' = P!RealCount(b)
    BY <2>3 DEF P!CountRight, P!RealCount, P!Counted
  <2>6. P!NoRecount' = P!NoRecount /\ P!Unseen' = P!Unseen /\ P!Skip' = P!Skip
    BY DEF P!NoRecount, P!Unseen, P!AnyBoard, P!Skip
  <2>7. ASSUME NEW g \in Busy'
        PROVE  /\ ~posts'[postReq'[g].post].gone
               /\ \/ postReq'[g].op \in {"uphold", "dismiss"} /\ postReq'[g].seen = P!Unseen'
                  \/ /\ postReq'[g].seen.status = posts'[postReq'[g].post].status
                     /\ postReq'[g].seen.board = posts'[postReq'[g].post].board
               /\ postReq'[g].op = "publish" => posts'[postReq'[g].post].status \in {"DRAFT", "PUBLISHED"}
    <3>1. g \in Busy /\ g \in PostHandlers
      BY <2>4 DEF Busy
    <3>2. CASE g = h
      BY <3>2, <2>2, <2>3, <2>4 DEF Current
    <3>3. CASE g # h
      BY <3>1, <3>3, <2>2, <2>3, <2>6 DEF Current
    <3> QED
      BY <3>2, <3>3
  <2>8. recount' = recount /\ (bent' <=> bent) /\ posts' = posts /\ postCount' = postCount
    BY <2>3
  <2>9. recount' # P!NoRecount' =>
          \A b \in BoardIds :
            \/ recount'[b] = P!RealCount(b)'
            \/ recount'[b] = P!Skip' /\ postCount'[b] = P!RealCount(b)'
    BY <2>5, <2>6, <2>8 DEF Current
  <2>10. /\ \A p \in PostIds : posts'[p].gone <=> posts'[p].status = "DELETED"
         /\ ~bent' => P!CountRight'
    BY <2>5, <2>8 DEF Current
  <2> QED
    BY <2>7, <2>9, <2>10 DEF Current
<1>8. ASSUME NEW h \in PostHandlers, P!Judge(h)
      PROVE  Current'
  <2>1. PICK c \in PostCalls :
           /\ c.op = postReq[h].op /\ c.post = postReq[h].post /\ c.by = postReq[h].by
           /\ c.open = P!Open(postReq[h].post)
           /\ c.seen.status = IF posts[postReq[h].post].gone THEN "DELETED"
                              ELSE posts[postReq[h].post].status
           /\ c.seen.board = posts[postReq[h].post].board
           /\ \A g \in PostHandlers : postReq'[g] = IF g = h THEN c ELSE postReq[g]
    BY <1>8, <1>a, CallJudges
  <2>3. postReq[h].op \in {"uphold", "dismiss"} /\ UNCHANGED <<posts, postCount, recount, bent>>
    BY <1>8 DEF P!Judge
  <2>4. Busy' \subseteq Busy /\ h \in Busy
    BY <2>1, <2>3 DEF Busy
  <2>5. (P!CountRight' <=> P!CountRight) /\ \A b : P!RealCount(b)' = P!RealCount(b)
    BY <2>3 DEF P!CountRight, P!RealCount, P!Counted
  <2>6. P!NoRecount' = P!NoRecount /\ P!Unseen' = P!Unseen /\ P!Skip' = P!Skip
    BY DEF P!NoRecount, P!Unseen, P!AnyBoard, P!Skip
  <2>7. ASSUME NEW g \in Busy'
        PROVE  /\ ~posts'[postReq'[g].post].gone
               /\ \/ postReq'[g].op \in {"uphold", "dismiss"} /\ postReq'[g].seen = P!Unseen'
                  \/ /\ postReq'[g].seen.status = posts'[postReq'[g].post].status
                     /\ postReq'[g].seen.board = posts'[postReq'[g].post].board
               /\ postReq'[g].op = "publish" => posts'[postReq'[g].post].status \in {"DRAFT", "PUBLISHED"}
    <3>1. g \in Busy /\ g \in PostHandlers
      BY <2>4 DEF Busy
    <3>2. CASE g = h
      <4>1. postReq'[h] = c /\ ~posts[postReq[h].post].gone
        BY <2>1, <2>4 DEF Current
      <4> QED
        BY <3>2, <4>1, <2>1, <2>3
    <3>3. CASE g # h
      BY <3>1, <3>3, <2>1, <2>3, <2>6 DEF Current
    <3> QED
      BY <3>2, <3>3
  <2>8. recount' = recount /\ (bent' <=> bent) /\ posts' = posts /\ postCount' = postCount
    BY <2>3
  <2>9. recount' # P!NoRecount' =>
          \A b \in BoardIds :
            \/ recount'[b] = P!RealCount(b)'
            \/ recount'[b] = P!Skip' /\ postCount'[b] = P!RealCount(b)'
    BY <2>5, <2>6, <2>8 DEF Current
  <2>10. /\ \A p \in PostIds : posts'[p].gone <=> posts'[p].status = "DELETED"
         /\ ~bent' => P!CountRight'
    BY <2>5, <2>8 DEF Current
  <2> QED
    BY <2>7, <2>9, <2>10 DEF Current
<1>9. ASSUME NEW h \in PostHandlers, P!Publish(h)
      PROVE  Current'
  <2> DEFINE q == postReq[h]
  <2>0. PICK x \in PostIds : x = postReq[h].post
    BY <1>b
  <2>1. P!Finish(h) /\ h \in Busy /\ q.op = "publish" /\ UNCHANGED <<recount, bent>>
    BY <1>9 DEF P!Publish, Busy
  <2>2. ~posts[q.post].gone /\ q.seen.status = posts[q.post].status /\ q.seen.board = posts[q.post].board
    BY <2>1 DEF Current
  <2>3. CASE q.seen.status = "DRAFT"
    <3>1. P!Put(q.post, [posts[q.post] EXCEPT !.status = "PUBLISHED"]) /\ P!Count(q.seen.board, 1)
      BY <1>9, <2>3 DEF P!Publish
    <3>2. /\ \A o \in PostIds : o # q.post => posts'[o] = posts[o]
          /\ posts'[q.post].status = "PUBLISHED" /\ posts'[q.post].gone = posts[q.post].gone
          /\ posts'[q.post].board = posts[q.post].board
      BY <1>a, <1>b, <3>1, StatusWritten
    <3>3. \A b \in BoardIds :
            Weight(x, b) = 0 /\ Weight(x, b)' = IF b = q.seen.board THEN 1 ELSE 0
      BY <2>0, <2>2, <2>3, <3>2 DEF Weight, P!Counted
    <3>4. \A b \in BoardIds : postCount'[b] = postCount[b] + Weight(x, b)' - Weight(x, b)
      BY <1>a, <1>d, <3>1, <3>3 DEF P!Count, P!TypeOK
    <3>5. ~bent' => P!CountRight'
      BY <1>4, <2>0, <2>1, <3>2, <3>4
    <3>6. \A p \in PostIds : posts'[p].gone <=> posts'[p].status = "DELETED"
      BY <1>c, <2>2, <3>2
    <3> QED
      BY <1>a, <2>1, <3>5, <3>6, CurrentEnds
  <2>4. CASE q.seen.status # "DRAFT"
    <3>1. UNCHANGED <<posts, postCount>>
      BY <1>9, <2>4 DEF P!Publish
    <3>2. P!CountRight' <=> P!CountRight
      BY <3>1 DEF P!CountRight, P!RealCount, P!Counted
    <3>3. ~bent' => P!CountRight'
      BY <2>1, <3>2 DEF Current
    <3> QED
      BY <1>a, <1>c, <2>1, <3>1, <3>3, CurrentEnds
  <2> QED
    BY <2>3, <2>4
<1>10. ASSUME NEW h \in PostHandlers, P!Finish(h), h \in Busy, recount' = recount,
              P!Put(postReq[h].post, P!Gone(posts[postReq[h].post])),
              postReq[h].seen.status = posts[postReq[h].post].status,
              postReq[h].seen.board = posts[postReq[h].post].board,
              ~bent' => ~bent /\ IF postReq[h].seen.status = "PUBLISHED"
                                 THEN P!Count(postReq[h].seen.board, -1) ELSE UNCHANGED postCount
       PROVE  Current'
  <2> DEFINE q == postReq[h]
  <2>0. PICK x \in PostIds : x = postReq[h].post
    BY <1>b
  <2>1. ~posts[q.post].gone
    BY <1>10 DEF Current
  <2>2. /\ \A o \in PostIds : o # q.post => posts'[o] = posts[o]
        /\ posts'[q.post].status = "DELETED" /\ posts'[q.post].gone
    BY <1>a, <1>b, <1>10, RowDeleted
  <2>3. \A b \in BoardIds :
          /\ Weight(x, b) = IF q.seen.status = "PUBLISHED" /\ b = q.seen.board THEN 1 ELSE 0
          /\ Weight(x, b)' = 0
    BY <1>10, <2>0, <2>1, <2>2 DEF Weight, P!Counted
  <2>4. ~bent' => \A b \in BoardIds : postCount'[b] = postCount[b] + Weight(x, b)' - Weight(x, b)
    BY <1>10, <1>a, <1>d, <2>3 DEF P!Count, P!TypeOK
  <2>5. ~bent' => P!CountRight'
    BY <1>4, <2>0, <1>10, <2>2, <2>4
  <2>6. \A p \in PostIds : posts'[p].gone <=> posts'[p].status = "DELETED"
    BY <1>c, <2>2
  <2> QED
    BY <1>a, <1>10, <2>5, <2>6, CurrentEnds
<1>11. ASSUME NEW h \in PostHandlers, P!SoftDelete(h)
       PROVE  Current'
  <2>1. P!Finish(h) /\ h \in Busy /\ postReq[h].op = "delete" /\ UNCHANGED <<recount, bent>>
        /\ P!Put(postReq[h].post, P!Gone(posts[postReq[h].post]))
        /\ IF postReq[h].seen.status = "PUBLISHED" THEN P!Count(postReq[h].seen.board, -1)
           ELSE UNCHANGED postCount
    BY <1>11 DEF P!SoftDelete, Busy
  <2>2. postReq[h].seen.status = posts[postReq[h].post].status
        /\ postReq[h].seen.board = posts[postReq[h].post].board
    BY <2>1 DEF Current
  <2> QED
    BY <1>10, <2>1, <2>2
<1>12. ASSUME NEW h \in PostHandlers, P!Purge(h)
       PROVE  Current'
  <2>1. P!Finish(h) /\ h \in Busy /\ postReq[h].op = "purge" /\ recount' = recount
        /\ P!Put(postReq[h].post, P!Gone(posts[postReq[h].post]))
        /\ P!Count(postReq[h].seen.board, -1)
        /\ bent' = (bent \/ (solo /\ postReq[h].seen.status # "PUBLISHED"))
    BY <1>12 DEF P!Purge, Busy
  <2>2. postReq[h].seen.status = posts[postReq[h].post].status
        /\ postReq[h].seen.board = posts[postReq[h].post].board
    BY <2>1 DEF Current
  <2> QED
    BY <1>10, <2>1, <2>2
<1>13. ASSUME NEW h \in PostHandlers, P!Moderate(h)
       PROVE  Current'
  <2> DEFINE q == postReq[h]
  <2>0. PICK x \in PostIds : x = postReq[h].post
    BY <1>b
  <2>1. P!Finish(h) /\ h \in Busy /\ q.op \in {"keep", "hide", "show"} /\ UNCHANGED <<recount, bent>>
    BY <1>13 DEF P!Moderate, Busy
  <2>2. ~posts[q.post].gone /\ q.seen.status = posts[q.post].status /\ q.seen.board = posts[q.post].board
        /\ q.seen.status # "DELETED"
    BY <1>b, <1>c, <2>1 DEF Current
  <2> DEFINE st == IF q.op = "hide" THEN "HIDDEN" ELSE IF q.op = "show" THEN "PUBLISHED" ELSE q.seen.status
  <2>3. /\ \A o \in PostIds : o # q.post => posts'[o] = posts[o]
        /\ posts'[q.post].gone = posts[q.post].gone /\ posts'[q.post].status = st
        /\ posts'[q.post].board = q.to
    BY <1>13, <1>a, <1>b, <2>2, RowModerated
  <2>4. \A b \in BoardIds :
          postCount'[b] = postCount[b] + (IF b = q.to THEN IF st = "PUBLISHED" THEN 1 ELSE 0 ELSE 0)
                          - (IF b = q.seen.board THEN IF q.seen.status = "PUBLISHED" THEN 1 ELSE 0 ELSE 0)
    <3> DEFINE next == [posts[q.post] EXCEPT
                          !.status = CASE q.op = "hide" -> "HIDDEN"
                                       [] q.op = "show" -> "PUBLISHED"
                                       [] OTHER -> @,
                          !.board = IF q.to = q.seen.board THEN @ ELSE q.to]
    <3>1. next.status = st
      BY <1>a, <1>b, <2>2 DEF P!TypeOK, P!Row
    <3>2. postCount' = [b \in BoardIds |->
            postCount[b] + (IF b = q.to THEN IF next.status = "PUBLISHED" THEN 1 ELSE 0 ELSE 0)
            - (IF b = q.seen.board THEN IF q.seen.status = "PUBLISHED" THEN 1 ELSE 0 ELSE 0)]
      BY <1>13 DEF P!Moderate
    <3> HIDE DEF next
    <3> QED
      BY <3>1, <3>2
  <2>5. \A b \in BoardIds :
          /\ Weight(x, b) = IF b = q.seen.board THEN IF q.seen.status = "PUBLISHED" THEN 1 ELSE 0 ELSE 0
          /\ Weight(x, b)' = IF b = q.to THEN IF st = "PUBLISHED" THEN 1 ELSE 0 ELSE 0
    BY <2>0, <2>2, <2>3 DEF Weight, P!Counted
  <2> HIDE DEF st
  <2>6. \A b \in BoardIds : postCount'[b] = postCount[b] + Weight(x, b)' - Weight(x, b)
    BY <2>4, <2>5
  <2>7. ~bent' => P!CountRight'
    BY <1>4, <2>0, <2>1, <2>3, <2>6
  <2>8. \A p \in PostIds : posts'[p].gone <=> posts'[p].status = "DELETED"
    BY <1>c, <2>2, <2>3 DEF st
  <2> QED
    BY <1>a, <2>1, <2>7, <2>8, CurrentEnds
<1>14. ASSUME NEW h \in PostHandlers, P!RefuseReport(h)
       PROVE  Current'
  <2>1. P!Finish(h) /\ h \in Busy /\ UNCHANGED <<posts, postCount, recount, bent>>
    BY <1>14 DEF P!RefuseReport, Busy
  <2>2. P!CountRight' <=> P!CountRight
    BY <2>1 DEF P!CountRight, P!RealCount, P!Counted
  <2>3. ~bent' => P!CountRight'
    BY <2>1, <2>2 DEF Current
  <2> QED
    BY <1>a, <1>c, <2>1, <2>3, CurrentEnds
<1>15. ASSUME NEW h \in PostHandlers, NEW s \in {"HIDDEN", "PUBLISHED"},
              P!Finish(h), h \in Busy, recount' = recount, bent',
              P!Put(postReq[h].post, [posts[postReq[h].post] EXCEPT !.status = s])
       PROVE  Current'
  <2>1. ~posts[postReq[h].post].gone
    BY <1>15 DEF Current
  <2>a. PICK x \in PostIds : x = postReq[h].post
    BY <1>b
  <2>b. P!Put(x, [posts[x] EXCEPT !.status = s])
    BY <1>15, <2>a
  <2>c. (\A o \in PostIds : o # x => posts'[o] = posts[o])
        /\ posts'[x].status = s /\ posts'[x].gone = posts[x].gone
    BY <1>a, <2>b, StatusWritten
  <2>2. \A p \in PostIds : posts'[p].gone <=> posts'[p].status = "DELETED"
    BY <1>c, <2>1, <2>a, <2>c
  <2> QED
    BY <1>15, <1>a, <2>2, CurrentEnds
<1>16. ASSUME NEW h \in PostHandlers, P!CommitReport(h)
       PROVE  Current'
  <2> DEFINE hide == postReq[h].heard >= AutoHideThreshold /\ postReq[h].seen.status = "PUBLISHED"
  <2>1. P!Finish(h) /\ h \in Busy /\ UNCHANGED <<postCount, recount>>
        /\ bent' = (bent \/ (solo /\ hide))
        /\ IF hide THEN P!Put(postReq[h].post, [posts[postReq[h].post] EXCEPT !.status = "HIDDEN"])
           ELSE UNCHANGED posts
    BY <1>16 DEF P!CommitReport, Busy
  <2>2. CASE hide
    BY <1>15, <2>1, <2>2
  <2>3. CASE ~hide
    <3>1. posts' = posts /\ (bent' <=> bent)
      BY <2>1, <2>3
    <3>2. P!CountRight' <=> P!CountRight
      BY <2>1, <3>1 DEF P!CountRight, P!RealCount, P!Counted
    <3>3. ~bent' => P!CountRight'
      BY <3>1, <3>2 DEF Current
    <3> QED
      BY <1>a, <1>c, <2>1, <3>1, <3>3, CurrentEnds
  <2> QED
    BY <2>2, <2>3
<1>17. ASSUME NEW h \in PostHandlers, P!Resolve(h)
       PROVE  Current'
  <2> DEFINE q == postReq[h]
  <2>1. /\ P!Finish(h) /\ h \in Busy /\ recount' = recount /\ q.op \in {"uphold", "dismiss"}
        /\ q.seen # P!Unseen
        /\ bent' = (bent \/ (solo /\ q.op = "dismiss" /\ q.seen.status = "HIDDEN"))
    BY <1>17 DEF P!Resolve, Busy
  <2>2. /\ ~posts[q.post].gone /\ q.seen.status = posts[q.post].status
        /\ q.seen.board = posts[q.post].board
    BY <2>1 DEF Current
  <2>3. q.seen.status # "DELETED"
    BY <1>b, <1>c, <2>2
  <2>4. CASE q.op = "uphold"
    <3>1. /\ P!Put(q.post, P!Gone(posts[q.post]))
          /\ IF q.seen.status = "PUBLISHED" THEN P!Count(q.seen.board, -1) ELSE UNCHANGED postCount
      BY <1>17, <2>3, <2>4 DEF P!Resolve
    <3> QED
      BY <1>10, <2>1, <2>2, <2>4, <3>1
  <2>5. CASE q.op = "dismiss" /\ q.seen.status = "HIDDEN"
    <3>1. P!Put(q.post, [posts[q.post] EXCEPT !.status = "PUBLISHED"])
      BY <1>17, <2>5 DEF P!Resolve
    <3> QED
      BY <1>15, <2>1, <2>5, <3>1
  <2>6. CASE q.op = "dismiss" /\ q.seen.status # "HIDDEN"
    <3>1. UNCHANGED <<posts, postCount>> /\ (bent' <=> bent)
      BY <1>17, <2>1, <2>6 DEF P!Resolve
    <3>2. P!CountRight' <=> P!CountRight
      BY <3>1 DEF P!CountRight, P!RealCount, P!Counted
    <3>3. ~bent' => P!CountRight'
      BY <3>1, <3>2 DEF Current
    <3> QED
      BY <1>a, <1>c, <2>1, <3>1, <3>3, CurrentEnds
  <2> QED
    BY <2>1, <2>4, <2>5, <2>6
<1>18. ASSUME NEW h \in PostHandlers, P!Commit(h) PROVE Current'
  BY <1>7, <1>8, <1>9, <1>11, <1>12, <1>13, <1>14, <1>16, <1>17, <1>18 DEF P!Commit
<1>19. CASE P!CalmDown \/ UNCHANGED <<solo, postOnly>>
  BY <1>1, <1>19 DEF postOnly, P!CalmDown
<1> QED
  BY <1>2, <1>3, <1>5, <1>6, <1>18, <1>19 DEF PostMove, P!Next, P!Patrol

LEMMA CountInvariant == BoardSpec => []CountIInv
<1>1. BoardInit => CountIInv
  <2> SUFFICES ASSUME BoardInit PROVE CountIInv
    OBVIOUS
  <2>1. P!Init
    BY DEF BoardInit
  <2>2. PostIInv
    BY PostInit
  <2>3. \A p \in PostIds : posts[p].status = "none" /\ ~posts[p].gone
    BY <2>1 DEF P!Init, P!NoRow
  <2>4. Busy = {} /\ recount = P!NoRecount
    BY <2>1 DEF P!Init, Busy, P!Idle
  <2>5. \A b \in BoardIds : postCount[b] = 0 /\ P!RealCount(b) = 0
    <3>1. \A b : {p \in PostIds : P!Counted(p, b)} = {}
      BY <2>3 DEF P!Counted
    <3> QED
      BY <2>1, <3>1, PostCardinality, FS_EmptySet DEF P!Init, P!RealCount
  <2>6. OneAtATime /\ \A p \in PostIds : Heeded(p)
    BY <2>3, <2>4 DEF OneAtATime, Heeded
  <2>7. Current
    BY <2>3, <2>4, <2>5 DEF Current, P!CountRight
  <2> QED
    BY <2>2, <2>6, <2>7 DEF CountIInv, HeedIInv
<1>2. CountIInv /\ [BoardNext]_vars => CountIInv'
  <2> SUFFICES ASSUME CountIInv, [BoardNext]_vars PROVE CountIInv'
    OBVIOUS
  <2>1. PostMove /\ HeedIInv /\ P!TypeOK /\ OneAtATime /\ PostIInv
    BY PostMoves DEF CountIInv, HeedIInv, PostIInv
  <2>2. PostIInv' /\ OneAtATime' /\ solo' = solo /\ \A p \in PostIds : Heeded(p)'
    BY <2>1, PostStep, OneAtATimeStep, HeedStep
  <2>3. solo' => Current'
    BY <2>1, <2>2, CurrentStep DEF CountIInv
  <2> QED
    BY <2>2, <2>3 DEF CountIInv, HeedIInv
<1> QED
  BY <1>1, <1>2, PTL DEF BoardSpec

\* Moderation: where requests come one at a time a row is marked deleted if and only if its
\* status says so; however they overlap a post whose reports were upheld is gone
\* (reports.service resolve), and one that nobody showed over its reports does not stay
\* public with more of them than the threshold and the requests in flight allow (report).
THEOREM ModerationStands == BoardSpec => []Moderation
<1>1. ASSUME CountIInv PROVE Moderation
  <2>1. P!GoneIsDeleted
    BY <1>1 DEF CountIInv, Current, P!GoneIsDeleted
  <2>2. P!UpheldIsGone
    BY <1>1 DEF CountIInv, HeedIInv, PostIInv
  <2>3. P!ReportsAreHeard
    <3> SUFFICES ASSUME NEW p \in PostIds, posts[p].status = "PUBLISHED", ~posts[p].gone, ~released[p]
                 PROVE  P!Cardinality(P!Open(p)) <
                          AutoHideThreshold + (IF solo THEN 0 ELSE P!Cardinality(PostHandlers) - 1)
      BY DEF P!ReportsAreHeard
    <3>1. Cardinality(P!Open(p)) + Cardinality(Quiet(p)) < AutoHideThreshold + AtOnce - 1
      BY <1>1 DEF CountIInv, HeedIInv, Heeded
    <3>2. Cardinality(P!Open(p)) \in Nat /\ Cardinality(Quiet(p)) \in Nat
      BY QuietSizes
    <3>3. Cardinality(PostHandlers) \in Nat
      BY BoardAssumption, FS_CardinalityType
    <3> QED
      BY <3>1, <3>2, <3>3, PostCardinality, BoardAssumption DEF AtOnce
  <2> QED
    BY <2>1, <2>2, <2>3 DEF Moderation, P!Moderation
<1> QED
  BY <1>1, CountInvariant, PTL

LEMMA PostsCounted == CountIInv => P!CountIsExact
BY DEF CountIInv, Current, P!CountIsExact

-----------------------------------------------------------------------------
(* The views.  How many are kept in several places is the size of a set of *)
(* tokens: a place k that keeps w[k] views has the tokens <<k, 1>>, ...,   *)
(* <<k, w[k]>>.                                                            *)

Tokens(w) == {t \in (DOMAIN w) \X Nat : t[2] \in 1..w[t[1]]}
Total(w)  == Cardinality(Tokens(w))

\* As many numbered tokens as the number says.
LEMMA TokensOfOne ==
  ASSUME NEW k, NEW n \in Nat
  PROVE  IsFiniteSet({<<k, j>> : j \in 1..n}) /\ Cardinality({<<k, j>> : j \in 1..n}) = n
<1> DEFINE S == {<<k, j>> : j \in 1..n}
           f == [j \in 1..n |-> <<k, j>>]
<1>1. f \in Bijection(1..n, S)
  BY DEF Bijection, Injection, Surjection, IsInjective
<1>2. IsFiniteSet(1..n) /\ Cardinality(1..n) = n
  BY FS_Interval
<1> QED
  BY <1>1, <1>2, FS_Bijection DEF ExistsBijection

\* One place changes what it keeps.
LEMMA TotalMoves ==
  ASSUME NEW K, NEW w \in [K -> Nat], NEW v \in [K -> Nat], NEW k \in K,
         \A j \in K : j # k => v[j] = w[j], IsFiniteSet(Tokens(w))
  PROVE  /\ IsFiniteSet(Tokens(v)) /\ Total(w) \in Nat
         /\ Total(v) \in Nat /\ Total(v) = Total(w) - w[k] + v[k]
<1> DEFINE A == {<<k, j>> : j \in 1..w[k]}
           B == {<<k, j>> : j \in 1..v[k]}
           R == {t \in Tokens(w) : t[1] # k}
<1>1. Tokens(w) = R \cup A /\ R \cap A = {}
  BY DEF Tokens
<1>2. Tokens(v) = R \cup B /\ R \cap B = {}
  BY DEF Tokens
<1>3. IsFiniteSet(A) /\ Cardinality(A) = w[k] /\ IsFiniteSet(B) /\ Cardinality(B) = v[k]
  BY TokensOfOne
<1>4. IsFiniteSet(R)
  BY FS_Subset
<1> HIDE DEF A, B, R
<1>a. Cardinality(R) \in Nat /\ Cardinality({}) = 0
  BY <1>4, FS_EmptySet, FS_CardinalityType
<1>b. Cardinality(R \cup A) = Cardinality(R) + Cardinality(A) - Cardinality(R \cap A)
  BY <1>3, <1>4, FS_Union
<1>c. Cardinality(R \cup B) = Cardinality(R) + Cardinality(B) - Cardinality(R \cap B) /\ IsFiniteSet(R \cup B)
  BY <1>3, <1>4, FS_Union
<1>5. Total(w) = Cardinality(R) + w[k] /\ Total(w) \in Nat
  BY <1>1, <1>3, <1>a, <1>b DEF Total
<1>6. Total(v) = Cardinality(R) + v[k] /\ Total(v) \in Nat /\ IsFiniteSet(Tokens(v))
  BY <1>2, <1>3, <1>a, <1>c DEF Total
<1> QED
  BY <1>a, <1>5, <1>6

\* No place keeps more than it did.
LEMMA TotalShrinks ==
  ASSUME NEW K, NEW w \in [K -> Nat], NEW v \in [K -> Nat],
         \A j \in K : v[j] <= w[j], IsFiniteSet(Tokens(w))
  PROVE  /\ IsFiniteSet(Tokens(v)) /\ Total(w) \in Nat
         /\ Total(v) \in Nat /\ Total(v) <= Total(w)
<1>1. Tokens(v) \subseteq Tokens(w)
  <2> SUFFICES ASSUME NEW t \in Tokens(v) PROVE t \in Tokens(w)
    OBVIOUS
  <2>1. t \in K \X Nat /\ t[2] \in 1..v[t[1]]
    BY DEF Tokens
  <2>2. v[t[1]] \in Nat /\ w[t[1]] \in Nat /\ v[t[1]] <= w[t[1]]
    BY <2>1
  <2> QED
    BY <2>1, <2>2 DEF Tokens
<1> QED
  BY <1>1, FS_Subset, FS_CardinalityType DEF Total

\* What the buffers of the instances and the batches of their flushes keep of a post.
Buffered(p)     == [i \in Instances |-> buffer[i][p]]
Waiting(p)      == [k \in Instances \X Flushes |->
                      IF p \in unwritten[k[1]][k[2]] THEN batch[k[1]][k[2]][p] ELSE 0]
Kept(p)         == Total(Buffered(p)) + Total(Waiting(p))

\* The views of a post are stored or kept: no more than there were unless a failing
\* flush gave some of them back twice, no fewer unless a crash lost some.
ViewIInv ==
  /\ V!TypeOK
  /\ \A p \in Viewed :
       /\ IsFiniteSet(Tokens(Buffered(p))) /\ IsFiniteSet(Tokens(Waiting(p)))
       /\ ~failed => stored[p] + Kept(p) <= seen[p]
       /\ ~crashed => stored[p] + Kept(p) >= seen[p]

ViewMove == V!Next \/ UNCHANGED viewOnly

LEMMA ViewTypeStep == V!TypeOK /\ ViewMove => V!TypeOK'
<1> SUFFICES ASSUME V!TypeOK, ViewMove PROVE V!TypeOK'
  OBVIOUS
<1> USE BoardAssumption
<1>1. CASE UNCHANGED viewOnly
  BY <1>1 DEF viewOnly, V!TypeOK
<1>2. ASSUME NEW i \in Instances, NEW p \in Viewed, V!Bump(i, p) PROVE V!TypeOK'
  BY <1>2 DEF V!Bump, V!TypeOK
<1>3. ASSUME NEW i \in Instances, NEW f \in Flushes, V!Swap(i, f) PROVE V!TypeOK'
  BY <1>3 DEF V!Swap, V!TypeOK, V!Nowhere, V!NonEmpty
<1>4. ASSUME NEW i \in Instances, NEW f \in Flushes, NEW p \in Viewed, V!Write(i, f, p) PROVE V!TypeOK'
  BY <1>4 DEF V!Write, V!TypeOK
<1>5. ASSUME NEW i \in Instances, NEW f \in Flushes, V!GiveBack(i, f) PROVE V!TypeOK'
  <2>1. buffer' \in [Instances -> [Viewed -> Nat]]
    BY <1>5 DEF V!GiveBack, V!TypeOK
  <2> QED
    BY <1>5, <2>1 DEF V!GiveBack, V!TypeOK
<1>6. ASSUME NEW i \in Instances, V!Crash(i) PROVE V!TypeOK'
  BY <1>6 DEF V!Crash, V!TypeOK, V!Nowhere
<1> QED
  BY <1>1, <1>2, <1>3, <1>4, <1>5, <1>6 DEF ViewMove, V!Next, V!Flush

LEMMA KeptTypes ==
  ASSUME V!TypeOK, NEW p \in Viewed
  PROVE  Buffered(p) \in [Instances -> Nat] /\ Waiting(p) \in [Instances \X Flushes -> Nat]
BY DEF V!TypeOK, Buffered, Waiting

\* What a step does to the views that are kept of p.
LEMMA KeptMoves ==
  ASSUME V!TypeOK, ViewMove, NEW p \in Viewed,
         IsFiniteSet(Tokens(Buffered(p))), IsFiniteSet(Tokens(Waiting(p)))
  PROVE  /\ IsFiniteSet(Tokens(Buffered(p))') /\ IsFiniteSet(Tokens(Waiting(p))')
         /\ Kept(p) \in Nat /\ Kept(p)' \in Nat
         /\ (failed => failed') /\ (crashed => crashed')
         /\ ~failed' => stored'[p] + Kept(p)' - seen'[p] <= stored[p] + Kept(p) - seen[p]
         /\ ~crashed' => stored'[p] + Kept(p)' - seen'[p] >= stored[p] + Kept(p) - seen[p]
<1> DEFINE K == Instances \X Flushes
           B == Buffered(p)
           W == Waiting(p)
           B1 == [i \in Instances |-> buffer'[i][p]]
           W1 == [k \in K |-> IF p \in unwritten'[k[1]][k[2]] THEN batch'[k[1]][k[2]][p] ELSE 0]
<1>1. V!TypeOK'
  BY ViewTypeStep
<1>2. B \in [Instances -> Nat] /\ W \in [K -> Nat] /\ B1 \in [Instances -> Nat] /\ W1 \in [K -> Nat]
  BY <1>1 DEF V!TypeOK, Buffered, Waiting
<1>3. Buffered(p)' = B1 /\ Waiting(p)' = W1 /\ Kept(p)' = Total(B1) + Total(W1)
      /\ Tokens(Buffered(p))' = Tokens(B1) /\ Tokens(Waiting(p))' = Tokens(W1)
  BY DEF Buffered, Waiting, Kept, Tokens, Total
<1>4. Kept(p) = Total(B) + Total(W) /\ IsFiniteSet(Tokens(B)) /\ IsFiniteSet(Tokens(W))
      /\ Total(B) \in Nat /\ Total(W) \in Nat
  BY FS_CardinalityType DEF Kept, Total
<1>5. stored[p] \in Nat /\ seen[p] \in Nat
  BY DEF V!TypeOK
<1>6. /\ \A i \in Instances : B[i] = buffer[i][p] /\ B1[i] = buffer'[i][p]
      /\ \A k \in K : /\ W[k] = IF p \in unwritten[k[1]][k[2]] THEN batch[k[1]][k[2]][p] ELSE 0
                      /\ W1[k] = IF p \in unwritten'[k[1]][k[2]] THEN batch'[k[1]][k[2]][p] ELSE 0
  BY DEF Buffered, Waiting
<1> DEFINE Goal == /\ IsFiniteSet(Tokens(B1)) /\ IsFiniteSet(Tokens(W1))
                   /\ Total(B1) \in Nat /\ Total(W1) \in Nat
                   /\ (failed => failed') /\ (crashed => crashed')
                   /\ ~failed' => stored'[p] + (Total(B1) + Total(W1)) - seen'[p]
                                    <= stored[p] + (Total(B) + Total(W)) - seen[p]
                   /\ ~crashed' => stored'[p] + (Total(B1) + Total(W1)) - seen'[p]
                                     >= stored[p] + (Total(B) + Total(W)) - seen[p]
<1>7. SUFFICES Goal
  BY <1>3, <1>4
<1> HIDE DEF B, W, B1, W1
<1>8. ASSUME B1 = B, W1 = W, stored' = stored, seen' = seen, failed => failed', crashed => crashed'
      PROVE  Goal
  BY <1>8, <1>4, <1>5
<1>9. CASE UNCHANGED viewOnly
  <2>1. B1 = B /\ W1 = W
    BY <1>9 DEF viewOnly, B, B1, W, W1, Buffered, Waiting
  <2> QED
    BY <1>8, <1>9, <2>1 DEF viewOnly
<1>10. ASSUME NEW i \in Instances, NEW q \in Viewed, V!Bump(i, q) PROVE Goal
  <2>1. UNCHANGED <<stored, batch, unwritten, failed, crashed>>
        /\ seen' = [seen EXCEPT ![q] = @ + 1] /\ buffer' = [buffer EXCEPT ![i][q] = @ + 1]
    BY <1>10 DEF V!Bump
  <2>2. W1 = W
    BY <2>1 DEF W, W1, Waiting
  <2>3. CASE p # q
    <3>1. B1 = B /\ seen'[p] = seen[p]
      BY <2>1, <2>3 DEF B, B1, Buffered, V!TypeOK
    <3> QED
      BY <2>1, <2>2, <3>1, <1>4, <1>5
  <2>4. CASE p = q
    <3>1. seen'[p] = seen[p] + 1 /\ B1[i] = B[i] + 1 /\ \A j \in Instances : j # i => B1[j] = B[j]
      BY <2>1, <2>4, <1>6 DEF V!TypeOK
    <3>2. IsFiniteSet(Tokens(B1)) /\ Total(B1) \in Nat /\ Total(B1) = Total(B) - B[i] + B1[i]
      BY <1>2, <1>4, <3>1, TotalMoves
    <3> QED
      BY <2>1, <2>2, <3>1, <3>2, <1>2, <1>4, <1>5
  <2> QED
    BY <2>3, <2>4
<1>11. ASSUME NEW i \in Instances, NEW f \in Flushes,
              \A j \in Instances : j # i => B1[j] = B[j], \A k \in K : k # <<i, f>> => W1[k] = W[k]
       PROVE  /\ IsFiniteSet(Tokens(B1)) /\ Total(B1) \in Nat /\ Total(B1) = Total(B) - B[i] + B1[i]
              /\ IsFiniteSet(Tokens(W1)) /\ Total(W1) \in Nat
              /\ Total(W1) = Total(W) - W[<<i, f>>] + W1[<<i, f>>]
              /\ W[<<i, f>>] \in Nat /\ W1[<<i, f>>] \in Nat /\ B[i] \in Nat /\ B1[i] \in Nat
  <2>1. IsFiniteSet(Tokens(B1)) /\ Total(B1) \in Nat /\ Total(B1) = Total(B) - B[i] + B1[i]
    BY <1>2, <1>4, <1>11, TotalMoves
  <2>2. PICK k \in K : k = <<i, f>>
    OBVIOUS
  <2> HIDE DEF K
  <2>a. \A j \in K : j # k => W1[j] = W[j]
    BY <1>11, <2>2
  <2>3. IsFiniteSet(Tokens(W1)) /\ Total(W1) \in Nat /\ Total(W1) = Total(W) - W[k] + W1[k]
    BY <1>2, <1>4, <2>a, TotalMoves
  <2> QED
    BY <1>2, <2>1, <2>2, <2>3
<1>12. ASSUME NEW i \in Instances, NEW f \in Flushes, V!Swap(i, f) PROVE Goal
  <2>1. /\ unwritten[i][f] = {} /\ UNCHANGED <<seen, stored, failed, crashed>>
        /\ batch' = [batch EXCEPT ![i][f] = buffer[i]]
        /\ buffer' = [buffer EXCEPT ![i] = V!Nowhere]
        /\ unwritten' = [unwritten EXCEPT ![i][f] = V!NonEmpty(buffer[i])]
    BY <1>12 DEF V!Swap
  <2>2. B1[i] = 0 /\ \A j \in Instances : j # i => B1[j] = B[j]
    BY <2>1, <1>6 DEF V!TypeOK, V!Nowhere
  <2>b. \A k \in K : k # <<i, f>> => /\ unwritten'[k[1]][k[2]] = unwritten[k[1]][k[2]]
                                     /\ batch'[k[1]][k[2]] = batch[k[1]][k[2]]
    BY <2>1 DEF V!TypeOK
  <2>3. \A k \in K : k # <<i, f>> => W1[k] = W[k]
    BY <2>b, <1>6
  <2>4. W[<<i, f>>] = 0 /\ W1[<<i, f>>] = IF buffer[i][p] > 0 THEN buffer[i][p] ELSE 0
    BY <2>1, <1>6 DEF V!TypeOK, V!NonEmpty
  <2>5. W1[<<i, f>>] = B[i]
    BY <2>4, <1>6 DEF V!TypeOK
  <2> QED
    BY <1>11, <2>1, <2>2, <2>3, <2>4, <2>5, <1>4, <1>5
<1>13. ASSUME NEW i \in Instances, NEW f \in Flushes, NEW q \in Viewed, V!Write(i, f, q) PROVE Goal
  <2>1. /\ q \in unwritten[i][f] /\ UNCHANGED <<seen, buffer, batch, failed, crashed>>
        /\ stored' = [stored EXCEPT ![q] = @ + batch[i][f][q]]
        /\ unwritten' = [unwritten EXCEPT ![i][f] = @ \ {q}]
    BY <1>13 DEF V!Write
  <2>2. \A j \in Instances : B1[j] = B[j]
    BY <2>1, <1>6
  <2>b. \A k \in K : k # <<i, f>> => unwritten'[k[1]][k[2]] = unwritten[k[1]][k[2]]
    BY <2>1 DEF V!TypeOK
  <2>3. \A k \in K : k # <<i, f>> => W1[k] = W[k]
    BY <2>1, <2>b, <1>6
  <2>4. stored'[p] = stored[p] + W[<<i, f>>] - W1[<<i, f>>]
    <3>1. CASE p = q
      BY <3>1, <2>1, <1>6 DEF V!TypeOK
    <3>2. CASE p # q
      BY <3>2, <2>1, <1>2, <1>5, <1>6 DEF V!TypeOK
    <3> QED
      BY <3>1, <3>2
  <2> QED
    BY <1>11, <2>1, <2>2, <2>3, <2>4, <1>4, <1>5
<1>14. ASSUME NEW i \in Instances, NEW f \in Flushes, V!GiveBack(i, f) PROVE Goal
  <2>1. /\ failed' = TRUE /\ UNCHANGED <<seen, stored, batch, crashed>>
        /\ buffer' = [buffer EXCEPT ![i] = [x \in Viewed |-> @[x] + batch[i][f][x]]]
        /\ unwritten' = [unwritten EXCEPT ![i][f] = {}]
    BY <1>14 DEF V!GiveBack
  <2>2. B1[i] = B[i] + batch[i][f][p] /\ \A j \in Instances : j # i => B1[j] = B[j]
    BY <2>1, <1>6 DEF V!TypeOK
  <2>b. \A k \in K : k # <<i, f>> => unwritten'[k[1]][k[2]] = unwritten[k[1]][k[2]]
    BY <2>1 DEF V!TypeOK
  <2>3. \A k \in K : k # <<i, f>> => W1[k] = W[k]
    BY <2>1, <2>b, <1>6
  <2>4. W[<<i, f>>] \in {0, batch[i][f][p]} /\ W1[<<i, f>>] = 0 /\ batch[i][f][p] \in Nat
    BY <2>1, <1>6 DEF V!TypeOK
  <2> QED
    BY <1>11, <2>1, <2>2, <2>3, <2>4, <1>4, <1>5
<1>15. ASSUME NEW i \in Instances, V!Crash(i) PROVE Goal
  <2>1. /\ crashed' = TRUE /\ UNCHANGED <<seen, stored, batch, failed>>
        /\ buffer' = [buffer EXCEPT ![i] = V!Nowhere]
        /\ unwritten' = [unwritten EXCEPT ![i] = [f \in Flushes |-> {}]]
    BY <1>15 DEF V!Crash
  <2>a. \A j \in Instances : buffer'[j][p] \in {0, buffer[j][p]}
    BY <2>1 DEF V!TypeOK, V!Nowhere
  <2>2. \A j \in Instances : B1[j] <= B[j]
    BY <2>a, <1>2, <1>6
  <2>b. \A k \in K : unwritten'[k[1]][k[2]] \in {{}, unwritten[k[1]][k[2]]}
    BY <2>1 DEF V!TypeOK
  <2>3. \A k \in K : W1[k] <= W[k]
    <3> SUFFICES ASSUME NEW k \in K PROVE W1[k] <= W[k]
      OBVIOUS
    <3>1. W[k] \in Nat /\ W1[k] \in {0, W[k]}
      BY <2>1, <2>b, <1>2, <1>6
    <3> QED
      BY <3>1
  <2>4. IsFiniteSet(Tokens(B1)) /\ Total(B1) \in Nat /\ Total(B1) <= Total(B)
    BY <1>2, <1>4, <2>2, TotalShrinks
  <2> HIDE DEF K
  <2>5. IsFiniteSet(Tokens(W1)) /\ Total(W1) \in Nat /\ Total(W1) <= Total(W)
    BY <1>2, <1>4, <2>3, TotalShrinks
  <2> QED
    BY <2>1, <2>4, <2>5, <1>4, <1>5
<1> QED
  BY <1>9, <1>10, <1>12, <1>13, <1>14, <1>15 DEF ViewMove, V!Next, V!Flush

LEMMA ViewInvariant == BoardSpec => []ViewIInv
<1>1. BoardInit => ViewIInv
  <2> SUFFICES ASSUME BoardInit PROVE ViewIInv
    OBVIOUS
  <2>1. V!Init
    BY DEF BoardInit
  <2>2. V!TypeOK
    <3>1. V!Nowhere \in [Viewed -> Nat]
      BY DEF V!Nowhere
    <3>2. mishaps \in 0..MaxFailures
      BY <2>1, BoardAssumption DEF V!Init
    <3>3. seen \in [Viewed -> Nat] /\ stored \in [Viewed -> Nat]
      BY <2>1, <3>1 DEF V!Init
    <3>4. buffer \in [Instances -> [Viewed -> Nat]] /\ batch \in [Instances -> [Flushes -> [Viewed -> Nat]]]
      BY <2>1, <3>1 DEF V!Init
    <3>5. unwritten \in [Instances -> [Flushes -> SUBSET Viewed]]
      BY <2>1 DEF V!Init
    <3>6. crashed \in BOOLEAN /\ failed \in BOOLEAN
      BY <2>1 DEF V!Init
    <3> QED
      BY <3>2, <3>3, <3>4, <3>5, <3>6 DEF V!TypeOK
  <2>3. ASSUME NEW p \in Viewed
        PROVE  Tokens(Buffered(p)) = {} /\ Tokens(Waiting(p)) = {} /\ stored[p] = 0 /\ seen[p] = 0
    BY <2>1 DEF V!Init, V!Nowhere, Tokens, Buffered, Waiting
  <2> QED
    BY <2>2, <2>3, FS_EmptySet DEF ViewIInv, Kept, Total
<1>2. ViewIInv /\ [BoardNext]_vars => ViewIInv'
  <2> SUFFICES ASSUME ViewIInv, [BoardNext]_vars PROVE ViewIInv'
    OBVIOUS
  <2>1. ViewMove
    BY DEF BoardNext, vars, ViewMove, viewOnly
  <2>2. V!TypeOK /\ V!TypeOK'
    BY <2>1, ViewTypeStep DEF ViewIInv
  <2>3. ASSUME NEW p \in Viewed
        PROVE  /\ IsFiniteSet(Tokens(Buffered(p))') /\ IsFiniteSet(Tokens(Waiting(p))')
               /\ ~failed' => stored'[p] + Kept(p)' <= seen'[p]
               /\ ~crashed' => stored'[p] + Kept(p)' >= seen'[p]
    <3>1. stored[p] \in Nat /\ stored'[p] \in Nat /\ seen[p] \in Nat /\ seen'[p] \in Nat
      BY <2>2 DEF V!TypeOK
    <3> QED
      BY <2>1, <2>2, <3>1, KeptMoves DEF ViewIInv
  <2> QED
    BY <2>2, <2>3 DEF ViewIInv
<1> QED
  BY <1>1, <1>2, PTL DEF BoardSpec

\* View counting (posts view counter): as long as no statement of a flush fails no view is
\* counted twice, and as long as no instance crashes a post whose views are all written has
\* them all, however many instances and flushes there are.
THEOREM ViewsStand == BoardSpec => []ViewsCounted
<1>1. ASSUME ViewIInv PROVE ViewsCounted
  <2>1. ASSUME NEW p \in Viewed
        PROVE  Kept(p) \in Nat /\ stored[p] \in Nat /\ seen[p] \in Nat /\ (V!Settled(p) => Kept(p) = 0)
    <3>1. Kept(p) \in Nat /\ stored[p] \in Nat /\ seen[p] \in Nat
      BY <1>1, FS_CardinalityType DEF ViewIInv, Kept, Total, V!TypeOK
    <3>2. ASSUME V!Settled(p) PROVE Kept(p) = 0
      <4>1. Tokens(Buffered(p)) = {} /\ Tokens(Waiting(p)) = {}
        BY <3>2 DEF V!Settled, Tokens, Buffered, Waiting
      <4> QED
        BY <4>1, FS_EmptySet DEF Kept, Total
    <3> QED
      BY <3>1, <3>2
  <2> QED
    BY <1>1, <2>1 DEF ViewIInv, ViewsCounted, V!ViewsCounted, V!NoViewTwice, V!NoViewLost
<1> QED
  BY <1>1, ViewInvariant, PTL

-----------------------------------------------------------------------------
(* The board as a whole.                                                   *)

\* Beside the other parts the outbox runs as it does alone: what is proved of Spec holds
\* of BoardSpec.
LEMMA OutboxRuns == BoardSpec => Spec
<1>1. BoardInit => Init
  BY DEF BoardInit
<1>2. [BoardNext]_vars => [Next]_outboxVars
  BY DEF BoardNext, vars
<1> QED
  BY <1>1, <1>2, PTL DEF BoardSpec, BoardFairness, Spec

\* Every variable of the board keeps its type: posts, comments, outbox and views.
THEOREM BoardHasTypes == BoardSpec => []BoardTypeOK
<1>1. PostIInv /\ CommentIInv /\ IInv /\ ViewIInv => BoardTypeOK
  BY DEF PostIInv, CommentIInv, PathIInv, IInv, ViewIInv, BoardTypeOK
<1> QED
  BY <1>1, PostInvariant, CommentInvariant, OutboxRuns, Invariant, ViewInvariant, PTL

\* While requests come one at a time a post's comment count is that of its live comments
\* (comments.service), and boards.post_count is the number of the published posts
\* (posts.service, reports.service) unless a step that is known to miscount has happened
\* since the patrol last wrote.
THEOREM CountersStand == BoardSpec => []CountersExact
<1>1. CountIInv /\ CommentIInv => CountersExact
  BY PostsCounted, CommentsCounted DEF CountersExact
<1> QED
  BY <1>1, CountInvariant, CommentInvariant, PTL
=============================================================================
