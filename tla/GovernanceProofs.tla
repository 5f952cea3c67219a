---------------------------- MODULE GovernanceProofs ----------------------------
(***************************************************************************)
(* Proofs about the parts of the governance, each for any values of the    *)
(* constants: the patrol (any number of grants and of instances, any limit *)
(* on what one patrol may take, any failures and restorations), the        *)
(* checkpoints of the audit log, the freeze of an account on every route   *)
(* the controllers declare, and the way of an administrator's edits.       *)
(***************************************************************************)
EXTENDS MCGovernance, FiniteSetTheorems, WellFoundedInduction, TLAPS

-----------------------------------------------------------------------------
(* The patrol.                                                             *)

States  == {"none", "fine", "foreign", "outside", "orphan", "both", "gone"}
Violating == {"outside", "orphan", "both"}

RoundType ==
  [at : {"off", "look", "act"}, check : Checks, looked : SUBSET Checks, failed : SUBSET Checks,
   found : [Checks -> SUBSET GrantIds], todo : SUBSET GrantIds, removed : SUBSET GrantIds]

\* The advisory lock: one patrol at a time.
OneAtATime == \A h, k \in Hosts : Busy(h) /\ Busy(k) => h = k

\* What a patrol found is still wrong, gone, or was brought back since.
Wrong(g) == state[g] \in Violating \cup {"gone"} \/ g \in back

FoundIsWrong(r) == \A c \in Checks : \A g \in r.found[c] : Wrong(g)
TodoIsWrong(r)  == \A g \in r.todo : Wrong(g)

\* What it removed is locked: it can become worse, but cannot go.
RemovedIsLocked(r) == \A g \in r.removed : Wrong(g) /\ There(g)

\* No check is passed over.
NoneSkipped(r) ==
  /\ r.at = "look" /\ r.check = "RI-4" => "RI-3" \in r.looked \cup r.failed
  /\ r.at = "act" => Checks \subseteq r.looked \cup r.failed

RoundHolds(h) ==
  Busy(h) => /\ FoundIsWrong(round[h]) /\ TodoIsWrong(round[h])
             /\ RemovedIsLocked(round[h]) /\ NoneSkipped(round[h])

\* The inductive invariant: PatrolHolds, and what every patrol on its way may rely on.
IInv ==
  /\ PatrolHolds
  /\ OneAtATime
  /\ \A h \in Hosts : RoundHolds(h)

-----------------------------------------------------------------------------
(* Types                                                                   *)

LEMMA OffType == Off \in RoundType
  BY DEF Off, RoundType, Checks

LEMMA AnswerType ==
  ASSUME NEW r \in RoundType, NEW c \in Checks
  PROVE  /\ Answer(r, c) \in RoundType
         /\ Answer(r, c).at = "act"
         /\ Answer(r, c).todo \subseteq r.found[c]
         /\ Answer(r, c).found = r.found
         /\ Answer(r, c).removed = r.removed
         /\ Answer(r, c).looked = r.looked
         /\ Answer(r, c).failed = r.failed
<1> DEFINE t == IF Cardinality(r.found[c]) > BlastRadius THEN {} ELSE r.found[c]
<1>1. t \subseteq r.found[c] /\ t \in SUBSET GrantIds
  BY DEF RoundType
<1>2. Answer(r, c) = [r EXCEPT !.at = "act", !.check = c, !.todo = t]
  BY DEF Answer
<1> HIDE DEF t
<1> QED
  BY <1>1, <1>2 DEF RoundType

LEMMA OnwardType ==
  ASSUME NEW r \in RoundType, r.at = "look"
  PROVE  /\ Onward(r) \in RoundType
         /\ Onward(r).at \in {"look", "act"}
         /\ \/ Onward(r).todo = r.todo
            \/ \E c \in Checks : Onward(r).todo \subseteq r.found[c]
         /\ Onward(r).found = r.found
         /\ Onward(r).removed = r.removed
         /\ Onward(r).looked = r.looked
         /\ Onward(r).failed = r.failed
         /\ Onward(r).at = "act" <=> r.check = "RI-4"
<1>1. CASE r.check = "RI-3"
  BY <1>1 DEF Onward, RoundType, Checks
<1>2. CASE r.check # "RI-3"
  <2>1. r.check = "RI-4" /\ "RI-3" \in Checks /\ Onward(r) = Answer(r, "RI-3")
    BY <1>2 DEF RoundType, Checks, Onward
  <2> QED
    BY <2>1, AnswerType
<1> QED
  BY <1>1, <1>2

(* What a check brings along when the patrol goes on.                      *)
Sound(r) == FoundIsWrong(r) /\ TodoIsWrong(r) /\ RemovedIsLocked(r)

LEMMA AnswerKeeps ==
  ASSUME NEW r \in RoundType, NEW c \in Checks, Sound(r)
  PROVE  Sound(Answer(r, c))
<1>1. TodoIsWrong(Answer(r, c))
  BY AnswerType DEF Sound, FoundIsWrong, TodoIsWrong
<1>2. FoundIsWrong(Answer(r, c)) /\ RemovedIsLocked(Answer(r, c))
  BY AnswerType DEF Sound, FoundIsWrong, RemovedIsLocked
<1> QED
  BY <1>1, <1>2 DEF Sound

LEMMA OnwardKeeps ==
  ASSUME NEW r \in RoundType, r.at = "look", Sound(r), r.check \in r.looked \cup r.failed,
         r.check = "RI-4" => "RI-3" \in r.looked \cup r.failed
  PROVE  Sound(Onward(r)) /\ NoneSkipped(Onward(r))
<1>1. Sound(Onward(r))
  <2>1. TodoIsWrong(Onward(r))
    BY OnwardType DEF Sound, FoundIsWrong, TodoIsWrong
  <2>2. FoundIsWrong(Onward(r)) /\ RemovedIsLocked(Onward(r))
    BY OnwardType DEF Sound, FoundIsWrong, RemovedIsLocked
  <2> QED
    BY <2>1, <2>2 DEF Sound
<1>2. NoneSkipped(Onward(r))
  <2>1. r.check = "RI-3" \/ r.check = "RI-4"
    BY DEF RoundType, Checks
  <2>2. Onward(r).looked = r.looked /\ Onward(r).failed = r.failed
        /\ (Onward(r).at = "act" <=> r.check = "RI-4")
    BY OnwardType
  <2> QED
    BY <2>1, <2>2 DEF NoneSkipped, Checks
<1> QED
  BY <1>1, <1>2

(* A patrol that moves, with nothing changed under it.                     *)
LEMMA HostMoves ==
  ASSUME IInv, NEW h \in Hosts, Busy(h), NEW x \in RoundType, x.at \in {"look", "act"},
         round' = [round EXCEPT ![h] = x], Sound(x), NoneSkipped(x),
         UNCHANGED <<state, back>>
  PROVE  OneAtATime' /\ (\A k \in Hosts : RoundHolds(k)') /\ round' \in [Hosts -> RoundType]
<1> round \in [Hosts -> RoundType]
  BY DEF IInv, PatrolHolds, TypeOK, RoundType
<1>1. round'[h] = x /\ \A k \in Hosts : k # h => round'[k] = round[k]
  OBVIOUS
<1>2. \A k \in Hosts : Busy(k)' <=> Busy(k)
  BY <1>1 DEF Busy
<1>3. OneAtATime'
  BY <1>2 DEF IInv, OneAtATime
<1>4. ASSUME NEW k \in Hosts
      PROVE  RoundHolds(k)'
  <2>1. CASE k = h
    BY <1>1, <2>1 DEF RoundHolds, Sound, FoundIsWrong, TodoIsWrong, RemovedIsLocked, NoneSkipped,
       Wrong, There
  <2>2. CASE k # h
    BY <1>1, <2>2 DEF IInv, OneAtATime, RoundHolds, Busy
  <2> QED
    BY <2>1, <2>2
<1> QED
  BY <1>3, <1>4

(* A patrol that is over, or was broken off.                               *)
LEMMA HostEnds ==
  ASSUME IInv, NEW h \in Hosts, Busy(h), round' = [round EXCEPT ![h] = Off]
  PROVE  OneAtATime' /\ (\A k \in Hosts : RoundHolds(k)') /\ round' \in [Hosts -> RoundType]
<1> round \in [Hosts -> RoundType]
  BY DEF IInv, PatrolHolds, TypeOK, RoundType
<1>1. round'[h] = Off /\ (\A k \in Hosts : k # h => round'[k] = round[k]) /\ Off.at = "off"
  BY DEF Off
<1>2. \A k \in Hosts : ~Busy(k)'
  BY <1>1 DEF Busy, IInv, OneAtATime
<1> QED
  BY <1>2, OffType DEF OneAtATime, RoundHolds

-----------------------------------------------------------------------------
(* What each action keeps.                                                 *)

Kept == OneAtATime /\ \A k \in Hosts : RoundHolds(k)

(* Nothing that was wrong is put right under a patrol's hands.             *)
LEMMA NothingRighted ==
  ASSUME IInv, UNCHANGED round,
         \A k \in GrantIds : Wrong(k) => Wrong(k)',
         \A k \in RemovedNow : k \in GrantIds /\ There(k) => There(k)'
  PROVE  Kept'
<1> TypeOK
  BY DEF IInv, PatrolHolds
<1>1. ASSUME NEW h \in Hosts
      PROVE  RoundHolds(h)'
  <2> SUFFICES ASSUME Busy(h)
               PROVE  /\ FoundIsWrong(round[h])' /\ TodoIsWrong(round[h])'
                      /\ RemovedIsLocked(round[h])' /\ NoneSkipped(round[h])'
    BY DEF RoundHolds, Busy
  <2>1. /\ FoundIsWrong(round[h]) /\ TodoIsWrong(round[h])
        /\ RemovedIsLocked(round[h]) /\ NoneSkipped(round[h])
    BY DEF IInv, RoundHolds
  <2>2. /\ \A c \in Checks : round[h].found[c] \subseteq GrantIds
        /\ round[h].todo \subseteq GrantIds /\ round[h].removed \subseteq GrantIds
    BY DEF TypeOK
  <2>3. round[h].removed \subseteq RemovedNow
    BY DEF RemovedNow
  <2>4. FoundIsWrong(round[h])' /\ TodoIsWrong(round[h])'
    BY <2>1, <2>2 DEF FoundIsWrong, TodoIsWrong
  <2>5. RemovedIsLocked(round[h])'
    BY <2>1, <2>2, <2>3 DEF RemovedIsLocked
  <2>6. NoneSkipped(round[h])'
    BY <2>1 DEF NoneSkipped
  <2> QED
    BY <2>4, <2>5, <2>6
<1>2. OneAtATime'
  BY DEF IInv, OneAtATime, Busy
<1> QED
  BY <1>1, <1>2 DEF Kept

LEMMA ChangeKeeps ==
  ASSUME IInv, NEW g \in GrantIds, Change(g)
  PROVE  IInv'
<1> TypeOK
  BY DEF IInv, PatrolHolds
<1>1. UNCHANGED <<round, trail, record, clean, taken, back, breaks, restores>>
  BY DEF Change, results, bounds
<1>2. \A k \in GrantIds : k # g => state'[k] = state[k]
  BY DEF Change, TypeOK
<1>3. state' \in [GrantIds -> States]
  BY DEF Change, TypeOK, States
<1>4. Wrong(g) => Wrong(g)'
  BY <1>1 DEF Change, TypeOK, Wrong, Violating, There
<1>5. g \in RemovedNow /\ There(g) => There(g)'
  BY DEF Change, TypeOK, There
<1>6. \A k \in GrantIds : Wrong(k) => Wrong(k)'
  BY <1>1, <1>2, <1>4 DEF Wrong
<1>7. \A k \in RemovedNow : k \in GrantIds /\ There(k) => There(k)'
  BY <1>2, <1>5 DEF There
<1>8. Kept'
  BY <1>1, <1>6, <1>7, NothingRighted
<1>9. PatrolHolds'
  BY <1>1, <1>3 DEF IInv, PatrolHolds, TypeOK, OnlyViolatorsGo, TrailIsExact, OkMeansLooked, States
<1> QED
  BY <1>8, <1>9 DEF IInv, Kept

LEMMA RestoreKeeps ==
  ASSUME IInv, NEW g \in GrantIds, Restore(g)
  PROVE  IInv'
<1> TypeOK
  BY DEF IInv, PatrolHolds
<1>1. /\ UNCHANGED <<round, trail, record, clean, taken, breaks>>
      /\ back' = back \cup {g} /\ state[g] = "gone"
      /\ restores < MaxRestores /\ restores' = restores + 1
  BY DEF Restore, results
<1>2. PICK s \in {"fine", "outside", "orphan", "both"} : state' = [state EXCEPT ![g] = s]
  BY DEF Restore
<1>3. state' \in [GrantIds -> States] /\ \A k \in GrantIds : k # g => state'[k] = state[k]
  BY <1>2 DEF TypeOK, States
<1>4. restores' \in 0..MaxRestores
  BY <1>1, BoundsAssumption DEF TypeOK
<1>5. \A k \in GrantIds : (Wrong(k) => Wrong(k)') /\ (There(k) => There(k)')
  BY <1>1, <1>3 DEF Wrong, There
<1>6. Kept'
  BY <1>1, <1>5, NothingRighted
<1>7. TypeOK'
  BY <1>1, <1>3, <1>4 DEF TypeOK, States
<1>8. OnlyViolatorsGo' /\ TrailIsExact' /\ OkMeansLooked'
  BY <1>1 DEF IInv, PatrolHolds, OnlyViolatorsGo, TrailIsExact, OkMeansLooked
<1> QED
  BY <1>6, <1>7, <1>8 DEF IInv, PatrolHolds, Kept

LEMMA StartKeeps ==
  ASSUME IInv, NEW h \in Hosts, Start(h)
  PROVE  IInv'
<1> TypeOK
  BY DEF IInv, PatrolHolds
<1> DEFINE x == [Off EXCEPT !.at = "look"]
<1>1. /\ \A k \in Hosts : ~Busy(k)
      /\ round' = [round EXCEPT ![h] = x] /\ back' = {}
      /\ UNCHANGED <<state, trail, record, clean, taken, breaks, restores>>
  BY DEF Start, results
<1>2. /\ x \in RoundType /\ x.at = "look" /\ x.check = "RI-3"
      /\ x.found = [c \in Checks |-> {}] /\ x.todo = {} /\ x.removed = {}
  BY OffType DEF Off, RoundType, Checks
<1> HIDE DEF x
<1>3. round \in [Hosts -> RoundType]
  BY DEF TypeOK, RoundType
<1>4. round' \in [Hosts -> RoundType] /\ round'[h] = x /\ \A k \in Hosts : k # h => round'[k] = round[k]
  BY <1>1, <1>2, <1>3
<1>5. \A k \in Hosts : Busy(k)' => k = h
  BY <1>1, <1>4 DEF Busy
<1>6. OneAtATime'
  BY <1>5 DEF OneAtATime
<1>7. RoundHolds(h)'
  BY <1>2, <1>4 DEF RoundHolds, FoundIsWrong, TodoIsWrong, RemovedIsLocked, NoneSkipped
<1>8. \A k \in Hosts : RoundHolds(k)'
  BY <1>5, <1>7 DEF RoundHolds
<1>9. TypeOK'
  BY <1>1, <1>4 DEF TypeOK, RoundType
<1>10. OnlyViolatorsGo' /\ TrailIsExact' /\ OkMeansLooked'
  BY <1>1 DEF IInv, PatrolHolds, OnlyViolatorsGo, TrailIsExact, OkMeansLooked
<1> QED
  BY <1>6, <1>8, <1>9, <1>10 DEF IInv, PatrolHolds

(* Where only a patrol moves, what is on record stays.                     *)
LEMMA OnRecord ==
  ASSUME IInv, UNCHANGED <<state, trail, record, clean, taken, back, restores>>,
         round' \in [Hosts -> RoundType], breaks' \in 0..MaxBreaks
  PROVE  PatrolHolds'
<1>1. TypeOK'
  BY DEF IInv, PatrolHolds, TypeOK, RoundType
<1>2. OnlyViolatorsGo' /\ TrailIsExact' /\ OkMeansLooked'
  BY DEF IInv, PatrolHolds, OnlyViolatorsGo, TrailIsExact, OkMeansLooked
<1> QED
  BY <1>1, <1>2 DEF PatrolHolds

LEMMA LookKeeps ==
  ASSUME IInv, NEW h \in Hosts, Look(h)
  PROVE  IInv'
<1> DEFINE r == round[h]
           y == [r EXCEPT !.found[r.check] = Reported(r.check), !.looked = @ \cup {r.check}]
<1>1. /\ r.at = "look" /\ round' = [round EXCEPT ![h] = Onward(y)]
      /\ UNCHANGED <<state, trail, record, clean, taken, back, breaks, restores>>
  BY DEF Look, results, bounds
<1>2. r \in RoundType /\ RoundHolds(h) /\ Busy(h)
  BY <1>1 DEF IInv, PatrolHolds, TypeOK, RoundType, Busy
<1>3. Reported(r.check) \subseteq GrantIds /\ \A g \in Reported(r.check) : Wrong(g)
  BY DEF Reported, Outside, Orphans, Wrong, Violating
<1>4. /\ y \in RoundType /\ y.at = "look" /\ y.check = r.check /\ y.failed = r.failed
      /\ y.looked = r.looked \cup {r.check} /\ y.todo = r.todo /\ y.removed = r.removed
      /\ y.found = [r.found EXCEPT ![r.check] = Reported(r.check)]
  BY <1>1, <1>2, <1>3 DEF RoundType
<1> HIDE DEF y
<1>5. \A c \in Checks : y.found[c] = IF c = r.check THEN Reported(r.check) ELSE r.found[c]
  BY <1>2, <1>4 DEF RoundType
<1>6. Sound(y)
  BY <1>2, <1>3, <1>4, <1>5 DEF Sound, RoundHolds, FoundIsWrong, TodoIsWrong, RemovedIsLocked
<1>7. Sound(Onward(y)) /\ NoneSkipped(Onward(y))
  BY <1>1, <1>2, <1>4, <1>6, OnwardKeeps DEF RoundHolds, NoneSkipped
<1>8. Onward(y) \in RoundType /\ Onward(y).at \in {"look", "act"}
  BY <1>4, OnwardType
<1>9. OneAtATime' /\ (\A k \in Hosts : RoundHolds(k)') /\ round' \in [Hosts -> RoundType]
  BY <1>1, <1>2, <1>7, <1>8, HostMoves
<1>10. PatrolHolds'
  BY <1>1, <1>9, OnRecord DEF IInv, PatrolHolds, TypeOK
<1> QED
  BY <1>9, <1>10 DEF IInv

LEMMA LookFailsKeeps ==
  ASSUME IInv, NEW h \in Hosts, LookFails(h)
  PROVE  IInv'
<1> DEFINE r == round[h]
           y == [r EXCEPT !.failed = @ \cup {r.check}]
<1>1. /\ r.at = "look" /\ round' = [round EXCEPT ![h] = Onward(y)]
      /\ breaks < MaxBreaks /\ breaks' = breaks + 1
      /\ UNCHANGED <<state, trail, record, clean, taken, back, restores>>
  BY DEF LookFails, results
<1>2. r \in RoundType /\ RoundHolds(h) /\ Busy(h)
  BY <1>1 DEF IInv, PatrolHolds, TypeOK, RoundType, Busy
<1>3. /\ y \in RoundType /\ y.at = "look" /\ y.check = r.check /\ y.looked = r.looked
      /\ y.failed = r.failed \cup {r.check} /\ y.todo = r.todo /\ y.removed = r.removed
      /\ y.found = r.found
  BY <1>1, <1>2 DEF RoundType
<1> HIDE DEF y
<1>4. Sound(y)
  BY <1>2, <1>3 DEF Sound, RoundHolds, FoundIsWrong, TodoIsWrong, RemovedIsLocked
<1>5. Sound(Onward(y)) /\ NoneSkipped(Onward(y))
  BY <1>1, <1>2, <1>3, <1>4, OnwardKeeps DEF RoundHolds, NoneSkipped
<1>6. Onward(y) \in RoundType /\ Onward(y).at \in {"look", "act"}
  BY <1>3, OnwardType
<1>7. OneAtATime' /\ (\A k \in Hosts : RoundHolds(k)') /\ round' \in [Hosts -> RoundType]
  BY <1>1, <1>2, <1>5, <1>6, HostMoves
<1>8. breaks' \in 0..MaxBreaks
  BY <1>1, BoundsAssumption DEF IInv, PatrolHolds, TypeOK
<1>9. PatrolHolds'
  BY <1>1, <1>7, <1>8, OnRecord
<1> QED
  BY <1>7, <1>9 DEF IInv

LEMMA RemoveKeeps ==
  ASSUME IInv, NEW h \in Hosts, NEW g \in GrantIds, Remove(h, g)
  PROVE  IInv'
<1> DEFINE r == round[h]
           y == [r EXCEPT !.todo = @ \ {g}, !.removed = @ \cup {g}]
<1> round \in [Hosts -> RoundType]
  BY DEF IInv, PatrolHolds, TypeOK, RoundType
<1>1. /\ r.at = "act" /\ g \in r.todo /\ There(g)
      /\ UNCHANGED <<state, trail, record, clean, taken, back, breaks, restores>>
  BY DEF Remove, results, bounds
<1>2. r \in RoundType /\ RoundHolds(h) /\ Busy(h)
  BY <1>1 DEF IInv, Busy
<1>3. round' = [round EXCEPT ![h] = y]
  BY <1>2 DEF Remove, RoundType
<1>4. /\ y \in RoundType /\ y.at = "act" /\ y.looked = r.looked /\ y.failed = r.failed
      /\ y.todo = r.todo \ {g} /\ y.removed = r.removed \cup {g} /\ y.found = r.found
  BY <1>1, <1>2 DEF RoundType
<1> HIDE DEF y
<1>5. Wrong(g)
  BY <1>1, <1>2 DEF RoundHolds, TodoIsWrong
<1>6. Sound(y)
  BY <1>1, <1>2, <1>4, <1>5 DEF Sound, RoundHolds, FoundIsWrong, TodoIsWrong, RemovedIsLocked
<1>7. NoneSkipped(y)
  BY <1>1, <1>2, <1>4 DEF RoundHolds, NoneSkipped
<1>8. OneAtATime' /\ (\A k \in Hosts : RoundHolds(k)') /\ round' \in [Hosts -> RoundType]
  BY <1>1, <1>2, <1>3, <1>4, <1>6, <1>7, HostMoves
<1>9. PatrolHolds'
  BY <1>1, <1>8, OnRecord DEF IInv, PatrolHolds, TypeOK
<1> QED
  BY <1>8, <1>9 DEF IInv

LEMMA NextAnswerKeeps ==
  ASSUME IInv, NEW h \in Hosts, NextAnswer(h)
  PROVE  IInv'
<1> DEFINE r == round[h]
<1>1. /\ r.at = "act" /\ round' = [round EXCEPT ![h] = Answer(r, "RI-4")]
      /\ UNCHANGED <<state, trail, record, clean, taken, back, breaks, restores>>
  BY DEF NextAnswer, results, bounds
<1>2. r \in RoundType /\ RoundHolds(h) /\ Busy(h) /\ "RI-4" \in Checks
  BY <1>1 DEF IInv, PatrolHolds, TypeOK, RoundType, Busy, Checks
<1>3. Sound(r)
  BY <1>2 DEF Sound, RoundHolds
<1>4. Sound(Answer(r, "RI-4"))
  BY <1>2, <1>3, AnswerKeeps
<1>5. NoneSkipped(Answer(r, "RI-4"))
  BY <1>1, <1>2, AnswerType DEF RoundHolds, NoneSkipped
<1>6. Answer(r, "RI-4") \in RoundType /\ Answer(r, "RI-4").at = "act"
  BY <1>2, AnswerType
<1>7. OneAtATime' /\ (\A k \in Hosts : RoundHolds(k)') /\ round' \in [Hosts -> RoundType]
  BY <1>1, <1>2, <1>4, <1>5, <1>6, HostMoves
<1>8. PatrolHolds'
  BY <1>1, <1>7, OnRecord DEF IInv, PatrolHolds, TypeOK
<1> QED
  BY <1>7, <1>8 DEF IInv

(* A patrol that fails, dies or takes too long has done nothing.           *)
LEMMA EndKeeps ==
  ASSUME IInv, NEW h \in Hosts, Break(h) \/ \E g \in GrantIds : Missing(h, g)
  PROVE  IInv'
<1>1. /\ Busy(h) /\ round' = [round EXCEPT ![h] = Off]
      /\ UNCHANGED <<state, trail, record, clean, taken, back, restores>>
  BY DEF Break, Missing, Busy, results, bounds
<1>2. breaks' \in 0..MaxBreaks
  BY BoundsAssumption DEF Break, Missing, bounds, IInv, PatrolHolds, TypeOK
<1>3. OneAtATime' /\ (\A k \in Hosts : RoundHolds(k)') /\ round' \in [Hosts -> RoundType]
  BY <1>1, HostEnds
<1>4. PatrolHolds'
  BY <1>1, <1>2, <1>3, OnRecord
<1> QED
  BY <1>3, <1>4 DEF IInv

(* What is kept of a removal.                                              *)
LEMMA RemovalFields ==
  ASSUME NEW g
  PROVE  /\ Removal(g).grant = g /\ Removal(g).state = state[g]
         /\ Removal(g).back <=> g \in back
<1>1. Removal(g).grant = g /\ Removal(g).state = state[g]
  BY DEF Removal
<1>2. Removal(g).back = (g \in back)
  BY DEF Removal
<1> QED
  BY <1>1, <1>2

LEMMA CommitKeeps ==
  ASSUME IInv, NEW h \in Hosts, Commit(h)
  PROVE  IInv'
<1> DEFINE r == round[h]
           new == {Removal(g) : g \in r.removed}
<1> TypeOK
  BY DEF IInv, PatrolHolds
<1>1. /\ r.at = "act" /\ round' = [round EXCEPT ![h] = Off]
      /\ state' = [g \in GrantIds |-> IF g \in r.removed THEN "gone" ELSE state[g]]
      /\ taken' = taken \cup new /\ trail' = trail \cup r.removed
      /\ record' = [c \in Checks |-> Status(r, c)]
      /\ clean' = {c \in r.looked : r.found[c] = {}}
      /\ UNCHANGED <<back, breaks, restores>>
  BY DEF Commit, bounds
<1>2. r \in RoundType /\ RoundHolds(h) /\ Busy(h)
  BY <1>1 DEF TypeOK, RoundType, Busy, IInv
<1>3. OneAtATime' /\ (\A k \in Hosts : RoundHolds(k)') /\ round' \in [Hosts -> RoundType]
  BY <1>1, <1>2, HostEnds
<1>4. r.removed \subseteq GrantIds /\ r.looked \subseteq Checks
  BY <1>2 DEF RoundType
<1>5. TypeOK'
  <2>1. state' \in [GrantIds -> States]
    BY <1>1 DEF TypeOK, States
  <2>2. record' \in [Checks -> {"unknown", "ok", "violated", "failed"}]
    BY <1>1 DEF Status
  <2>3. \A t \in taken' : t.grant \in GrantIds
    BY <1>1, <1>4, RemovalFields DEF TypeOK
  <2>4. clean' \subseteq Checks /\ trail' \subseteq GrantIds
    BY <1>1, <1>4 DEF TypeOK
  <2> QED
    BY <1>1, <1>3, <2>1, <2>2, <2>3, <2>4 DEF TypeOK, RoundType, States
<1>6. OnlyViolatorsGo'
  <2>1. \A g \in r.removed : state[g] \in Violating \/ g \in back
    BY <1>2 DEF RoundHolds, RemovedIsLocked, Wrong, There
  <2>2. \A t \in new : t.state \in Violating \/ t.back
    BY <2>1, RemovalFields
  <2> QED
    BY <1>1, <2>2 DEF IInv, PatrolHolds, OnlyViolatorsGo, Violating
<1>7. TrailIsExact'
  <2>1. {t.grant : t \in new} = r.removed
    BY RemovalFields
  <2>2. {t.grant : t \in taken \cup new} = {t.grant : t \in taken} \cup {t.grant : t \in new}
    OBVIOUS
  <2> QED
    BY <1>1, <2>1, <2>2 DEF IInv, PatrolHolds, TrailIsExact
<1>8. OkMeansLooked'
  <2> SUFFICES ASSUME NEW c \in Checks, record'[c] = "ok"
               PROVE  c \in clean'
    BY DEF OkMeansLooked
  <2>1. c \notin r.failed /\ r.found[c] = {}
    BY <1>1 DEF Status
  <2>2. c \in r.looked
    BY <1>1, <1>2, <2>1 DEF RoundHolds, NoneSkipped
  <2> QED
    BY <1>1, <2>1, <2>2
<1> QED
  BY <1>3, <1>5, <1>6, <1>7, <1>8 DEF IInv, PatrolHolds

-----------------------------------------------------------------------------
LEMMA InitHolds ==
  ASSUME Init
  PROVE  IInv
<1>1. TypeOK
  <2>1. round \in [Hosts -> RoundType]
    BY OffType DEF Init
  <2>2. state \in [GrantIds -> States]
    BY DEF Init, States
  <2> QED
    BY <2>1, <2>2, BoundsAssumption DEF Init, TypeOK, RoundType, States
<1>2. \A h \in Hosts : ~Busy(h)
  BY DEF Init, Busy, Off
<1>3. OneAtATime /\ \A h \in Hosts : RoundHolds(h)
  BY <1>2 DEF OneAtATime, RoundHolds
<1>4. OnlyViolatorsGo /\ TrailIsExact /\ OkMeansLooked
  BY DEF Init, OnlyViolatorsGo, TrailIsExact, OkMeansLooked
<1> QED
  BY <1>1, <1>3, <1>4 DEF IInv, PatrolHolds

LEMMA StepKeeps ==
  ASSUME IInv, [Next]_patrolVars
  PROVE  IInv'
<1>1. CASE Next
  BY <1>1, ChangeKeeps, RestoreKeeps, StartKeeps, LookKeeps, LookFailsKeeps, RemoveKeeps,
     NextAnswerKeeps, EndKeeps, CommitKeeps DEF Next, Run
<1>2. CASE UNCHANGED patrolVars
  BY <1>2 DEF patrolVars, IInv, PatrolHolds, TypeOK, OnlyViolatorsGo, TrailIsExact, OkMeansLooked,
     OneAtATime, RoundHolds, FoundIsWrong, TodoIsWrong, RemovedIsLocked, NoneSkipped, Wrong, There, Busy
<1> QED
  BY <1>1, <1>2

\* The strengthening of the property below is an invariant.
THEOREM Invariant == Spec => []IInv
<1>1. Init => IInv
  BY InitHolds
<1>2. IInv /\ [Next]_patrolVars => IInv'
  BY StepKeeps
<1> QED
  BY <1>1, <1>2, PTL DEF Spec

\* However many instances patrol, whatever is shared, revoked or brought back meanwhile
\* and however patrols fail: only violators go, what is recorded as removed is what was
\* removed, and no check is on record as passed that did not run.
THEOREM PatrolsKeepTheirWord == Spec => []PatrolHolds
<1>1. IInv => PatrolHolds
  BY DEF IInv
<1> QED
  BY <1>1, Invariant, PTL

-----------------------------------------------------------------------------
(* The audit log and its checkpoints.                                      *)

Digest == [A!Kinds -> 0..MaxRows]

\* Beside the types: a checkpoint is one of a day before today, and its chain value goes on
\* from the one it names.
SealsStand ==
  \A s \in seals : s.day < today /\ s.chain = Append(s.prev, s.digest)

\* What a job has in hand is the checkpoint of yesterday, as it would be calculated now, but
\* for access records that the retention has taken meanwhile; unless the day is sealed.
JobsStand ==
  /\ job = [i \in Instances |-> job[i]]
  /\ \A i \in Instances : job[i] # A!NoSeal =>
       /\ job[i].day = today - 1 /\ job[i].day \in A!Days /\ job[i].digest \in Digest
       /\ job[i].prev = A!ChainBefore(job[i].day)
       /\ job[i].chain = Append(job[i].prev, job[i].digest)
       /\ ~A!Sealed(job[i].day) =>
            /\ job[i].digest["change"] = rows[job[i].day]["change"]
            /\ job[i].digest = rows[job[i].day] \/ job[i].day < today - Retention

\* The records of changes of a sealed day only become fewer than its digest says, and they
\* do so where they were tampered with.
DigestsStand ==
  /\ \A d \in tampered : A!Sealed(d)
  /\ \A s \in seals :
       /\ s.digest["change"] >= rows[s.day]["change"]
       /\ s.day \in tampered => s.digest["change"] > rows[s.day]["change"]
       /\ s.digest = rows[s.day] \/ s.day \in tampered \/ s.day < today - Retention

TrailIInv == A!TypeOK /\ SealsStand /\ JobsStand /\ DigestsStand /\ A!OneChain

TrailMove == A!Next \/ UNCHANGED trailOnly

ChainOf(earlier) ==
  IF earlier = {} THEN << >>
  ELSE (CHOOSE s \in earlier : \A t \in earlier : t.day <= s.day).chain

\* A chain value depends on the checkpoints of the days before alone.
LEMMA ChainSame ==
  ASSUME NEW d, \A s : s.day < d => (s \in seals' <=> s \in seals)
  PROVE  A!ChainBefore(d)' = A!ChainBefore(d)
<1>1. {s \in seals' : s.day < d} = {s \in seals : s.day < d}
  OBVIOUS
<1>2. A!ChainBefore(d) = ChainOf({s \in seals : s.day < d})
  BY Zenon DEF A!ChainBefore, ChainOf
<1>3. A!ChainBefore(d)' = ChainOf({s \in seals' : s.day < d})
  BY Zenon DEF A!ChainBefore, ChainOf
<1> QED
  BY <1>1, <1>2, <1>3

\* A step of the calendar, of the records or of the jobs that leaves the seals alone.
LEMMA SealsAlone ==
  ASSUME seals' = seals
  PROVE  /\ \A d : A!ChainBefore(d)' = A!ChainBefore(d)
         /\ \A d : A!SealOf(d)' = A!SealOf(d) /\ (A!Sealed(d)' <=> A!Sealed(d))
         /\ A!OneChain => A!OneChain'
<1>1. \A d : A!ChainBefore(d)' = A!ChainBefore(d)
  BY ChainSame
<1>2. \A d : A!SealOf(d)' = A!SealOf(d) /\ (A!Sealed(d)' <=> A!Sealed(d))
  BY DEF A!SealOf, A!Sealed
<1> QED
  BY <1>1, <1>2 DEF A!OneChain

LEMMA TrailStep == TrailIInv /\ TrailMove => TrailIInv'
<1> SUFFICES ASSUME TrailIInv, TrailMove PROVE TrailIInv'
  OBVIOUS
<1>a. /\ A!TypeOK /\ SealsStand /\ JobsStand /\ DigestsStand /\ A!OneChain
      /\ today \in Nat /\ today >= 1 /\ Retention \in Nat /\ MaxRows \in Nat
      /\ rows \in [A!Days -> Digest]
      /\ "access" \in A!Kinds /\ "change" \in A!Kinds /\ A!NoSeal.day = 0
  BY GovernanceAssumption DEF TrailIInv, A!TypeOK, A!Days, Digest, A!Kinds, A!NoSeal
<1>b. \A s \in seals : s.day \in A!Days /\ s.day \in Nat /\ s.digest \in Digest
  BY <1>a DEF A!TypeOK, A!Days, Digest
<1>1. CASE UNCHANGED trailOnly
  <2>1. UNCHANGED <<today, rows, seals, job, done, tampered>>
    BY <1>1 DEF trailOnly
  <2>2. A!NoSeal' = A!NoSeal
    BY DEF A!NoSeal, A!Kinds
  <2> QED
    BY <1>a, <2>1, <2>2, SealsAlone DEF TrailIInv, A!TypeOK, SealsStand, JobsStand, DigestsStand
<1>2. ASSUME NEW k \in A!Kinds, A!Write(k) PROVE TrailIInv'
  <2>1. /\ rows' = [rows EXCEPT ![today][k] = @ + 1] /\ rows[today][k] < MaxRows
        /\ UNCHANGED <<today, seals, job, done, tampered>>
    BY <1>2 DEF A!Write
  <2>2. \A d \in A!Days : d # today => rows'[d] = rows[d]
    BY <1>a, <2>1
  <2>3. rows' \in [A!Days -> Digest]
    BY <1>a, <2>1 DEF Digest, A!TypeOK
  <2>4. A!TypeOK'
    BY <1>a, <2>1, <2>3 DEF A!TypeOK, Digest
  <2>5. SealsStand' /\ A!OneChain'
    BY <1>a, <2>1, SealsAlone DEF SealsStand
  <2>6. JobsStand'
    BY <1>a, <2>1, <2>2, SealsAlone DEF JobsStand, A!NoSeal
  <2>7. DigestsStand'
    BY <1>a, <1>b, <2>1, <2>2, SealsAlone DEF DigestsStand, SealsStand
  <2> QED
    BY <2>4, <2>5, <2>6, <2>7 DEF TrailIInv
<1>3. CASE A!Midnight
  <2>1. /\ today < LastDay /\ today' = today + 1 /\ done' = {}
        /\ job' = [i \in Instances |-> A!NoSeal] /\ UNCHANGED <<rows, seals, tampered>>
    BY <1>3 DEF A!Midnight
  <2>4. A!TypeOK'
    BY <1>a, <2>1, GovernanceAssumption DEF A!TypeOK, A!Days
  <2>5. SealsStand' /\ A!OneChain'
    BY <1>a, <1>b, <2>1, SealsAlone DEF SealsStand
  <2>6. JobsStand'
    BY <2>1 DEF JobsStand, A!NoSeal
  <2>7. DigestsStand'
    BY <1>a, <1>b, <2>1, SealsAlone DEF DigestsStand
  <2> QED
    BY <2>4, <2>5, <2>6, <2>7 DEF TrailIInv
<1>4. ASSUME NEW i \in Instances, A!Calculate(i) PROVE TrailIInv'
  <2>1. /\ job[i] = A!NoSeal /\ today - 1 > 0 /\ UNCHANGED <<today, rows, seals, tampered>>
        /\ done' \subseteq done \cup {i}
        /\ IF A!Sealed(today - 1) THEN job' = job
           ELSE job' = [job EXCEPT ![i] =
               [by |-> i, day |-> today - 1, prev |-> A!ChainBefore(today - 1), digest |-> rows[today - 1],
                chain |-> Append(A!ChainBefore(today - 1), rows[today - 1])]]
    BY <1>4 DEF A!Calculate, A!Target
  <2>2. today - 1 \in A!Days
    BY <1>a, <2>1, GovernanceAssumption DEF A!TypeOK, A!Days
  <2>3. SealsStand' /\ A!OneChain' /\ DigestsStand'
    BY <1>a, <2>1, SealsAlone DEF SealsStand, DigestsStand
  <2> DEFINE new == [by |-> i, day |-> today - 1, prev |-> A!ChainBefore(today - 1), digest |-> rows[today - 1],
                     chain |-> Append(A!ChainBefore(today - 1), rows[today - 1])]
  <2>a. A!Sealed(today - 1) => job' = job
    BY <2>1
  <2>b. ~A!Sealed(today - 1) => job' = [job EXCEPT ![i] = new]
    BY <2>1
  <2> HIDE DEF new
  <2>4. \A j \in Instances : job'[j] = job[j] \/ (j = i /\ job'[j] = new)
    BY <1>a, <2>a, <2>b DEF JobsStand
  <2> USE DEF new
  <2>5. /\ new.day = today - 1 /\ new.prev = A!ChainBefore(today - 1) /\ new.digest = rows[today - 1]
        /\ new.chain = Append(new.prev, new.digest) /\ new.digest \in Digest
    BY <1>a, <2>2
  <2> HIDE DEF new
  <2>6. A!TypeOK'
    BY <1>a, <1>4, <2>1, <2>2, <2>4, <2>5 DEF A!TypeOK, A!Days
  <2>7. JobsStand'
    <3>1. ASSUME NEW j \in Instances, job'[j] # A!NoSeal
          PROVE  /\ job'[j].day = today - 1 /\ job'[j].day \in A!Days /\ job'[j].digest \in Digest
                 /\ job'[j].prev = A!ChainBefore(today - 1)
                 /\ job'[j].chain = Append(job'[j].prev, job'[j].digest)
                 /\ ~A!Sealed(today - 1) =>
                      /\ job'[j].digest["change"] = rows[job'[j].day]["change"]
                      /\ job'[j].digest = rows[job'[j].day] \/ job'[j].day < today - Retention
      <4>1. CASE job'[j] = new
        BY <4>1, <2>1, <2>2, <2>5
      <4>2. CASE job'[j] = job[j]
        <5>1. job[j] # A!NoSeal
          BY <3>1, <4>2
        <5> QED
          BY <4>2, <5>1, <1>a DEF JobsStand
      <4> QED
        BY <4>1, <4>2, <2>4
    <3>2. job' = [j \in Instances |-> job'[j]]
      BY <1>a, <2>a, <2>b DEF JobsStand
    <3>3. A!NoSeal' = A!NoSeal /\ A!Days' = A!Days /\ Digest' = Digest
      BY DEF A!NoSeal, A!Days, Digest, A!Kinds
    <3> QED
      BY <2>1, <3>1, <3>2, <3>3, SealsAlone DEF JobsStand
  <2> QED
    BY <2>3, <2>6, <2>7 DEF TrailIInv
<1>5. ASSUME NEW i \in Instances, A!Insert(i) PROVE TrailIInv'
  <2>1. /\ job[i] # A!NoSeal /\ UNCHANGED <<today, rows, tampered>>
        /\ seals' = IF A!Sealed(job[i].day) THEN seals ELSE seals \cup {job[i]}
        /\ done' = done \cup {i}
        /\ \A j \in Instances : job'[j] \in {job[j], A!NoSeal}
    BY <1>5 DEF A!Insert
  <2>2. /\ job[i].day = today - 1 /\ job[i].day \in A!Days /\ job[i].digest \in Digest
        /\ job[i].prev = A!ChainBefore(job[i].day)
        /\ job[i].chain = Append(job[i].prev, job[i].digest)
        /\ ~A!Sealed(job[i].day) =>
             /\ job[i].digest["change"] = rows[job[i].day]["change"]
             /\ job[i].digest = rows[job[i].day] \/ job[i].day < today - Retention
    BY <1>a, <2>1 DEF JobsStand
  <2>3. A!TypeOK'
    <3>1. today' \in A!Days /\ rows' \in [A!Days -> [A!Kinds -> 0..MaxRows]]
          /\ done' \subseteq Instances /\ tampered' \subseteq A!Days
      BY <1>a, <2>1 DEF A!TypeOK
    <3>2. \A s \in seals' : s.day \in A!Days /\ s.digest \in [A!Kinds -> 0..MaxRows]
      BY <1>a, <2>1, <2>2 DEF A!TypeOK, Digest
    <3>3. \A j \in Instances : job'[j].day \in 0..LastDay
      BY <1>a, <2>1, GovernanceAssumption DEF A!TypeOK
    <3> QED
      BY <3>1, <3>2, <3>3 DEF A!TypeOK
  <2>4. SealsStand'
    BY <1>a, <2>1, <2>2 DEF SealsStand
  <2>5. \A s \in seals : s.day <= today - 1
    BY <1>a, <1>b DEF SealsStand
  <2>6. \A d \in Nat : d < today => A!ChainBefore(d)' = A!ChainBefore(d)
    <3> SUFFICES ASSUME NEW d \in Nat, d < today PROVE A!ChainBefore(d)' = A!ChainBefore(d)
      OBVIOUS
    <3>1. ~(job[i].day < d)
      BY <1>a, <2>2
    <3> QED
      BY <2>1, <3>1, ChainSame
  <2>7. \A d : A!Sealed(d) => A!Sealed(d)'
    BY <2>1 DEF A!Sealed, A!SealOf
  <2>8. A!OneChain'
    <3>1. ASSUME NEW s \in seals' PROVE s.prev = A!ChainBefore(s.day)'
      <4>1. CASE s \in seals
        <5>1. s.day \in Nat /\ s.day < today /\ s.prev = A!ChainBefore(s.day)
          BY <1>a, <1>b, <4>1 DEF SealsStand, A!OneChain
        <5> QED
          BY <5>1, <2>6
      <4>2. CASE s = job[i]
        <5>1. s.day \in Nat /\ s.day < today /\ s.prev = A!ChainBefore(s.day)
          BY <1>a, <2>2, <4>2
        <5> QED
          BY <5>1, <2>6
      <4> QED
        BY <2>1, <4>1, <4>2
    <3>2. ASSUME NEW s \in seals', NEW t \in seals', s.day = t.day PROVE s = t
      BY <1>a, <2>1, <3>2 DEF A!OneChain, A!Sealed, A!SealOf
    <3> QED
      BY <3>1, <3>2 DEF A!OneChain
  <2>9. JobsStand'
    <3>1. ASSUME NEW j \in Instances, job'[j] # A!NoSeal
          PROVE  /\ job'[j].day = today - 1 /\ job'[j].day \in A!Days /\ job'[j].digest \in Digest
                 /\ job'[j].chain = Append(job'[j].prev, job'[j].digest)
                 /\ \A d : d = job'[j].day =>
                      /\ job'[j].prev = A!ChainBefore(d)'
                      /\ ~A!Sealed(d)' =>
                           /\ job'[j].digest["change"] = rows[d]["change"]
                           /\ job'[j].digest = rows[d] \/ d < today - Retention
      <4>1. job'[j] = job[j]
        BY <2>1, <3>1
      <4>2. /\ job[j].day = today - 1 /\ job[j].day \in A!Days /\ job[j].digest \in Digest
            /\ job[j].prev = A!ChainBefore(job[j].day)
            /\ job[j].chain = Append(job[j].prev, job[j].digest)
            /\ ~A!Sealed(job[j].day) =>
                 /\ job[j].digest["change"] = rows[job[j].day]["change"]
                 /\ job[j].digest = rows[job[j].day] \/ job[j].day < today - Retention
        BY <1>a, <3>1, <4>1 DEF JobsStand
      <4>3. today - 1 \in Nat /\ today - 1 < today
        BY <1>a
      <4> QED
        BY <4>1, <4>2, <4>3, <2>6, <2>7
    <3>2. job' = [j \in Instances |-> job'[j]]
      BY <1>a, <1>5 DEF JobsStand, A!Insert
    <3>3. /\ A!NoSeal' = A!NoSeal /\ A!Days' = A!Days /\ Digest' = Digest
          /\ today' = today /\ rows' = rows
      BY <2>1 DEF A!NoSeal, A!Days, Digest, A!Kinds
    <3>4. ASSUME NEW j \in Instances, job'[j] # A!NoSeal
          PROVE  /\ job'[j].prev = A!ChainBefore(job[j].day)'
                 /\ ~A!Sealed(job[j].day)' =>
                      /\ job'[j].digest["change"] = rows[job'[j].day]["change"]
                      /\ job'[j].digest = rows[job'[j].day] \/ job'[j].day < today - Retention
      BY <3>1, <3>4
    <3> QED
      BY <3>1, <3>2, <3>3, <3>4 DEF JobsStand
  <2>10. DigestsStand'
    <3>1. \A d \in tampered' : A!Sealed(d)'
      BY <1>a, <2>1, <2>7 DEF DigestsStand
    <3>2. ASSUME NEW s \in seals'
          PROVE  /\ s.digest["change"] >= rows[s.day]["change"]
                 /\ s.day \in tampered => s.digest["change"] > rows[s.day]["change"]
                 /\ s.digest = rows[s.day] \/ s.day \in tampered \/ s.day < today - Retention
      <4>1. CASE s \in seals
        BY <1>a, <4>1 DEF DigestsStand
      <4>2. CASE s = job[i] /\ ~A!Sealed(job[i].day)
        <5>1. s.digest["change"] \in Nat /\ s.day \notin tampered
          BY <1>a, <2>2, <4>2 DEF DigestsStand, Digest
        <5> QED
          BY <2>2, <4>2, <5>1
      <4> QED
        BY <2>1, <4>1, <4>2
    <3> QED
      BY <2>1, <3>1, <3>2 DEF DigestsStand
  <2> QED
    BY <2>3, <2>4, <2>8, <2>9, <2>10 DEF TrailIInv
<1>6. ASSUME NEW d \in A!Days, A!Retain(d) PROVE TrailIInv'
  <2>1. /\ d < today - Retention /\ rows' = [rows EXCEPT ![d]["access"] = 0]
        /\ UNCHANGED <<today, seals, job, done, tampered>>
    BY <1>6 DEF A!Retain
  <2>2. \A e \in A!Days : /\ e # d => rows'[e] = rows[e]
                          /\ rows'[e]["change"] = rows[e]["change"]
    BY <1>a, <2>1 DEF Digest
  <2>3. rows' \in [A!Days -> Digest]
    BY <1>a, <2>1 DEF Digest
  <2>4. A!TypeOK'
    BY <1>a, <2>1, <2>3 DEF A!TypeOK, Digest
  <2>5. SealsStand' /\ A!OneChain'
    BY <1>a, <2>1, SealsAlone DEF SealsStand
  <2>6. JobsStand'
    BY <1>a, <2>1, <2>2, SealsAlone DEF JobsStand, A!NoSeal
  <2>7. DigestsStand'
    BY <1>a, <1>b, <2>1, <2>2, SealsAlone DEF DigestsStand
  <2> QED
    BY <2>4, <2>5, <2>6, <2>7 DEF TrailIInv
<1>7. ASSUME NEW d \in A!Days, A!Tamper(d) PROVE TrailIInv'
  <2>1. /\ A!Sealed(d) /\ rows[d]["change"] > 0 /\ rows' = [rows EXCEPT ![d]["change"] = @ - 1]
        /\ tampered' = tampered \cup {d} /\ UNCHANGED <<today, seals, job, done>>
    BY <1>7 DEF A!Tamper
  <2>2. /\ \A e \in A!Days : e # d => rows'[e] = rows[e]
        /\ rows'[d]["change"] = rows[d]["change"] - 1
    BY <1>a, <2>1 DEF Digest
  <2>3. rows' \in [A!Days -> Digest]
    BY <1>a, <2>1 DEF Digest
  <2>4. A!TypeOK'
    BY <1>a, <2>1, <2>3 DEF A!TypeOK, Digest
  <2>5. SealsStand' /\ A!OneChain'
    BY <1>a, <2>1, SealsAlone DEF SealsStand
  <2>6. JobsStand'
    BY <1>a, <2>1, <2>2, SealsAlone DEF JobsStand, A!NoSeal
  <2>7. \A e \in A!Days : rows[e]["change"] \in Nat
    BY <1>a DEF Digest
  <2>8. \A s \in seals : s.digest["change"] \in Nat
    BY <1>a, <1>b DEF Digest
  <2>9. DigestsStand'
    BY <1>a, <1>b, <2>1, <2>2, <2>7, <2>8, SealsAlone DEF DigestsStand
  <2> QED
    BY <2>4, <2>5, <2>6, <2>9 DEF TrailIInv
<1> QED
  BY <1>1, <1>2, <1>3, <1>4, <1>5, <1>6, <1>7 DEF TrailMove, A!Next

LEMMA TrailInvariant == GovernanceSpec => []TrailIInv
<1>1. GovernanceInit => TrailIInv
  BY GovernanceAssumption DEF GovernanceInit, A!Init, TrailIInv, A!TypeOK, SealsStand, JobsStand,
     DigestsStand, A!OneChain, A!Days, A!Kinds, A!NoSeal
<1>2. TrailIInv /\ [GovernanceNext]_vars => TrailIInv'
  <2>1. [GovernanceNext]_vars => TrailMove
    BY DEF GovernanceNext, vars, TrailMove, trailOnly
  <2> QED
    BY <2>1, TrailStep
<1> QED
  BY <1>1, <1>2, PTL DEF GovernanceSpec

\* The audit log (checkpoint.service): for any calendar, instances, records and retention, a
\* day has one checkpoint and each goes on from the one before; who changes a sealed day is
\* reported, and nobody else but the retention of access records.
THEOREM TrailStands == GovernanceSpec => []AuditHolds
<1>1. ASSUME TrailIInv PROVE AuditHolds
  <2>1. A!TamperingIsReported
    <3> SUFFICES ASSUME NEW s \in seals, s.day \in tampered PROVE s.digest # rows[s.day]
      BY DEF A!TamperingIsReported, A!SealOf, A!Alarm
    <3>1. s.digest["change"] \in Nat /\ s.digest["change"] > rows[s.day]["change"]
      BY <1>1 DEF TrailIInv, DigestsStand, A!TypeOK, A!Kinds
    <3> QED
      BY <3>1
  <2>2. A!NoAlarmWithoutChange
    BY <1>1 DEF TrailIInv, DigestsStand, SealsStand, A!NoAlarmWithoutChange, A!Alarm
  <2> QED
    BY <1>1, <2>1, <2>2 DEF TrailIInv, AuditHolds, A!AuditHolds
<1> QED
  BY <1>1, TrailInvariant, PTL

-----------------------------------------------------------------------------
(* The routes and their declarations.                                      *)

\* What each declaration keeps: the code is one of the seed, a movement of permissions that
\* no service checks is asked for by a code that is frozen, and who changes the roles of a
\* member must dominate it, unless he is creating it.
Declared(r) ==
  /\ r.on \in {"public", "self"} \/ r.needs \in F!Permissions
  /\ r.moves \in {"none", "role", "grant", "mapping"} \/ r.needs \in F!ExplicitFrozen
  /\ r.moves = "role" => r.dominates \/ r.handler = "create"

\* The forms in which the controllers declare their routes.
LEMMA PlainForms ==
  /\ \A h : Declared(F!Public(h)) /\ Declared(F!Own(h))
  /\ \A h, c : c \in F!Permissions => Declared(F!Asks(h, c)) /\ Declared(F!Dominates(F!Asks(h, c)))
  /\ \A t, h, c : c \in F!Permissions => Declared(F!On(t, h, c))
<1>1. \A h : Declared(F!Public(h))
  BY DEF Declared, F!Public
<1>2. \A h : Declared(F!Own(h))
  BY DEF Declared, F!Own, F!Public
<1>3. \A h, c : c \in F!Permissions => Declared(F!Asks(h, c))
  BY DEF Declared, F!Asks, F!Public
<1>4. \A h, c : c \in F!Permissions => Declared(F!Dominates(F!Asks(h, c)))
  BY DEF Declared, F!Dominates, F!Asks, F!Public
<1>5. \A t, h, c : c \in F!Permissions => Declared(F!On(t, h, c))
  BY DEF Declared, F!On, F!Asks, F!Public
<1> QED
  BY <1>1, <1>2, <1>3, <1>4, <1>5

LEMMA MovingForms ==
  /\ \A h, c : c \in F!Permissions => Declared(F!Moves("mapping", F!Asks(h, c)))
  /\ \A t, h, c : c \in F!Permissions => Declared(F!Moves("grant", F!On(t, h, c)))
  /\ \A h, c : c \in F!Permissions => Declared(F!Moves("role", F!Dominates(F!Asks(h, c))))
  /\ \A c : c \in F!Permissions => Declared(F!Moves("role", F!Asks("create", c)))
  /\ \A w \in {"edit", "release"} : \A h, c :
       c \in F!Permissions \cap F!ExplicitFrozen => Declared(F!Moves(w, F!Asks(h, c)))
<1>1. \A h, c : c \in F!Permissions => Declared(F!Moves("mapping", F!Asks(h, c)))
  BY DEF Declared, F!Moves, F!Asks, F!Public
<1>2. \A t, h, c : c \in F!Permissions => Declared(F!Moves("grant", F!On(t, h, c)))
  BY DEF Declared, F!Moves, F!On, F!Asks, F!Public
<1>3. \A h, c : c \in F!Permissions => Declared(F!Moves("role", F!Dominates(F!Asks(h, c))))
  BY DEF Declared, F!Moves, F!Dominates, F!Asks, F!Public
<1>4. \A c : c \in F!Permissions => Declared(F!Moves("role", F!Asks("create", c)))
  BY DEF Declared, F!Moves, F!Asks, F!Public
<1>5. \A w \in {"edit", "release"} : \A h, c :
       c \in F!Permissions \cap F!ExplicitFrozen => Declared(F!Moves(w, F!Asks(h, c)))
  BY DEF Declared, F!Moves, F!Asks, F!Public
<1> QED
  BY <1>1, <1>2, <1>3, <1>4, <1>5

\* The codes of the seed that routes ask for.
LEMMA MemberCodes ==
  \A a \in {"read", "create", "update", "ban", "delete"} : <<"member", a>> \in F!Permissions
BY DEF F!Permissions, F!Each

LEMMA FileCodes ==
  /\ \A a \in {"upload", "read", "update", "delete", "share"} : <<"file", a>> \in F!Permissions
  /\ \A a \in {"share", "read", "delete"} : <<"file", a, "all">> \in F!Permissions
BY DEF F!Permissions, F!Each, F!All

LEMMA DomainCodes ==
  /\ \A a \in {"create", "read", "update", "delete", "verify", "transfer", "share"} :
       <<"domain", a>> \in F!Permissions
  /\ \A a \in {"share", "read", "update", "delete", "verify"} : <<"domain", a, "all">> \in F!Permissions
BY DEF F!Permissions, F!Each, F!All

LEMMA AdminCodes ==
  {<<"member", "role", "assign">>, <<"admin", "role", "read">>, <<"admin", "role", "manage">>,
   <<"admin", "audit", "read">>, <<"governance", "read">>, <<"governance", "freeze", "manage">>,
   <<"system", "settings", "manage">>} \subseteq F!Permissions
BY DEF F!Permissions

LEMMA BoardCodes ==
  /\ \A a \in {"read", "write", "comment", "moderate", "manage"} : <<"board", a>> \in F!Permissions
  /\ \A a \in {"update", "delete"} : <<"post", a>> \in F!Permissions /\ <<"comment", a>> \in F!Permissions
  /\ {<<"board", "moderate", "all">>, <<"post", "delete", "all">>, <<"comment", "delete", "all">>}
       \subseteq F!Permissions
BY DEF F!Permissions, F!Each, F!All

LEMMA ExplicitCodes ==
  {<<"member", "role", "assign">>, <<"admin", "role", "manage">>, <<"governance", "freeze", "manage">>}
    \subseteq F!Permissions \cap F!ExplicitFrozen
BY AdminCodes DEF F!ExplicitFrozen

LEMMA RoutesAreDeclared == \A r \in F!Routes : Declared(r)
<1>1. \A r \in F!AuthController \cup F!MeController \cup F!HealthController \cup
               F!DomainTransfersController \cup F!UserBlocksController \cup F!NotificationsController : Declared(r)
  BY PlainForms DEF F!AuthController, F!MeController, F!HealthController, F!DomainTransfersController,
     F!UserBlocksController, F!NotificationsController
<1>2. \A r \in F!MembersController : Declared(r)
  BY PlainForms, MovingForms, MemberCodes, AdminCodes DEF F!MembersController
<1>3. \A r \in F!AdminRolesController : Declared(r)
  BY PlainForms, MovingForms, AdminCodes, ExplicitCodes DEF F!AdminRolesController
<1>4. \A r \in F!AdminAuditController \cup F!SettingsController \cup F!GovernanceController : Declared(r)
  BY PlainForms, MovingForms, AdminCodes, ExplicitCodes
     DEF F!AdminAuditController, F!SettingsController, F!GovernanceController
<1>5. \A r \in F!FilesController \cup F!AdminFilesController : Declared(r)
  BY PlainForms, MovingForms, FileCodes DEF F!FilesController, F!AdminFilesController
<1>6. \A r \in F!DomainsController \cup F!AdminDomainsController : Declared(r)
  BY PlainForms, MovingForms, DomainCodes DEF F!DomainsController, F!AdminDomainsController
<1>7. \A r \in F!BoardsController \cup F!PostsController \cup F!CommentsController : Declared(r)
  BY PlainForms, MovingForms, BoardCodes, FileCodes
     DEF F!BoardsController, F!PostsController, F!CommentsController
<1>8. \A r \in F!BoardAdminController : Declared(r)
  BY PlainForms, BoardCodes, AdminCodes DEF F!BoardAdminController
<1> QED
  BY <1>1, <1>2, <1>3, <1>4, <1>5, <1>6, <1>7, <1>8 DEF F!Routes

\* The declarations agree, whatever the constants.
LEMMA DeclarationsHold == F!DeclarationsAgree
<1>1. F!ExplicitFrozen \subseteq F!Permissions
  BY AdminCodes DEF F!ExplicitFrozen
<1>2. \A r \in F!MembersController : r \in F!Routes
  BY DEF F!Routes
<1> QED
  BY <1>1, <1>2, RoutesAreDeclared DEF F!DeclarationsAgree, Declared

\* What a request may move is guarded by the permission it asks for, or its service checks.
LEMMA MovesAreGuarded ==
  \A k \in F!Kinds : /\ k.moves => k.guarded \/ (k.checked /\ ~k.releases)
                     /\ k.releases => k.moves
                     /\ k.guarded \in BOOLEAN /\ k.checked \in BOOLEAN
                     /\ k.moves \in BOOLEAN /\ k.releases \in BOOLEAN
<1> SUFFICES ASSUME NEW r \in F!Routes
             PROVE  LET k == F!Kind(r)
                    IN /\ k.moves => k.guarded \/ (k.checked /\ ~k.releases)
                       /\ k.releases => k.moves
                       /\ k.guarded \in BOOLEAN /\ k.checked \in BOOLEAN
                       /\ k.moves \in BOOLEAN /\ k.releases \in BOOLEAN
  BY DEF F!Kinds
<1>1. r.moves \in {"none", "role", "grant", "mapping"} \/ r.needs \in F!FrozenPermissions
  BY RoutesAreDeclared DEF Declared, F!FrozenPermissions
<1>2. /\ F!Kind(r).guarded <=> r.needs \in F!FrozenPermissions
      /\ F!Kind(r).checked <=> r.moves \in {"role", "grant", "mapping"}
      /\ F!Kind(r).moves <=> r.moves # "none"
      /\ F!Kind(r).releases <=> r.moves = "release"
  BY DEF F!Kind, F!Checks
<1>3. /\ F!Kind(r).guarded \in BOOLEAN /\ F!Kind(r).checked \in BOOLEAN
      /\ F!Kind(r).moves \in BOOLEAN /\ F!Kind(r).releases \in BOOLEAN
  BY DEF F!Kind, F!Checks
<1> QED
  BY <1>1, <1>2, <1>3

-----------------------------------------------------------------------------
(* The freeze itself.                                                      *)

FreezeMove == F!Next \/ UNCHANGED freezeOnly

\* An account has one active freeze at most, in so many words.
OneEach == \A u \in Accounts : \A i, j \in F!Active(u) : i = j

\* What a request in hand may rely on: whoever is held is frozen still, nothing held got past
\* the guard, and a release names a row.
RequestsStand ==
  \A w \in Workers :
    /\ \A u : work[w].held /\ u = work[w].actor => F!Frozen(u)
    /\ work[w].kind.guarded => ~work[w].held
    /\ work[w].kind.releases => work[w].id \in FreezeIds

FreezeIInv == F!TypeOK /\ OneEach /\ RequestsStand /\ F!FrozenMovesNothing

LEMMA WhatMoves ==
  \A k \in F!Kinds \cup {F!FollowUp} :
    /\ k.moves => k.guarded \/ (k.checked /\ ~k.releases)
    /\ k.releases => k.moves
    /\ k.guarded \in BOOLEAN /\ k.checked \in BOOLEAN /\ k.moves \in BOOLEAN /\ k.releases \in BOOLEAN
<1> SUFFICES ASSUME NEW k \in F!Kinds \cup {F!FollowUp}
             PROVE  /\ k.moves => k.guarded \/ (k.checked /\ ~k.releases)
                    /\ k.releases => k.moves
                    /\ k.guarded \in BOOLEAN /\ k.checked \in BOOLEAN
                    /\ k.moves \in BOOLEAN /\ k.releases \in BOOLEAN
  OBVIOUS
<1>1. CASE k \in F!Kinds
  BY <1>1, MovesAreGuarded
<1>2. CASE k = F!FollowUp
  BY <1>2 DEF F!FollowUp
<1> QED
  BY <1>1, <1>2

LEMMA WaitingType ==
  /\ F!Waiting \in F!Request
  /\ ~F!Waiting.held /\ ~F!Waiting.kind.guarded /\ ~F!Waiting.kind.releases /\ ~F!Waiting.kind.moves
  /\ F!Waiting.at = "idle" /\ F!Waiting.user = F!Nobody
BY DEF F!Waiting, F!Request, F!FollowUp

\* The number of a new freeze is that of an unused row.
LEMMA LeastId == ASSUME F!Unused # {} PROVE F!Next1(F!Unused) \in F!Unused
<1> DEFINE N == F!Unused
<1>1. N \subseteq Nat /\ N # {}
  BY GovernanceAssumption DEF F!Unused
<1>2. PICK i \in N : \A j \in N : ~(<<j, i>> \in OpToRel(<, Nat))
  <2> HIDE DEF N
  <2>1. IsWellFoundedOn(OpToRel(<, Nat), Nat)
    BY NatLessThanWellFounded
  <2> QED
    BY <1>1, <2>1, WFMin
<1>3. \A j \in N : i <= j
  <2>1. \A j \in Nat : j < i => <<j, i>> \in OpToRel(<, Nat)
    BY <1>1 DEF OpToRel
  <2>2. \A j \in N : j \in Nat /\ ~(j < i)
    <3> HIDE DEF N
    <3> QED
      BY <1>1, <1>2, <2>1, Zenon
  <2> QED
    BY <1>1, <2>2
<1> QED
  BY <1>2, <1>3 DEF F!Next1

LEMMA OneEachCounts == OneEach /\ F!TypeOK => F!OneActiveFreeze
<1> SUFFICES ASSUME OneEach, NEW u \in Accounts PROVE F!Cardinality(F!Active(u)) <= 1
  BY DEF F!OneActiveFreeze
<1>1. \A S : F!Cardinality(S) = Cardinality(S)
  BY Zenon DEF F!Cardinality, Cardinality, F!IsFiniteSet, IsFiniteSet
<1>2. CASE F!Active(u) = {}
  BY <1>1, <1>2, FS_EmptySet
<1>3. CASE F!Active(u) # {}
  <2>1. PICK i : F!Active(u) = {i}
    BY <1>3 DEF OneEach
  <2> QED
    BY <1>1, <2>1, FS_Singleton
<1> QED
  BY <1>2, <1>3

\* A step that leaves the rows alone and moves one request.
LEMMA OneMoves ==
  ASSUME FreezeIInv, NEW w \in Workers, NEW q \in F!Request,
         serving' \subseteq Accounts, freezes' = freezes,
         work' = [work EXCEPT ![w] = q],
         q.held => F!Frozen(q.actor),
         q.kind.guarded => ~q.held,
         q.kind.releases => q.id \in FreezeIds,
         q.at = "entered" /\ q.kind.moves => ~q.held
  PROVE  FreezeIInv'
<1>1. work' \in [Workers -> F!Request] /\ \A v \in Workers : work'[v] = IF v = w THEN q ELSE work[v]
  BY DEF FreezeIInv, F!TypeOK
<1>2. \A u : F!Active(u)' = F!Active(u)
  BY DEF F!Active
<1>3. F!TypeOK'
  BY <1>1 DEF FreezeIInv, F!TypeOK
<1>4. OneEach'
  BY <1>2 DEF FreezeIInv, OneEach
<1>5. RequestsStand'
  <2> SUFFICES ASSUME NEW v \in Workers
               PROVE  /\ \A u : work'[v].held /\ u = work'[v].actor => F!Frozen(u)'
                      /\ work'[v].kind.guarded => ~work'[v].held
                      /\ work'[v].kind.releases => work'[v].id \in FreezeIds
    BY DEF RequestsStand
  <2>1. \A u : F!Frozen(u)' <=> F!Frozen(u)
    BY <1>2 DEF F!Frozen
  <2> QED
    BY <1>1, <2>1 DEF FreezeIInv, RequestsStand
<1>6. F!FrozenMovesNothing'
  BY <1>1 DEF FreezeIInv, F!FrozenMovesNothing
<1> QED
  BY <1>3, <1>4, <1>5, <1>6 DEF FreezeIInv

LEMMA LeavingKeeps ==
  ASSUME FreezeIInv, NEW w \in Workers, F!Leave(w), serving' \subseteq Accounts, freezes' = freezes
  PROVE  FreezeIInv'
BY WaitingType, OneMoves DEF F!Leave

LEMMA RetireKeeps ==
  ASSUME FreezeIInv, NEW u \in Accounts, F!Retire(u) PROVE FreezeIInv'
<1>1. serving' \subseteq Accounts /\ freezes' = freezes /\ work' = work
  BY DEF F!Retire, FreezeIInv, F!TypeOK
<1> QED
  BY <1>1 DEF FreezeIInv, F!TypeOK, OneEach, RequestsStand, F!FrozenMovesNothing, F!Active, F!Frozen

LEMMA AskKeeps ==
  ASSUME FreezeIInv, NEW w \in Workers, NEW kind \in F!Kinds, NEW u \in Accounts,
         NEW id \in FreezeIds \cup {F!NoId}, F!Ask(w, kind, u, id)
  PROVE  FreezeIInv'
<1> DEFINE f == F!Frozen(u)
           q == [F!Waiting EXCEPT !.at = "asked", !.kind = kind, !.actor = u, !.id = id, !.held = f]
<1>1. f \in BOOLEAN /\ (f <=> F!Frozen(u))
  BY DEF F!Frozen
<1>2. F!Waiting \in F!Request
  BY WaitingType
<1>3. q \in F!Request
  <2> HIDE DEF f
  <2> QED
    BY <1>1, <1>2 DEF F!Request
<1>4. /\ q.held <=> F!Frozen(u)
      /\ q.actor = u /\ q.kind = kind /\ q.id = id /\ q.at = "asked"
  <2> HIDE DEF f
  <2> QED
    BY <1>1, <1>2 DEF F!Request
<1>5. work' = [work EXCEPT ![w] = q] /\ freezes' = freezes /\ serving' \subseteq Accounts
  BY DEF F!Ask, FreezeIInv, F!TypeOK
<1>6. (kind.guarded => ~F!Frozen(u)) /\ (kind.releases => id \in FreezeIds)
  BY DEF F!Ask
<1> HIDE DEF q
<1> QED
  BY <1>3, <1>4, <1>5, <1>6, OneMoves

LEMMA EnteringKeeps ==
  ASSUME FreezeIInv, NEW w \in Workers, work[w].at = "asked",
         work' = [work EXCEPT ![w].at = "entered"],
         serving' \subseteq Accounts, freezes' = freezes,
         work[w].kind.moves => ~work[w].held
  PROVE  FreezeIInv'
<1> DEFINE q == [work[w] EXCEPT !.at = "entered"]
<1>1. work[w] \in F!Request
  BY DEF FreezeIInv, F!TypeOK
<1>2. /\ q \in F!Request /\ q.at = "entered" /\ q.kind = work[w].kind /\ q.held = work[w].held
      /\ q.actor = work[w].actor /\ q.id = work[w].id
  BY <1>1 DEF F!Request
<1>3. work' = [work EXCEPT ![w] = q]
  BY DEF FreezeIInv, F!TypeOK
<1> HIDE DEF q
<1> QED
  BY <1>2, <1>3, OneMoves DEF FreezeIInv, RequestsStand

LEMMA EnterKeeps ==
  ASSUME FreezeIInv, NEW w \in Workers, F!Enter(w) PROVE FreezeIInv'
<1>1. work[w] \in F!Request
  BY DEF FreezeIInv, F!TypeOK
<1>2. work[w].kind \in F!Kinds \cup {F!FollowUp}
  BY <1>1 DEF F!Request
<1>3. work[w].kind.moves => ~work[w].held
  <2>1. work[w].kind.moves => work[w].kind.guarded \/ work[w].kind.checked
    BY <1>2, WhatMoves
  <2>2. work[w].kind.checked => ~F!Frozen(work[w].actor)
    BY DEF F!Enter
  <2> QED
    BY <2>1, <2>2 DEF FreezeIInv, RequestsStand
<1> QED
  BY <1>3, EnteringKeeps DEF F!Enter, FreezeIInv, F!TypeOK

LEMMA ReadFreezeKeeps ==
  ASSUME FreezeIInv, NEW w \in Workers, F!ReadFreeze(w) PROVE FreezeIInv'
<1>1. work[w] \in F!Request
  BY DEF FreezeIInv, F!TypeOK
<1>2. work[w].kind \in F!Kinds \cup {F!FollowUp}
  BY <1>1 DEF F!Request
<1>3. work[w].kind.guarded
  BY <1>2, WhatMoves DEF F!ReadFreeze
<1>4. ~work[w].held
  BY <1>3 DEF FreezeIInv, RequestsStand
<1> QED
  BY <1>4, EnteringKeeps DEF F!ReadFreeze, FreezeIInv, F!TypeOK

LEMMA FindKeeps ==
  ASSUME FreezeIInv, NEW w \in Workers, NEW u \in Accounts, F!FindFreeze(w, u) PROVE FreezeIInv'
<1> DEFINE q == [F!Waiting EXCEPT !.at = "entered", !.user = u]
<1>1. q \in F!Request /\ ~q.held /\ ~q.kind.releases
  BY DEF F!Waiting, F!Request, F!FollowUp
<1>2. work' = [work EXCEPT ![w] = q] /\ freezes' = freezes /\ serving' \subseteq Accounts
  BY DEF F!FindFreeze, FreezeIInv, F!TypeOK
<1> HIDE DEF q
<1> QED
  BY <1>1, <1>2, OneMoves

\* What the release of a row does to the freezes of each account.
LEMMA ReleasedRows ==
  ASSUME FreezeIInv, NEW w \in Workers, F!CommitRelease(w)
  PROVE  LET q == work[w]
         IN /\ q.id \in FreezeIds
            /\ \A i \in FreezeIds : freezes'[i].user = freezes[i].user
            /\ \A i \in FreezeIds : i # q.id => freezes'[i] = freezes[i]
            /\ freezes'[q.id].status = "RELEASED"
            /\ freezes' \in [FreezeIds -> [user : Accounts \cup {F!Nobody}, status : {"none", "ACTIVE", "RELEASED"},
                                           by : Accounts \cup {F!Nobody}]]
            /\ \A u : F!Active(u)' = F!Active(u) \ {q.id}
            /\ \A u : F!Frozen(u) => F!Frozen(u)' \/ (u = freezes[q.id].user /\ F!Active(u) \subseteq {q.id})
<1> DEFINE q == work[w]
<1>1. q \in F!Request /\ q.id \in FreezeIds
  BY DEF FreezeIInv, F!TypeOK, RequestsStand, F!CommitRelease
<1>2. q.actor \in Accounts \cup {F!Nobody}
  BY <1>1 DEF F!Request
<1>3. freezes' = [freezes EXCEPT ![q.id].status = "RELEASED", ![q.id].by = q.actor]
  BY DEF F!CommitRelease
<1> HIDE DEF q
<1>4. freezes \in [FreezeIds -> [user : Accounts \cup {F!Nobody}, status : {"none", "ACTIVE", "RELEASED"},
                                 by : Accounts \cup {F!Nobody}]]
  BY DEF FreezeIInv, F!TypeOK
<1>5. /\ \A i \in FreezeIds : i # q.id => freezes'[i] = freezes[i]
      /\ freezes'[q.id].status = "RELEASED" /\ freezes'[q.id].user = freezes[q.id].user
      /\ freezes' \in [FreezeIds -> [user : Accounts \cup {F!Nobody}, status : {"none", "ACTIVE", "RELEASED"},
                                     by : Accounts \cup {F!Nobody}]]
  BY <1>1, <1>2, <1>3, <1>4
<1>6. \A u : F!Active(u)' = F!Active(u) \ {q.id}
  BY <1>1, <1>5 DEF F!Active
<1>7. \A u : F!Frozen(u) => F!Frozen(u)' \/ (u = freezes[q.id].user /\ F!Active(u) \subseteq {q.id})
  <2> SUFFICES ASSUME NEW u, F!Frozen(u), ~(F!Frozen(u)')
               PROVE  u = freezes[q.id].user /\ F!Active(u) \subseteq {q.id}
    OBVIOUS
  <2>1. F!Active(u) # {} /\ F!Active(u)' = {}
    BY DEF F!Frozen
  <2>2. F!Active(u) = {q.id}
    BY <2>1, <1>6
  <2> QED
    BY <2>2 DEF F!Active
<1> QED
  BY <1>1, <1>5, <1>6, <1>7 DEF q

LEMMA ReleaseKeeps ==
  ASSUME FreezeIInv, NEW w \in Workers, F!CommitRelease(w) PROVE FreezeIInv'
<1> DEFINE q   == work[w]
           u0  == freezes[q.id].user
           all == F!Active(u0) \subseteq {q.id}
<1>0. /\ work \in [Workers -> F!Request] /\ serving' \subseteq Accounts
      /\ work' = [IF all THEN F!Freed(freezes[q.id]) ELSE work EXCEPT ![w] = F!Waiting]
  BY DEF F!CommitRelease, FreezeIInv, F!TypeOK
<1>1. \A v \in Workers : v # w =>
        /\ work'[v] \in F!Request
        /\ work'[v].at = work[v].at /\ work'[v].kind = work[v].kind
        /\ work'[v].actor = work[v].actor /\ work'[v].id = work[v].id
        /\ work'[v].held => work[v].held /\ (all => work[v].actor # u0)
  <2> SUFFICES ASSUME NEW v \in Workers, v # w
               PROVE  /\ work'[v] \in F!Request
                      /\ work'[v].at = work[v].at /\ work'[v].kind = work[v].kind
                      /\ work'[v].actor = work[v].actor /\ work'[v].id = work[v].id
                      /\ work'[v].held => work[v].held /\ (all => work[v].actor # u0)
    OBVIOUS
  <2>1. work[v] \in F!Request /\ work[v].held \in BOOLEAN
    BY <1>0 DEF F!Request
  <2>2. CASE all
    <3> DEFINE h == work[v].held /\ work[v].actor # u0
    <3>1. work'[v] = [work[v] EXCEPT !.held = h]
      BY <1>0, <2>2 DEF F!Freed
    <3>2. h \in BOOLEAN
      OBVIOUS
    <3>3. h => work[v].held /\ work[v].actor # u0
      OBVIOUS
    <3> HIDE DEF h
    <3> QED
      BY <2>1, <3>1, <3>2, <3>3 DEF F!Request
  <2>3. CASE ~all
    BY <1>0, <2>1, <2>3
  <2> QED
    BY <2>2, <2>3
<1>2. work'[w] = F!Waiting /\ DOMAIN work' = Workers /\ work' = [v \in Workers |-> work'[v]]
  BY <1>0 DEF F!Freed
<1>3. work' \in [Workers -> F!Request]
  BY <1>1, <1>2, WaitingType
<1>4. F!TypeOK'
  BY <1>0, <1>3, ReleasedRows DEF F!TypeOK
<1>5. OneEach'
  BY ReleasedRows DEF FreezeIInv, OneEach
<1>6. RequestsStand'
  <2> SUFFICES ASSUME NEW v \in Workers
               PROVE  /\ \A u : work'[v].held /\ u = work'[v].actor => F!Frozen(u)'
                      /\ work'[v].kind.guarded => ~work'[v].held
                      /\ work'[v].kind.releases => work'[v].id \in FreezeIds
    BY DEF RequestsStand
  <2>1. CASE v = w
    BY <1>2, <2>1, WaitingType
  <2>2. CASE v # w
    <3>1. work'[v].held => F!Frozen(work[v].actor) /\ (all => work[v].actor # u0)
      BY <1>1, <2>2 DEF FreezeIInv, RequestsStand
    <3>2. \A u : F!Frozen(u) /\ (all => u # u0) => F!Frozen(u)'
      BY ReleasedRows
    <3>3. work'[v].actor = work[v].actor
      BY <1>1, <2>2
    <3> QED
      BY <1>1, <2>2, <3>1, <3>2, <3>3 DEF FreezeIInv, RequestsStand
  <2> QED
    BY <2>1, <2>2
<1>7. F!FrozenMovesNothing'
  BY <1>1, <1>2, WaitingType DEF FreezeIInv, F!FrozenMovesNothing
<1> QED
  BY <1>4, <1>5, <1>6, <1>7 DEF FreezeIInv

\* A new freeze takes an unused row, and only where there is none.
LEMMA CreatedRow ==
  ASSUME FreezeIInv, NEW w \in Workers, F!CreateFreeze(w), freezes' # freezes
  PROVE  \E k \in F!Unused : \E u \in Accounts :
           /\ ~F!Frozen(u)
           /\ freezes' = [freezes EXCEPT ![k] = [user |-> u, status |-> "ACTIVE", by |-> F!Nobody]]
<1>1. work[w] \in F!Request /\ work[w].user # F!Nobody
  BY DEF F!CreateFreeze, FreezeIInv, F!TypeOK
<1>2. work[w].user \in Accounts
  BY <1>1 DEF F!Request
<1>3. ~F!Frozen(work[w].user) /\ F!Unused # {}
      /\ freezes' = [freezes EXCEPT ![F!Next1(F!Unused)] =
                        [user |-> work[w].user, status |-> "ACTIVE", by |-> F!Nobody]]
  BY DEF F!CreateFreeze
<1> QED
  BY <1>2, <1>3, LeastId

LEMMA CreateKeeps ==
  ASSUME FreezeIInv, NEW w \in Workers, F!CreateFreeze(w) PROVE FreezeIInv'
<1>1. F!Leave(w) /\ serving' \subseteq Accounts
  BY DEF F!CreateFreeze, FreezeIInv, F!TypeOK
<1>2. CASE freezes' = freezes
  BY <1>1, <1>2, LeavingKeeps
<1>3. CASE freezes' # freezes
  <2>1. PICK k \in F!Unused, u \in Accounts :
          /\ ~F!Frozen(u)
          /\ freezes' = [freezes EXCEPT ![k] = [user |-> u, status |-> "ACTIVE", by |-> F!Nobody]]
    BY <1>3, CreatedRow
  <2>2. k \in FreezeIds /\ freezes[k].status = "none"
    BY DEF F!Unused
  <2>3. freezes \in [FreezeIds -> [user : Accounts \cup {F!Nobody}, status : {"none", "ACTIVE", "RELEASED"},
                                   by : Accounts \cup {F!Nobody}]]
    BY DEF FreezeIInv, F!TypeOK
  <2>4. freezes' \in [FreezeIds -> [user : Accounts \cup {F!Nobody}, status : {"none", "ACTIVE", "RELEASED"},
                                    by : Accounts \cup {F!Nobody}]]
    BY <2>1, <2>3
  <2>5. \A i \in FreezeIds : i # k => freezes'[i] = freezes[i]
    BY <2>1, <2>3
  <2>6. freezes'[k].user = u /\ freezes'[k].status = "ACTIVE"
    BY <2>1, <2>2, <2>3
  <2>7. \A v : F!Active(v)' = IF v = u THEN F!Active(v) \cup {k} ELSE F!Active(v)
    <3> SUFFICES ASSUME NEW v PROVE F!Active(v)' = IF v = u THEN F!Active(v) \cup {k} ELSE F!Active(v)
      OBVIOUS
    <3> QED
      BY <2>2, <2>5, <2>6 DEF F!Active
  <2>8. F!Active(u) = {}
    BY <2>1 DEF F!Frozen
  <2>9. /\ work' \in [Workers -> F!Request]
        /\ \A v \in Workers : work'[v] = IF v = w THEN F!Waiting ELSE work[v]
    BY <1>1, WaitingType DEF F!Leave, FreezeIInv, F!TypeOK
  <2>10. F!TypeOK'
    BY <1>1, <2>4, <2>9 DEF F!TypeOK
  <2>11. OneEach'
    BY <2>7, <2>8 DEF FreezeIInv, OneEach
  <2>12. RequestsStand'
    <3> SUFFICES ASSUME NEW v \in Workers
                 PROVE  /\ \A a : work'[v].held /\ a = work'[v].actor => F!Frozen(a)'
                        /\ work'[v].kind.guarded => ~work'[v].held
                        /\ work'[v].kind.releases => work'[v].id \in FreezeIds
      BY DEF RequestsStand
    <3>1. \A a : F!Frozen(a) => F!Frozen(a)'
      BY <2>7 DEF F!Frozen
    <3> QED
      BY <2>9, <3>1, WaitingType DEF FreezeIInv, RequestsStand
  <2>13. F!FrozenMovesNothing'
    BY <2>9, WaitingType DEF FreezeIInv, F!FrozenMovesNothing
  <2> QED
    BY <2>10, <2>11, <2>12, <2>13 DEF FreezeIInv
<1> QED
  BY <1>2, <1>3

LEMMA FreezeInit == F!Init => FreezeIInv
<1> SUFFICES ASSUME F!Init PROVE FreezeIInv
  OBVIOUS
<1>1. F!TypeOK
  BY WaitingType DEF F!Init, F!TypeOK, F!NoRow
<1>2. OneEach
  BY DEF F!Init, OneEach, F!Active, F!NoRow
<1>3. RequestsStand /\ F!FrozenMovesNothing
  BY WaitingType DEF F!Init, RequestsStand, F!FrozenMovesNothing
<1> QED
  BY <1>1, <1>2, <1>3 DEF FreezeIInv

LEMMA FreezeStep ==
  ASSUME FreezeIInv, FreezeMove PROVE FreezeIInv'
<1>1. CASE UNCHANGED freezeOnly
  BY <1>1 DEF freezeOnly, FreezeIInv, F!TypeOK, OneEach, RequestsStand, F!FrozenMovesNothing, F!Active, F!Frozen
<1>2. ASSUME NEW u \in Accounts, F!Retire(u) PROVE FreezeIInv'
  BY <1>2, RetireKeeps
<1>3. ASSUME NEW w \in Workers, NEW kind \in F!Kinds, NEW u \in Accounts,
             NEW id \in FreezeIds \cup {F!NoId}, F!Ask(w, kind, u, id)
      PROVE  FreezeIInv'
  BY <1>3, AskKeeps
<1>4. ASSUME NEW w \in Workers, F!Enter(w) PROVE FreezeIInv'
  BY <1>4, EnterKeeps
<1>5. ASSUME NEW w \in Workers, F!ReadFreeze(w) PROVE FreezeIInv'
  BY <1>5, ReadFreezeKeeps
<1>6. ASSUME NEW w \in Workers, F!Refuse(w) \/ F!Commit(w) PROVE FreezeIInv'
  <2>1. F!Leave(w) /\ serving' \subseteq Accounts /\ freezes' = freezes
    BY <1>6 DEF F!Refuse, F!Commit, FreezeIInv, F!TypeOK
  <2> QED
    BY <2>1, LeavingKeeps
<1>7. ASSUME NEW w \in Workers, F!CommitRelease(w) PROVE FreezeIInv'
  BY <1>7, ReleaseKeeps
<1>8. ASSUME NEW w \in Workers, NEW u \in Accounts, F!FindFreeze(w, u) PROVE FreezeIInv'
  BY <1>8, FindKeeps
<1>9. ASSUME NEW w \in Workers, F!CreateFreeze(w) PROVE FreezeIInv'
  BY <1>9, CreateKeeps
<1> QED
  BY <1>1, <1>2, <1>3, <1>4, <1>5, <1>6, <1>7, <1>8, <1>9 DEF FreezeMove, F!Next

ReleasesOfRead ==
  \A i \in FreezeIds :
    freezes[i].status = "ACTIVE" /\ freezes'[i].status = "RELEASED" =>
      \E w \in Workers : work[w].kind.releases /\ work[w].id = i /\ work'[w] = F!Waiting

\* The action property: only the commit of a release, of the row it read, releases.
LEMMA ReleasesAreOfRead ==
  ASSUME FreezeIInv, FreezeMove PROVE ReleasesOfRead
<1> SUFFICES ASSUME NEW i \in FreezeIds, freezes[i].status = "ACTIVE", freezes'[i].status = "RELEASED"
             PROVE  \E w \in Workers : work[w].kind.releases /\ work[w].id = i /\ work'[w] = F!Waiting
  BY DEF ReleasesOfRead
<1>1. CASE freezes' = freezes
  BY <1>1
<1>2. ASSUME NEW w \in Workers, F!CreateFreeze(w), freezes' # freezes PROVE FALSE
  <2>1. PICK k \in F!Unused, u \in Accounts :
          freezes' = [freezes EXCEPT ![k] = [user |-> u, status |-> "ACTIVE", by |-> F!Nobody]]
    BY <1>2, CreatedRow
  <2> QED
    BY <2>1 DEF FreezeIInv, F!TypeOK
<1>3. ASSUME NEW w \in Workers, F!CommitRelease(w)
      PROVE  \E v \in Workers : work[v].kind.releases /\ work[v].id = i /\ work'[v] = F!Waiting
  <2>1. work[w].id = i
    BY <1>3, ReleasedRows
  <2>2. work'[w] = F!Waiting
    BY <1>3 DEF F!CommitRelease, FreezeIInv, F!TypeOK, F!Freed
  <2> QED
    BY <1>3, <2>1, <2>2 DEF F!CommitRelease
<1>4. (\E w \in Workers : F!CreateFreeze(w) \/ F!CommitRelease(w)) \/ freezes' = freezes
  BY DEF FreezeMove, F!Next, F!Retire, F!Ask, F!Enter, F!ReadFreeze, F!Refuse, F!Commit, F!FindFreeze, freezeOnly
<1> QED
  BY <1>1, <1>2, <1>3, <1>4

\* A freeze freezes: whichever of the declared routes a request takes, nothing that changes
\* permissions is about to commit whose actor was frozen all along; an account has one active
\* freeze; the declarations agree; and a release lifts the freeze its approver read
\* (freeze.service, freeze.guard, the controllers' decorators).
THEOREM FreezesStand == GovernanceSpec => FreezesHold
<1>1. GovernanceInit => FreezeIInv
  BY FreezeInit DEF GovernanceInit
<1>2. [GovernanceNext]_vars => FreezeMove
  BY DEF GovernanceNext, vars, FreezeMove, freezeOnly
<1>3. FreezeIInv /\ [GovernanceNext]_vars => FreezeIInv'
  BY <1>2, FreezeStep
<1>4. FreezeIInv => F!FreezeHolds
  BY OneEachCounts, DeclarationsHold DEF FreezeIInv, F!FreezeHolds
<1>5. FreezeIInv /\ [GovernanceNext]_vars => [ReleasesOfRead]_(F!freezeVars)
  BY <1>2, ReleasesAreOfRead
<1>6. [][ReleasesOfRead]_(F!freezeVars) <=> F!ReleasesWhatWasRead
  BY DEF ReleasesOfRead, F!ReleasesWhatWasRead
<1>7. FreezesHold <=> []F!FreezeHolds /\ F!ReleasesWhatWasRead
  BY DEF FreezesHold, F!FreezesHold
<1> QED
  BY <1>1, <1>3, <1>4, <1>5, <1>6, <1>7, PTL DEF GovernanceSpec

-----------------------------------------------------------------------------
(* The way of an administrator's edits to the members they concern.        *)

EditMove == P!Next \/ UNCHANGED editOnly

HandlersStand ==
  /\ assign \in [Users -> [Roles -> P!Assignment]]
  /\ apc \in [Admins -> P!AdminPc] /\ arole \in [Admins -> Roles] /\ aids \in [Admins -> SUBSET Users]

\* Someone is going to bump him.
Carried(u) == \E a \in Admins : P!Carries(a, u)

AllCarried == owed \subseteq Users /\ \A u \in owed \ dropped : Carried(u)

EditsIInv == HandlersStand /\ AllCarried

\* What keeps a handler's list: its step, its role, and the holder it has yet to read.
LEMMA StillCarried ==
  ASSUME EditsIInv, NEW b \in Admins, NEW v \in Users, P!Carries(b, v),
         apc'[b] = apc[b], arole'[b] = arole[b], aids'[b] = aids[b],
         v \in P!Holders(arole[b]) => v \in P!Holders(arole[b])'
  PROVE  P!Carries(b, v)'
<1>1. CASE apc[b] = "mapped" /\ v \in P!Holders(arole[b])
  BY <1>1 DEF P!Carries, P!Holders
<1>2. CASE apc[b] = "bump" /\ v \in aids[b]
  BY <1>2 DEF P!Carries
<1> QED
  BY <1>1, <1>2 DEF P!Carries

\* A change of one user's own rights, which the same transaction bumps: whoever else was on
\* a handler's list is there still.
LEMMA OwnChangeKeeps ==
  ASSUME EditsIInv, NEW a \in Admins, NEW u \in Users, P!CommitWithBump(a, u),
         assign' \in [Users -> [Roles -> P!Assignment]],
         \A v \in Users : v # u => assign'[v] = assign[v]
  PROVE  EditsIInv'
<1>1. /\ apc[a] = "idle" /\ apc' = [apc EXCEPT ![a] = "flush"] /\ aids' = [aids EXCEPT ![a] = {u}]
      /\ arole' = arole /\ owed' = owed \ {u} /\ dropped' = dropped \ {u}
  BY DEF P!CommitWithBump
<1>2. HandlersStand'
  BY <1>1 DEF EditsIInv, HandlersStand, P!AdminPc
<1>3. ASSUME NEW v \in owed' \ dropped' PROVE Carried(v)'
  <2>1. v \in owed /\ v \notin dropped /\ v # u /\ v \in Users
    BY <1>1, <1>3 DEF EditsIInv, AllCarried
  <2>2. PICK b \in Admins : P!Carries(b, v)
    BY <2>1 DEF EditsIInv, AllCarried, Carried
  <2>3. b # a
    BY <1>1, <2>2 DEF P!Carries
  <2>4. apc'[b] = apc[b] /\ aids'[b] = aids[b] /\ arole'[b] = arole[b]
    BY <1>1, <2>3 DEF EditsIInv, HandlersStand
  <2>5. v \in P!Holders(arole[b]) => v \in P!Holders(arole[b])'
    BY <1>1, <2>1 DEF P!Holders
  <2> QED
    BY <2>1, <2>2, <2>4, <2>5, StillCarried DEF Carried
<1> QED
  BY <1>1, <1>2, <1>3 DEF EditsIInv, AllCarried

\* A mapping edit: every holder is owed the bump, and its own handler is going to see to it.
LEMMA MappingKeeps ==
  ASSUME EditsIInv, NEW a \in Admins, NEW r \in Roles, NEW ps, P!CommitMapping(a, r, ps)
  PROVE  EditsIInv'
<1>1. /\ apc[a] = "idle" /\ apc' = [apc EXCEPT ![a] = "mapped"] /\ arole' = [arole EXCEPT ![a] = r]
      /\ aids' = aids /\ assign' = assign /\ owed' = owed \cup P!Holders(r) /\ dropped' = dropped
  BY DEF P!CommitMapping
<1>2. HandlersStand'
  BY <1>1 DEF EditsIInv, HandlersStand, P!AdminPc
<1>3. \A s : P!Holders(s)' = P!Holders(s)
  BY <1>1 DEF P!Holders
<1>4. owed' \subseteq Users
  BY <1>1 DEF EditsIInv, AllCarried, P!Holders
<1>5. ASSUME NEW v \in owed' \ dropped' PROVE Carried(v)'
  <2>1. CASE v \in P!Holders(r)
    <3>1. apc'[a] = "mapped" /\ arole'[a] = r
      BY <1>1 DEF EditsIInv, HandlersStand
    <3>2. v \in Users /\ assign'[v][arole'[a]] # "none"
      BY <1>1, <2>1, <3>1 DEF P!Holders
    <3> QED
      BY <3>1, <3>2 DEF Carried, P!Carries, P!Holders
  <2>2. CASE v \in owed
    <3>1. PICK b \in Admins : P!Carries(b, v)
      BY <1>1, <1>5, <2>2 DEF EditsIInv, AllCarried, Carried
    <3>2. b # a
      BY <1>1, <3>1 DEF P!Carries
    <3>3. apc'[b] = apc[b] /\ arole'[b] = arole[b] /\ aids'[b] = aids[b]
      BY <1>1, <3>2 DEF EditsIInv, HandlersStand
    <3>4. v \in P!Holders(arole[b]) => v \in P!Holders(arole[b])'
      BY <1>1, <3>3 DEF P!Holders
    <3> QED
      BY <1>4, <3>1, <3>3, <3>4, StillCarried DEF Carried
  <2> QED
    BY <1>1, <1>5, <2>1, <2>2
<1> QED
  BY <1>2, <1>4, <1>5 DEF EditsIInv, AllCarried

\* One handler goes on; the assignments stay.
LEMMA HandlerKeeps ==
  ASSUME EditsIInv, NEW a \in Admins,
         P!ReadHolders(a) \/ P!BumpHolders(a) \/ P!FlushCache(a)
  PROVE  EditsIInv'
<1>1. assign' = assign /\ arole' = arole
  BY DEF P!ReadHolders, P!BumpHolders, P!FlushCache, P!dbVars
<1>2. \A s : P!Holders(s)' = P!Holders(s) /\ P!Holders(s) \subseteq Users
  BY <1>1 DEF P!Holders
<1>3. HandlersStand'
  <2>1. CASE P!ReadHolders(a)
    BY <1>1, <1>2, <2>1 DEF P!ReadHolders, EditsIInv, HandlersStand, P!AdminPc
  <2>2. CASE P!BumpHolders(a)
    BY <1>1, <2>2 DEF P!BumpHolders, EditsIInv, HandlersStand, P!AdminPc
  <2>3. CASE P!FlushCache(a)
    BY <1>1, <2>3 DEF P!FlushCache, EditsIInv, HandlersStand, P!AdminPc
  <2> QED
    BY <2>1, <2>2, <2>3
<1>4. owed' \subseteq owed /\ owed' \ dropped' \subseteq owed \ dropped
  BY DEF P!ReadHolders, P!BumpHolders, P!FlushCache
<1>5. \A b \in Admins : b # a => apc'[b] = apc[b] /\ aids'[b] = aids[b]
  BY DEF P!ReadHolders, P!BumpHolders, P!FlushCache, EditsIInv, HandlersStand
<1>6. ASSUME NEW v \in owed' \ dropped' PROVE Carried(v)'
  <2>1. PICK b \in Admins : P!Carries(b, v)
    BY <1>4, <1>6 DEF EditsIInv, AllCarried, Carried
  <2>2. v \in Users
    BY <1>4, <1>6 DEF EditsIInv, AllCarried
  <2>3. CASE b # a
    <3>1. apc'[b] = apc[b] /\ arole'[b] = arole[b] /\ aids'[b] = aids[b]
      BY <1>1, <1>5, <2>3
    <3> QED
      BY <1>2, <2>1, <2>2, <3>1, StillCarried DEF Carried
  <2>4. CASE b = a /\ P!ReadHolders(a)
    <3>1. v \in P!Holders(arole[a]) /\ apc'[a] = "bump" /\ aids'[a] = P!Holders(arole[a])
      BY <2>1, <2>4 DEF P!Carries, P!ReadHolders, EditsIInv, HandlersStand
    <3> QED
      BY <3>1 DEF P!Carries, Carried
  <2>5. CASE b = a /\ P!BumpHolders(a)
    BY <1>6, <2>1, <2>5 DEF P!Carries, P!BumpHolders
  <2>6. CASE b = a /\ P!FlushCache(a)
    BY <2>1, <2>6 DEF P!Carries, P!FlushCache
  <2> QED
    BY <2>3, <2>4, <2>5, <2>6
<1> QED
  BY <1>3, <1>4, <1>6 DEF EditsIInv, AllCarried

\* The removal of a role: whoever held it by then is known to be dropped, and nobody else
\* leaves the list he is on.
LEMMA RemovalKeeps ==
  ASSUME EditsIInv, NEW a \in Admins, P!RemoveRole(a)
  PROVE  EditsIInv'
<1>1. /\ apc[a] = "remove" /\ apc' = [apc EXCEPT ![a] = "idle"]
      /\ arole' = arole /\ aids' = aids
  BY DEF P!RemoveRole
<1>2. \/ UNCHANGED <<assign, owed, dropped>>
      \/ /\ assign' = [u \in Users |-> [assign[u] EXCEPT ![arole[a]] = "none"]]
         /\ owed' = owed \cup P!Holders(arole[a])
         /\ dropped' = dropped \cup P!Holders(arole[a])
  BY DEF P!RemoveRole
<1>3. HandlersStand'
  BY <1>1, <1>2 DEF EditsIInv, HandlersStand, P!AdminPc, P!Assignment
<1>4. owed' \subseteq Users
  BY <1>2 DEF EditsIInv, AllCarried, P!Holders
<1>5. ASSUME NEW v \in owed' \ dropped' PROVE Carried(v)'
  <2>1. v \in owed \ dropped /\ v \in Users
    BY <1>2, <1>4, <1>5
  <2>2. PICK b \in Admins : P!Carries(b, v)
    BY <2>1 DEF EditsIInv, AllCarried, Carried
  <2>3. b # a
    BY <1>1, <2>2 DEF P!Carries
  <2>4. apc'[b] = apc[b] /\ arole'[b] = arole[b] /\ aids'[b] = aids[b]
    BY <1>1, <2>3 DEF EditsIInv, HandlersStand
  <2>5. ASSUME v \in P!Holders(arole[b]) PROVE v \in P!Holders(arole[b])'
    <3>1. arole[b] \in Roles /\ assign[v] \in [Roles -> P!Assignment]
      BY <2>1 DEF EditsIInv, HandlersStand
    <3>2. CASE UNCHANGED <<assign, owed, dropped>>
      BY <1>1, <2>5, <3>2 DEF P!Holders
    <3>3. CASE /\ assign' = [u \in Users |-> [assign[u] EXCEPT ![arole[a]] = "none"]]
               /\ dropped' = dropped \cup P!Holders(arole[a])
      <4>1. arole[b] # arole[a]
        BY <1>5, <2>5, <3>3
      <4> QED
        BY <1>1, <2>1, <2>5, <3>1, <3>3, <4>1 DEF P!Holders
    <3> QED
      BY <1>2, <3>2, <3>3
  <2> QED
    BY <2>1, <2>2, <2>4, <2>5, StillCarried DEF Carried
<1> QED
  BY <1>3, <1>4, <1>5 DEF EditsIInv, AllCarried

\* A removal that is let through to the deletion, and a process that dies: whoever is on
\* another handler's list is there still.
LEMMA OneLeaves ==
  ASSUME EditsIInv, NEW a \in Admins, UNCHANGED <<assign, owed>>,
         apc' \in [Admins -> P!AdminPc], arole' \in [Admins -> Roles],
         aids' \in [Admins -> SUBSET Users],
         \A b \in Admins : b # a => apc'[b] = apc[b] /\ arole'[b] = arole[b] /\ aids'[b] = aids[b],
         \A v \in owed \ dropped' :
           v \notin dropped /\ (P!Carries(a, v) => \E b \in Admins \ {a} : P!Carries(b, v))
  PROVE  EditsIInv'
<1>1. HandlersStand'
  BY DEF EditsIInv, HandlersStand
<1>2. ASSUME NEW v \in owed \ dropped' PROVE Carried(v)'
  <2>1. v \in Users /\ v \notin dropped
    BY <1>2 DEF EditsIInv, AllCarried
  <2>2. PICK b \in Admins \ {a} : P!Carries(b, v)
    BY <1>2, <2>1 DEF EditsIInv, AllCarried, Carried
  <2>3. v \in P!Holders(arole[b]) => v \in P!Holders(arole[b])'
    BY DEF P!Holders
  <2>4. apc'[b] = apc[b] /\ arole'[b] = arole[b] /\ aids'[b] = aids[b]
    BY <2>2
  <2> QED
    BY <2>1, <2>2, <2>3, <2>4, StillCarried DEF Carried
<1> QED
  BY <1>1, <1>2 DEF EditsIInv, AllCarried

LEMMA ExpiryKeeps ==
  ASSUME EditsIInv, NEW u \in Users, NEW r \in Roles, P!RoleExpires(u, r)
  PROVE  EditsIInv'
<1>1. /\ assign[u][r] = "timed" /\ assign' = [assign EXCEPT ![u][r] = "expired"]
      /\ UNCHANGED <<apc, arole, aids, owed, dropped>>
  BY DEF P!RoleExpires, P!adminVars
<1>2. HandlersStand'
  BY <1>1 DEF EditsIInv, HandlersStand, P!Assignment
<1>3. \A s \in Roles : P!Holders(s)' = P!Holders(s)
  BY <1>1 DEF P!Holders, EditsIInv, HandlersStand
<1>4. ASSUME NEW v \in owed \ dropped PROVE Carried(v)'
  <2>1. PICK b \in Admins : P!Carries(b, v)
    BY <1>4 DEF EditsIInv, AllCarried, Carried
  <2>2. arole[b] \in Roles /\ v \in Users
    BY <1>4 DEF EditsIInv, HandlersStand, AllCarried
  <2>3. v \in P!Holders(arole[b]) => v \in P!Holders(arole[b])'
    <3>1. assign[v] \in [Roles -> P!Assignment]
      BY <2>2 DEF EditsIInv, HandlersStand
    <3>2. assign[v][arole[b]] # "none" => assign'[v][arole[b]] # "none"
      BY <1>1, <2>2, <3>1 DEF EditsIInv, HandlersStand
    <3> QED
      BY <1>1, <3>2 DEF P!Holders
  <2> QED
    BY <1>1, <2>1, <2>2, <2>3, StillCarried DEF Carried
<1> QED
  BY <1>1, <1>2, <1>4 DEF EditsIInv, AllCarried

LEMMA EditsStep ==
  ASSUME EditsIInv, EditMove
  PROVE  EditsIInv'
<1>1. ASSUME UNCHANGED <<assign, apc, arole, aids, owed, dropped>> PROVE EditsIInv'
  BY <1>1 DEF EditsIInv, HandlersStand, AllCarried, P!Carries, Carried, P!Holders
<1>2. ASSUME NEW h \in Requests, NEW u \in Users, NEW c, P!ReadPv(h, u, c) PROVE EditsIInv'
  BY <1>1, <1>2 DEF P!ReadPv, P!dbVars, P!adminVars
<1>3. ASSUME NEW h \in Requests, P!RequestStep(h) PROVE EditsIInv'
  BY <1>1, <1>3 DEF P!RequestStep, P!GetCache, P!ReadUser, P!ReadUserRoles, P!BuildSnapshot, P!RebuildError,
     P!SetCache, P!Finish, P!dbVars, P!adminVars
<1>4. ASSUME NEW u \in Users, P!CacheExpire(u) PROVE EditsIInv'
  BY <1>1, <1>4 DEF P!CacheExpire, P!dbVars, P!adminVars
<1>5. ASSUME NEW a \in Admins, NEW u \in Users, NEW r \in Roles, NEW kind \in {"permanent", "timed"},
             P!GrantRole(a, u, r, kind)
      PROVE  EditsIInv'
  <2>1. P!CommitWithBump(a, u)
    BY <1>5 DEF P!GrantRole
  <2>2. assign' \in [Users -> [Roles -> P!Assignment]] /\ \A v \in Users : v # u => assign'[v] = assign[v]
    BY <1>5 DEF P!GrantRole, EditsIInv, HandlersStand, P!Assignment
  <2> QED
    BY <2>1, <2>2, OwnChangeKeeps
<1>6. ASSUME NEW a \in Admins, NEW u \in Users, NEW r \in Roles, P!RevokeRole(a, u, r) PROVE EditsIInv'
  <2>1. P!CommitWithBump(a, u)
    BY <1>6 DEF P!RevokeRole
  <2>2. assign' \in [Users -> [Roles -> P!Assignment]] /\ \A v \in Users : v # u => assign'[v] = assign[v]
    BY <1>6 DEF P!RevokeRole, EditsIInv, HandlersStand, P!Assignment
  <2> QED
    BY <2>1, <2>2, OwnChangeKeeps
<1>7. ASSUME NEW a \in Admins, NEW u \in Users, NEW s, P!SetStatus(a, u, s) PROVE EditsIInv'
  <2>1. P!CommitWithBump(a, u) /\ assign' = assign
    BY <1>7 DEF P!SetStatus
  <2> QED
    BY <2>1, OwnChangeKeeps DEF EditsIInv, HandlersStand
<1>8. ASSUME NEW a \in Admins, NEW r \in Roles, NEW ps, P!CommitMapping(a, r, ps) PROVE EditsIInv'
  BY <1>8, MappingKeeps
<1>9. ASSUME NEW a \in Admins, NEW r \in Roles, P!CheckRemove(a, r) PROVE EditsIInv'
  <2>1. /\ apc[a] = "idle" /\ apc' = [apc EXCEPT ![a] = "remove"] /\ arole' = [arole EXCEPT ![a] = r]
        /\ UNCHANGED <<assign, aids, owed, dropped>>
    BY <1>9 DEF P!CheckRemove, P!dbVars
  <2>2. apc' \in [Admins -> P!AdminPc] /\ arole' \in [Admins -> Roles] /\ aids' \in [Admins -> SUBSET Users]
    BY <2>1 DEF EditsIInv, HandlersStand, P!AdminPc
  <2>3. \A b \in Admins : b # a => apc'[b] = apc[b] /\ arole'[b] = arole[b] /\ aids'[b] = aids[b]
    BY <2>1 DEF EditsIInv, HandlersStand
  <2>4. \A v : ~P!Carries(a, v)
    BY <2>1 DEF P!Carries
  <2> QED
    BY <2>1, <2>2, <2>3, <2>4, OneLeaves
<1>10. ASSUME NEW a \in Admins, P!AdminStep(a) PROVE EditsIInv'
  BY <1>10, HandlerKeeps, RemovalKeeps DEF P!AdminStep
<1>11. ASSUME NEW a \in Admins, P!CrashAdmin(a) PROVE EditsIInv'
  <2>1. /\ apc' = [apc EXCEPT ![a] = "idle"] /\ aids' = [aids EXCEPT ![a] = {}]
        /\ UNCHANGED <<assign, arole, owed>>
    BY <1>11 DEF P!CrashAdmin, P!dbVars
  <2>2. apc' \in [Admins -> P!AdminPc] /\ arole' \in [Admins -> Roles] /\ aids' \in [Admins -> SUBSET Users]
    BY <2>1 DEF EditsIInv, HandlersStand, P!AdminPc
  <2>3. \A b \in Admins : b # a => apc'[b] = apc[b] /\ arole'[b] = arole[b] /\ aids'[b] = aids[b]
    BY <2>1 DEF EditsIInv, HandlersStand
  <2>4. \A v \in owed \ dropped' :
          v \notin dropped /\ (P!Carries(a, v) => \E b \in Admins \ {a} : P!Carries(b, v))
    BY <1>11 DEF P!CrashAdmin
  <2> QED
    BY <2>1, <2>2, <2>3, <2>4, OneLeaves
<1>12. ASSUME NEW a \in Admins, P!AdminStart(a) PROVE EditsIInv'
  BY <1>5, <1>6, <1>7, <1>8, <1>9, <1>12 DEF P!AdminStart
<1>13. ASSUME NEW u \in Users, NEW r \in Roles, P!RoleExpires(u, r) PROVE EditsIInv'
  BY <1>13, ExpiryKeeps
<1>14. CASE UNCHANGED editOnly
  BY <1>1, <1>14 DEF editOnly
<1> QED
  BY <1>2, <1>3, <1>4, <1>10, <1>11, <1>12, <1>13, <1>14 DEF EditMove, P!Next

LEMMA EditsInit == P!Init => EditsIInv
BY DEF P!Init, EditsIInv, HandlersStand, AllCarried, P!Assignment, P!AdminPc

\* Whoever is owed a bump is on the list of a handler that is going to give it to him, from
\* the commit of the mapping to the updateMany (roles.service 235-236): whatever is granted,
\* revoked, mapped again or removed meanwhile, and whichever other handlers die. The only
\* ones left out are those whose last handler died, and those whose role was removed.
THEOREM EditsAreOnTheWay == GovernanceSpec => []OwedIsOnTheWay
<1>1. GovernanceInit => EditsIInv
  BY EditsInit DEF GovernanceInit
<1>2. [GovernanceNext]_vars => EditMove
  BY DEF GovernanceNext, vars, EditMove, editOnly
<1>3. EditsIInv /\ [GovernanceNext]_vars => EditsIInv'
  BY <1>2, EditsStep
<1>4. EditsIInv => OwedIsOnTheWay
  BY DEF EditsIInv, AllCarried, Carried, OwedIsOnTheWay, P!OwedIsOnTheWay
<1> QED
  BY <1>1, <1>3, <1>4, PTL DEF GovernanceSpec
=============================================================================
