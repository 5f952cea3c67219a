----------------------------- MODULE ViewCount ------------------------------
(***************************************************************************)
(* The views of a post: counted in the memory of an instance, and added to *)
(* the database by a flush every fifteen seconds.  A flush takes the whole *)
(* buffer and writes one post after the other.                             *)
(***************************************************************************)
EXTENDS Integers, FiniteSets

CONSTANTS
  Viewed,       \* posts
  Instances,
  Flushes,      \* flushes of one instance at the same time: the interval does not wait
  MaxViews,     \* bound on the views of a post
  MaxFailures   \* bound: failing statements and crashes

VARIABLES
  seen,         \* history: views of a post
  stored,       \* posts.view_count
  buffer,       \* of an instance
  batch,        \* what a flush of an instance has taken
  unwritten,    \* posts of the batch that are still to be written
  mishaps,      \* how many failures so far
  crashed, failed   \* history

viewVars == <<seen, stored, buffer, batch, unwritten, mishaps, crashed, failed>>

Nowhere == [p \in Viewed |-> 0]
NonEmpty(b) == {p \in Viewed : b[p] > 0}

Init ==
  /\ seen = Nowhere
  /\ stored = Nowhere
  /\ buffer = [i \in Instances |-> Nowhere]
  /\ batch = [i \in Instances |-> [f \in Flushes |-> Nowhere]]
  /\ unwritten = [i \in Instances |-> [f \in Flushes |-> {}]]
  /\ mishaps = 0
  /\ crashed = FALSE
  /\ failed = FALSE

Bump(i, p) ==
  /\ seen[p] < MaxViews
  /\ seen' = [seen EXCEPT ![p] = @ + 1]
  /\ buffer' = [buffer EXCEPT ![i][p] = @ + 1]
  /\ UNCHANGED <<stored, batch, unwritten, mishaps, crashed, failed>>

\* Mutant of Swap: one post is not worth a flush.
SwapMany(i, f) ==
  /\ unwritten[i][f] = {}
  /\ Cardinality(NonEmpty(buffer[i])) > 1
  /\ batch' = [batch EXCEPT ![i][f] = buffer[i]]
  /\ buffer' = [buffer EXCEPT ![i] = Nowhere]
  /\ unwritten' = [unwritten EXCEPT ![i][f] = NonEmpty(buffer[i])]
  /\ UNCHANGED <<seen, stored, mishaps, crashed, failed>>

\* The flush begins with a new buffer.
Swap(i, f) ==
  /\ unwritten[i][f] = {}
  /\ NonEmpty(buffer[i]) # {}
  /\ batch' = [batch EXCEPT ![i][f] = buffer[i]]
  /\ buffer' = [buffer EXCEPT ![i] = Nowhere]
  /\ unwritten' = [unwritten EXCEPT ![i][f] = NonEmpty(buffer[i])]
  /\ UNCHANGED <<seen, stored, mishaps, crashed, failed>>

Write(i, f, p) ==
  /\ p \in unwritten[i][f]
  /\ stored' = [stored EXCEPT ![p] = @ + batch[i][f][p]]
  /\ unwritten' = [unwritten EXCEPT ![i][f] = @ \ {p}]
  /\ UNCHANGED <<seen, buffer, batch, mishaps, crashed, failed>>

\* Mutant of GiveBack: the batch takes the place of the buffer.
GiveBackOver(i, f) ==
  /\ unwritten[i][f] # {}
  /\ mishaps < MaxFailures
  /\ mishaps' = mishaps + 1
  /\ failed' = TRUE
  /\ buffer' = [buffer EXCEPT ![i] = batch[i][f]]
  /\ unwritten' = [unwritten EXCEPT ![i][f] = {}]
  /\ UNCHANGED <<seen, stored, batch, crashed>>

\* A statement fails: the whole batch goes back, with what is written already.
GiveBack(i, f) ==
  /\ unwritten[i][f] # {}
  /\ mishaps < MaxFailures
  /\ mishaps' = mishaps + 1
  /\ failed' = TRUE
  /\ buffer' = [buffer EXCEPT ![i] = [p \in Viewed |-> @[p] + batch[i][f][p]]]
  /\ unwritten' = [unwritten EXCEPT ![i][f] = {}]
  /\ UNCHANGED <<seen, stored, batch, crashed>>

Crash(i) ==
  /\ mishaps < MaxFailures
  /\ mishaps' = mishaps + 1
  /\ crashed' = TRUE
  /\ buffer' = [buffer EXCEPT ![i] = Nowhere]
  /\ unwritten' = [unwritten EXCEPT ![i] = [f \in Flushes |-> {}]]
  /\ UNCHANGED <<seen, stored, batch, failed>>

Flush(i, f) == Swap(i, f) \/ \E p \in Viewed : Write(i, f, p)

Next ==
  \E i \in Instances :
    \/ \E p \in Viewed : Bump(i, p)
    \/ \E f \in Flushes : Flush(i, f) \/ GiveBack(i, f)
    \/ Crash(i)

\* @Interval(15_000)
Fairness == \A i \in Instances : WF_viewVars(\E f \in Flushes : Flush(i, f))

Spec == Init /\ [][Next]_viewVars /\ Fairness

TypeOK ==
  /\ seen \in [Viewed -> Nat] /\ stored \in [Viewed -> Nat]
  /\ buffer \in [Instances -> [Viewed -> Nat]] /\ batch \in [Instances -> [Flushes -> [Viewed -> Nat]]]
  /\ unwritten \in [Instances -> [Flushes -> SUBSET Viewed]]
  /\ mishaps \in 0..MaxFailures /\ crashed \in BOOLEAN /\ failed \in BOOLEAN

\* No instance has views of p that it has not written.
Settled(p) ==
  \A i \in Instances : buffer[i][p] = 0 /\ \A f \in Flushes : p \notin unwritten[i][f]

\* Without a failure no view is counted twice, whatever comes in during a flush.
NoViewTwice == ~failed => \A p \in Viewed : stored[p] <= seen[p]

\* Without a crash no view is lost: failures keep what they could not write.
NoViewLost == ~crashed => \A p \in Viewed : Settled(p) => stored[p] >= seen[p]

\* The counter of a post moves with its views alone.
ViewsCounted == NoViewTwice /\ NoViewLost

\* When the views and the failures end, all of them are in the database.
ViewsArrive == <>[](\A p \in Viewed : Settled(p))
=============================================================================
