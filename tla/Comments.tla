----------------------------- MODULE Comments ------------------------------
(***************************************************************************)
(* The comments of one post: the tree that their paths draw, deletion with *)
(* and without a tombstone, edits, the purge of a member who left, and the *)
(* patrols BRI-2 (comment_count) and BRI-5 (orphaned tombstones).          *)
(*                                                                         *)
(* A path is the path of the parent and a number of SEG = 4 digits among   *)
(* the siblings; here a comment keeps its parent and that number.          *)
(***************************************************************************)
EXTENDS Integers, FiniteSets

CONSTANTS
  CommentIds,        \* numbers, taken in their order: comments are alike
  Root,              \* parent_id NULL
  CommentHandlers,   \* requests and purges at the same time
  MaxSiblings,       \* the largest number of SEG digits, 9999
  MaxComments        \* bound on comment_count

VARIABLES
  solo,           \* environment: requests come one at a time
  calm,           \* environment: from now on nothing new is asked
  parent, seq,    \* comments.parent_id and the last segment of comments.path
  shown,          \* "live", "tomb": deleted with a tombstone, "cut": deleted and out of sight
  commentCount,   \* posts.comment_count
  commentRecount, \* the count the patrol is about to write
  commentReq,     \* the handlers
  pruned          \* history: a purge took comments out, without regard to the tree

commentVars ==
  <<solo, calm, parent, seq, shown, commentCount, commentRecount, commentReq, pruned>>
tree == <<parent, seq, shown>>

Nothing == -1
Parents == CommentIds \cup {Root}
Resting == [op |-> "idle", id |-> Root, seq |-> 0, kids |-> FALSE]

Written(c)  == shown[c] # "none"
InSight(c)  == shown[c] \in {"live", "tomb"}
Siblings(q) == {c \in CommentIds : Written(c) /\ parent[c] = q}
Kids(q)     == {c \in Siblings(q) : InSight(c)}
Live        == {c \in CommentIds : shown[c] = "live"}
Orphans     == {c \in CommentIds : shown[c] = "tomb" /\ Kids(c) = {}}

Init ==
  /\ solo \in BOOLEAN
  /\ calm = FALSE
  /\ parent = [c \in CommentIds |-> Root]
  /\ seq = [c \in CommentIds |-> 0]
  /\ shown = [c \in CommentIds |-> "none"]
  /\ commentCount = 0
  /\ commentRecount = Nothing
  /\ commentReq = [h \in CommentHandlers |-> Resting]
  /\ pruned = FALSE

Ready(h) ==
  /\ ~calm
  /\ commentReq[h].op = "idle"
  /\ solo => commentRecount = Nothing /\ \A g \in CommentHandlers : commentReq[g].op = "idle"
  /\ commentCount \in 0..MaxComments

Done(h) == commentReq' = [commentReq EXCEPT ![h] = Resting]

Quieten ==
  /\ ~calm
  /\ \A h \in CommentHandlers : commentReq[h].op = "idle"
  /\ calm' = TRUE
  /\ UNCHANGED <<solo, tree, commentCount, commentRecount, commentReq, pruned>>

\* CommentsService.create reads the comment that is answered.
ReadParent(h, q) ==
  /\ Ready(h)
  /\ q # Root => shown[q] = "live"
  /\ commentReq' = [commentReq EXCEPT ![h] = [Resting EXCEPT !.op = "create", !.id = q]]
  /\ UNCHANGED <<solo, calm, tree, commentCount, commentRecount, pruned>>

Locked(q) == \E h \in CommentHandlers : commentReq[h].op = "locked" /\ commentReq[h].id = q

\* The order of the numbers as strings: one digit too many sorts before the last
\* number that fits.
NotAfter(m, n) == (m <= n /\ n <= MaxSiblings) \/ (m > MaxSiblings /\ n >= MaxSiblings)

IsLastNumber(q, n) ==
  IF Siblings(q) = {} THEN n = 0
  ELSE (\E c \in Siblings(q) : seq[c] = n) /\ \A c \in Siblings(q) : NotAfter(seq[c], n)

\* Mutant of LockSiblings: nobody waits for the advisory lock.
LockNothing(h) ==
  /\ commentReq[h].op = "create"
  /\ \E n \in 0..(MaxSiblings + 1) :
       /\ IsLastNumber(commentReq[h].id, n)
       /\ commentReq' = [commentReq EXCEPT ![h].op = "locked", ![h].seq = n + 1]
  /\ UNCHANGED <<solo, calm, tree, commentCount, commentRecount, pruned>>

\* pg_advisory_xact_lock on the parent, then the last number among the siblings.
LockSiblings(h) ==
  /\ commentReq[h].op = "create"
  /\ ~Locked(commentReq[h].id)
  /\ \E n \in 0..(MaxSiblings + 1) :
       /\ IsLastNumber(commentReq[h].id, n)
       /\ commentReq' = [commentReq EXCEPT ![h].op = "locked", ![h].seq = n + 1]
  /\ UNCHANGED <<solo, calm, tree, commentCount, commentRecount, pruned>>

\* The comment is written and counted; the commit releases the lock.
Insert(h, c) ==
  /\ commentReq[h].op = "locked"
  /\ ~Written(c) /\ \A d \in CommentIds : d < c => Written(d)
  /\ parent' = [parent EXCEPT ![c] = commentReq[h].id]
  /\ seq' = [seq EXCEPT ![c] = commentReq[h].seq]
  /\ shown' = [shown EXCEPT ![c] = "live"]
  /\ commentCount' = commentCount + 1
  /\ Done(h)
  /\ UNCHANGED <<solo, calm, commentRecount, pruned>>

\* A deletion, an edit or a purge finds the comment alive.
Take(h, op, c) ==
  /\ Ready(h)
  /\ op \in {"delete", "edit", "purge"}
  /\ shown[c] = "live"
  /\ commentReq' = [commentReq EXCEPT ![h] = [Resting EXCEPT !.op = op, !.id = c]]
  /\ UNCHANGED <<solo, calm, tree, commentCount, commentRecount, pruned>>

\* Mutant of CountKids: tombstones are no children.
CountLiveKids(h) ==
  /\ commentReq[h].op = "delete"
  /\ commentReq' = [commentReq EXCEPT
       ![h].op = "counted", ![h].kids = Kids(commentReq[h].id) \cap Live # {}]
  /\ UNCHANGED <<solo, calm, tree, commentCount, commentRecount, pruned>>

\* softDelete: visibleChildCount, inside the transaction and without a lock.
CountKids(h) ==
  /\ commentReq[h].op = "delete"
  /\ commentReq' = [commentReq EXCEPT ![h].op = "counted", ![h].kids = Kids(commentReq[h].id) # {}]
  /\ UNCHANGED <<solo, calm, tree, commentCount, commentRecount, pruned>>

\* purgeOrphanTombstones: the tombstones above c that c alone was holding, by itself or
\* through one another: the fewest with which the loop is done.
HeldOnlyBy(c) == parent[c] # Root /\ shown[parent[c]] = "tomb" /\ Kids(parent[c]) \subseteq {c}

Released(c) ==
  {t \in CommentIds : \A S \in SUBSET CommentIds :
     (\A d \in {c} \cup S : HeldOnlyBy(d) => parent[d] \in S) => t \in S}

\* The rest of softDelete: a comment with children leaves a tombstone, one without
\* disappears, with the tombstones it was the last to hold.
Delete(h) ==
  LET q   == commentReq[h]
      cut == IF q.kids \/ shown[q.id] = "tomb" THEN {} ELSE {q.id} \cup Released(q.id)
  IN /\ q.op = "counted"
     /\ shown' = [c \in CommentIds |->
          IF c \in cut THEN "cut" ELSE IF c = q.id /\ q.kids THEN "tomb" ELSE shown[c]]
     /\ commentCount' = commentCount - 1
     /\ Done(h)
     /\ UNCHANGED <<solo, calm, parent, seq, commentRecount, pruned>>

\* CommentsService.update writes the text, over a tombstone too.
Edit(h) ==
  LET q == commentReq[h]
  IN /\ q.op = "edit"
     /\ shown' = [shown EXCEPT ![q.id] = IF @ = "tomb" THEN "cut" ELSE @]
     /\ Done(h)
     /\ UNCHANGED <<solo, calm, parent, seq, commentCount, commentRecount, pruned>>

\* Mutant of PurgeComment: the comment is not taken off the counter.
PurgeUncounted(h) ==
  LET q == commentReq[h]
  IN /\ q.op = "purge"
     /\ shown' = [shown EXCEPT ![q.id] = IF @ = "live" THEN "cut" ELSE @]
     /\ pruned' = TRUE
     /\ Done(h)
     /\ UNCHANGED <<solo, calm, parent, seq, commentCount, commentRecount>>

\* BoardOwnerCleanupHook: no tombstone is left, and none is cleared.
PurgeComment(h) ==
  LET q == commentReq[h]
  IN /\ q.op = "purge"
     /\ shown' = [shown EXCEPT ![q.id] = IF @ = "live" THEN "cut" ELSE @]
     /\ commentCount' = commentCount - 1
     /\ pruned' = TRUE
     /\ Done(h)
     /\ UNCHANGED <<solo, calm, parent, seq, commentRecount>>

\* BRI-2: the UPDATE counts in its snapshot, and writes when it has the row.
CountComments ==
  /\ commentRecount = Nothing
  /\ commentCount # Cardinality(Live)
  /\ solo => \A h \in CommentHandlers : commentReq[h].op = "idle"
  /\ commentRecount' = Cardinality(Live)
  /\ UNCHANGED <<solo, calm, tree, commentCount, commentReq, pruned>>

WriteCount ==
  /\ commentRecount # Nothing
  /\ commentCount' = commentRecount
  /\ commentRecount' = Nothing
  /\ UNCHANGED <<solo, calm, tree, commentReq, pruned>>

\* Mutant of ClearTombs: answers are not looked at.
ClearTopTombs ==
  /\ \E c \in Orphans : parent[c] = Root
  /\ shown' = [c \in CommentIds |-> IF c \in Orphans /\ parent[c] = Root THEN "cut" ELSE shown[c]]
  /\ UNCHANGED <<solo, calm, parent, seq, commentCount, commentRecount, commentReq, pruned>>

\* BRI-5, one of its passes.
ClearTombs ==
  /\ Orphans # {}
  /\ shown' = [c \in CommentIds |-> IF c \in Orphans THEN "cut" ELSE shown[c]]
  /\ UNCHANGED <<solo, calm, parent, seq, commentCount, commentRecount, commentReq, pruned>>

Next ==
  \/ Quieten
  \/ CountComments
  \/ WriteCount
  \/ ClearTombs
  \/ \E h \in CommentHandlers :
       \/ \E q \in Parents : ReadParent(h, q)
       \/ LockSiblings(h)
       \/ \E c \in CommentIds :
            \/ Insert(h, c)
            \/ \E op \in {"delete", "edit", "purge"} : Take(h, op, c)
       \/ CountKids(h)
       \/ Delete(h)
       \/ Edit(h)
       \/ PurgeComment(h)

Fairness ==
  /\ WF_commentVars(CountComments \/ WriteCount)
  /\ WF_commentVars(ClearTombs)

Spec == Init /\ [][Next]_commentVars /\ Fairness

TypeOK ==
  /\ solo \in BOOLEAN /\ calm \in BOOLEAN /\ pruned \in BOOLEAN
  /\ parent \in [CommentIds -> Parents]
  /\ seq \in [CommentIds -> Nat]
  /\ shown \in [CommentIds -> {"none", "live", "tomb", "cut"}]
  /\ commentCount \in Int
  /\ commentRecount \in Nat \cup {Nothing}
  /\ commentReq \in [CommentHandlers ->
       [op : {"idle", "create", "locked", "delete", "counted", "edit", "purge"},
        id : Parents, seq : Nat, kids : BOOLEAN]]

\* However creations overlap, two comments under the same parent have different
\* paths, as long as their number fits the digits of a segment.
SiblingPathsUnique ==
  \A c, d \in CommentIds :
    c # d /\ Written(c) /\ Written(d) /\ parent[c] = parent[d] /\ seq[c] = seq[d] =>
      seq[c] > MaxSiblings

\* Requests one at a time: the counter of the post is the number of live comments.
CommentCountIsExact == solo => commentCount = Cardinality(Live)

\* Requests one at a time and nobody purged: what is in sight hangs on something in
\* sight, and a tombstone is there because something hangs on it.
TreeHolds ==
  solo /\ ~pruned =>
    \A c \in CommentIds :
      /\ InSight(c) /\ parent[c] # Root => InSight(parent[c])
      /\ shown[c] = "tomb" => Kids(c) # {}

\* When no more requests come the patrol leaves the right count and no tombstone
\* without a child.
CommentsSettle == <>calm => <>[](commentCount = Cardinality(Live) /\ Orphans = {})
=============================================================================
