------------------------------ MODULE MCBoard -------------------------------
(***************************************************************************)
(* The parts of the board, side by side: "part" says which of them moves,  *)
(* and the others rest in one initial state each.  They share the          *)
(* environment's variables solo and calm, and nothing else.                *)
(***************************************************************************)
EXTENDS Outbox

CONSTANTS
  PostIds, BoardIds, Reporters, PostHandlers, AutoHideThreshold, Scenes, MaxCount,
  CommentIds, Root, CommentHandlers, MaxSiblings, MaxComments,
  Viewed, Instances, Flushes, MaxViews, MaxFailures

ASSUME BoardAssumption ==
  /\ IsFiniteSet(PostIds) /\ PostIds # {} /\ BoardIds # {}
  /\ IsFiniteSet(PostHandlers) /\ IsFiniteSet(Reporters) /\ Reporters \subseteq Nat \ {0}
  /\ AutoHideThreshold \in Nat \ {0}
  /\ IsFiniteSet(CommentIds) /\ Root \notin CommentIds /\ MaxSiblings \in Nat
  /\ IsFiniteSet(Instances) /\ IsFiniteSet(Flushes) /\ MaxFailures \in Nat

VARIABLES
  part, solo, calm,
  scene, posts, reports, postCount, recount, postReq, released, bent,
  parent, seq, shown, commentCount, commentRecount, commentReq, pruned,
  seen, stored, buffer, batch, unwritten, mishaps, crashed, failed

P == INSTANCE Posts
C == INSTANCE Comments
V == INSTANCE ViewCount

postOnly    == <<scene, posts, reports, postCount, recount, postReq, released, bent>>
commentOnly == <<parent, seq, shown, commentCount, commentRecount, commentReq, pruned>>
viewOnly    == <<seen, stored, buffer, batch, unwritten, mishaps, crashed, failed>>
vars == <<part, solo, calm, postOnly, commentOnly, outboxVars, viewOnly>>

MCScenes == {{"publish", "delete", "keep", "hide", "show", "purge"},
             {"publish", "show", "report", "uphold", "dismiss"},
             {"delete", "hide", "report", "uphold"}}

BoardInit ==
  /\ part \in {"posts", "comments", "outbox", "views"}
  /\ P!Init /\ C!Init /\ Init /\ V!Init
  /\ part \notin {"posts", "comments"} => solo
  /\ part # "posts" => scene = CHOOSE s \in Scenes : TRUE
  /\ part # "outbox" => poison = {}

BoardNext ==
  \/ /\ part = "posts"
     /\ P!Next
     /\ UNCHANGED <<part, commentOnly, outboxVars, viewOnly>>
  \/ /\ part = "comments"
     /\ C!Next
     /\ UNCHANGED <<part, postOnly, outboxVars, viewOnly>>
  \/ /\ part = "outbox"
     /\ Next
     /\ UNCHANGED <<part, solo, calm, postOnly, commentOnly, viewOnly>>
  \/ /\ part = "views"
     /\ V!Next
     /\ UNCHANGED <<part, solo, calm, postOnly, commentOnly, outboxVars>>

BoardFairness == P!Fairness /\ C!Fairness /\ Fairness /\ V!Fairness

BoardSpec == BoardInit /\ [][BoardNext]_vars /\ BoardFairness

\* Every variable has its type.
BoardTypeOK == P!TypeOK /\ C!TypeOK /\ TypeOK /\ V!TypeOK

\* The properties of the parts, as they are stated there: the counters of boards and
\* posts, when requests come one at a time,
CountersExact == P!CountIsExact /\ C!CommentCountIsExact

\* posts under moderation,
Moderation == P!Moderation
HiddenStaysHidden == P!HiddenStaysHidden

\* the tree of comments,
SiblingPathsUnique == C!SiblingPathsUnique
TreeHolds == C!TreeHolds

\* the delivery of events (Delivery, of Outbox), the count of views,
ViewsCounted == V!ViewsCounted

\* and what timers and patrols bring about in the end: right counters, no tombstone
\* without a comment under it, no event and no view still on its way.
BoardSettles == P!CountsSettle /\ C!CommentsSettle /\ EventsSettle /\ V!ViewsArrive
=============================================================================
