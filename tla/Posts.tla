------------------------------- MODULE Posts -------------------------------
(***************************************************************************)
(* The life of a post: draft, publication, moderation, reports, deletion,  *)
(* the purge of a member who left, and the counter posts_count of its      *)
(* board with the patrol BRI-2 that repairs it.  A handler reads the post, *)
(* judges what it read, and changes the row in a later transaction.        *)
(***************************************************************************)
EXTENDS Integers, FiniteSets

CONSTANTS
  PostIds, BoardIds,
  Reporters,           \* members who report, none of them the owner: numbers
  PostHandlers,        \* requests and purges at the same time
  AutoHideThreshold,   \* AUTO_HIDE_THRESHOLD
  Scenes,              \* sets of operations that are asked for together
  MaxCount             \* bound on the counters

VARIABLES
  solo,        \* environment: requests come one at a time, the patrol between them
  scene,       \* environment: the operations that are asked for
  calm,        \* environment: from now on nothing new is asked
  posts,       \* posts: status, deleted_at set, board_id
  reports,     \* board_reports.status of a post and a reporter
  postCount,   \* boards.post_count
  recount,     \* the counts the patrol is about to write, Skip for a right one
  postReq,     \* the handlers
  released,    \* history: shown by a moderator, published after reports, or shown over
               \* reports that the verdict had not read
  bent         \* history: a step that is known to miscount

postVars == <<solo, scene, calm, posts, reports, postCount, recount, postReq, released, bent>>

Statuses == {"none", "DRAFT", "PUBLISHED", "HIDDEN", "DELETED"}
Row      == [status : Statuses, gone : BOOLEAN, board : BoardIds]
Seen     == [status : Statuses, board : BoardIds]
Skip     == -1
NoRecount == [b \in BoardIds |-> Skip]

AnyPost  == CHOOSE p \in PostIds : TRUE
AnyBoard == CHOOSE b \in BoardIds : TRUE
NoRow    == [status |-> "none", gone |-> FALSE, board |-> AnyBoard]
Unseen   == [status |-> "none", board |-> AnyBoard]
Idle     == [op |-> "idle", post |-> AnyPost, seen |-> Unseen, by |-> 0, to |-> AnyBoard, heard |-> 0,
             open |-> {}]

Counted(p, b) == posts[p].status = "PUBLISHED" /\ ~posts[p].gone /\ posts[p].board = b
RealCount(b)  == Cardinality({p \in PostIds : Counted(p, b)})
CountRight    == \A b \in BoardIds : postCount[b] = RealCount(b)
Open(p)       == {r \in Reporters : reports[p][r] = "OPEN"}

Init ==
  /\ solo \in BOOLEAN
  /\ scene \in Scenes
  /\ calm = FALSE
  /\ posts = [p \in PostIds |-> NoRow]
  /\ reports = [p \in PostIds |-> [r \in Reporters |-> "none"]]
  /\ postCount = [b \in BoardIds |-> 0]
  /\ recount = NoRecount
  /\ postReq = [h \in PostHandlers |-> Idle]
  /\ released = [p \in PostIds |-> FALSE]
  /\ bent = FALSE

Free(h) ==
  /\ ~calm
  /\ postReq[h].op = "idle"
  /\ solo => recount = NoRecount /\ \A g \in PostHandlers : postReq[g].op = "idle"
  /\ \A b \in BoardIds : postCount[b] \in 0..MaxCount

Finish(h) == postReq' = [postReq EXCEPT ![h] = Idle]
Put(p, row) == posts' = [posts EXCEPT ![p] = row]
Count(b, n) == postCount' = [postCount EXCEPT ![b] = @ + n]
Gone(row)   == [row EXCEPT !.status = "DELETED", !.gone = TRUE]

\* The requests end.
CalmDown ==
  /\ ~calm
  /\ \A h \in PostHandlers : postReq[h] = Idle
  /\ calm' = TRUE
  /\ UNCHANGED <<solo, scene, posts, reports, postCount, recount, postReq, released, bent>>

\* A post is written, as a draft or published at once.  The boards are alike, so
\* that every post may begin in the same one.
Create(h, p, status) ==
  /\ Free(h)
  /\ posts[p].status = "none"
  /\ status \in {"DRAFT", "PUBLISHED"}
  /\ Put(p, [status |-> status, gone |-> FALSE, board |-> AnyBoard])
  /\ IF status = "PUBLISHED" THEN Count(AnyBoard, 1) ELSE UNCHANGED postCount
  /\ UNCHANGED <<solo, scene, calm, reports, recount, postReq, released, bent>>

Exists(p) == posts[p].status # "none" /\ ~posts[p].gone

\* What each operation asks of the row it reads.
Admits(op, p) ==
  /\ Exists(p)
  /\ op = "publish" => posts[p].status \in {"DRAFT", "PUBLISHED"}
  /\ op = "report" => posts[p].status # "DELETED"
  /\ op \in {"uphold", "dismiss"} => Open(p) # {}

\* The members are alike: they come forward in the order of their numbers.
Turn(p, r) ==
  \A s \in Reporters :
    s < r => reports[p][s] # "none" \/ \E g \in PostHandlers : postReq[g].post = p /\ postReq[g].by = s

Begin(h, op, p, r, b) ==
  /\ Free(h)
  /\ Admits(op, p)
  /\ IF op = "report" THEN r \in Reporters /\ Turn(p, r) ELSE r = 0
  /\ op \in scene
  /\ b # posts[p].board => {op, "keep"} \subseteq scene /\ op \in {"keep", "hide", "show"}
  /\ postReq' = [postReq EXCEPT ![h] =
       [Idle EXCEPT !.op = op, !.post = p, !.by = r, !.to = b,
          !.seen = IF op \in {"uphold", "dismiss"} THEN Unseen
                   ELSE [status |-> posts[p].status, board |-> posts[p].board]]]
  /\ UNCHANGED <<solo, scene, calm, posts, reports, postCount, recount, released, bent>>

\* The commits.  q.seen is the row as it was read, which another commit may have
\* changed; posts[q.post] is the row the transaction writes.

\* Mutant of Publish: it no longer asks whether a draft was read.
PublishAnything(h) ==
  LET q == postReq[h]
  IN /\ q.op = "publish"
     /\ Put(q.post, [posts[q.post] EXCEPT !.status = "PUBLISHED"])
     /\ Count(q.seen.board, 1)
     /\ released' = [released EXCEPT ![q.post] = "report" \in scene]
     /\ Finish(h)
     /\ UNCHANGED <<solo, scene, calm, reports, recount, bent>>

\* PostsService.update: a draft is published and counted; of another post only the
\* text changes.
Publish(h) ==
  LET q == postReq[h]
      publishing == q.seen.status = "DRAFT"
  IN /\ q.op = "publish"
     /\ IF publishing
        THEN /\ Put(q.post, [posts[q.post] EXCEPT !.status = "PUBLISHED"])
             /\ Count(q.seen.board, 1)
             /\ released' = [released EXCEPT ![q.post] = "report" \in scene]
        ELSE UNCHANGED <<posts, postCount, released>>
     /\ Finish(h)
     /\ UNCHANGED <<solo, scene, calm, reports, recount, bent>>

\* Mutant of SoftDelete: the deletion of a hidden post is counted too.
SoftDeleteCountsAll(h) ==
  LET q == postReq[h]
  IN /\ q.op = "delete"
     /\ Put(q.post, Gone(posts[q.post]))
     /\ Count(q.seen.board, -1)
     /\ Finish(h)
     /\ UNCHANGED <<solo, scene, calm, reports, recount, released, bent>>

\* PostsService.softDelete, by the owner or by an administrator.
SoftDelete(h) ==
  LET q == postReq[h]
  IN /\ q.op = "delete"
     /\ Put(q.post, Gone(posts[q.post]))
     /\ IF q.seen.status = "PUBLISHED" THEN Count(q.seen.board, -1) ELSE UNCHANGED postCount
     /\ Finish(h)
     /\ UNCHANGED <<solo, scene, calm, reports, recount, released, bent>>

\* PostsService.moderate: pinned, hidden or shown, and moved.  The counters follow
\* the status and board that were read and the status that was written.
Moderate(h) ==
  LET q    == postReq[h]
      next == [posts[q.post] EXCEPT
                 !.status = CASE q.op = "hide" -> "HIDDEN"
                              [] q.op = "show" -> "PUBLISHED"
                              [] OTHER -> @,
                 !.board = IF q.to = q.seen.board THEN @ ELSE q.to]
      was == IF q.seen.status = "PUBLISHED" THEN 1 ELSE 0
      is  == IF next.status = "PUBLISHED" THEN 1 ELSE 0
  IN /\ q.op \in {"keep", "hide", "show"}
     /\ Put(q.post, next)
     /\ postCount' = [b \in BoardIds |->
          postCount[b] + (IF b = q.to THEN is ELSE 0) - (IF b = q.seen.board THEN was ELSE 0)]
     /\ released' = [released EXCEPT ![q.post] = @ \/ (q.op = "show" /\ "report" \in scene)]
     /\ Finish(h)
     /\ UNCHANGED <<solo, scene, calm, reports, recount, bent>>

\* BoardReportsService.report: inside its transaction the report is written and the
\* open reports counted, those of other uncommitted transactions unseen.
CountReports(h) ==
  LET q == postReq[h]
  IN /\ q.op = "report"
     /\ reports[q.post][q.by] = "none"
     /\ postReq' = [postReq EXCEPT ![h].op = "reported", ![h].heard = Cardinality(Open(q.post)) + 1]
     /\ UNCHANGED <<solo, scene, calm, posts, reports, postCount, recount, released, bent>>

\* A second report of the same member is refused by the unique index.
RefuseReport(h) ==
  LET q == postReq[h]
  IN /\ q.op \in {"report", "reported"}
     /\ reports[q.post][q.by] # "none"
     /\ Finish(h)
     /\ UNCHANGED <<solo, scene, calm, posts, reports, postCount, recount, released, bent>>

\* Mutant of CommitReport: one report too many before the post is hidden.
CommitReportLate(h) ==
  LET q == postReq[h]
      hide == q.heard > AutoHideThreshold /\ q.seen.status = "PUBLISHED"
  IN /\ q.op = "reported"
     /\ reports[q.post][q.by] = "none"
     /\ reports' = [reports EXCEPT ![q.post][q.by] = "OPEN"]
     /\ IF hide THEN Put(q.post, [posts[q.post] EXCEPT !.status = "HIDDEN"]) ELSE UNCHANGED posts
     /\ bent' = (bent \/ (solo /\ hide))
     /\ Finish(h)
     /\ UNCHANGED <<solo, scene, calm, postCount, recount, released>>

\* Enough reports hide the post, and leave it in the counter of its board.
CommitReport(h) ==
  LET q == postReq[h]
      hide == q.heard >= AutoHideThreshold /\ q.seen.status = "PUBLISHED"
  IN /\ q.op = "reported"
     /\ reports[q.post][q.by] = "none"
     /\ reports' = [reports EXCEPT ![q.post][q.by] = "OPEN"]
     /\ IF hide THEN Put(q.post, [posts[q.post] EXCEPT !.status = "HIDDEN"]) ELSE UNCHANGED posts
     /\ bent' = (bent \/ (solo /\ hide))
     /\ Finish(h)
     /\ UNCHANGED <<solo, scene, calm, postCount, recount, released>>

\* BoardReportsService.resolve: inside its transaction the open reports of the post
\* are taken, which another verdict has to wait for, and the post is read again.
Judge(h) ==
  LET q   == postReq[h]
      row == posts[q.post]
  IN /\ q.op \in {"uphold", "dismiss"} /\ q.seen = Unseen
     /\ \A g \in PostHandlers : postReq[g].post = q.post => postReq[g].open = {}
     /\ postReq' = [postReq EXCEPT ![h].open = Open(q.post),
          ![h].seen = [status |-> IF row.gone THEN "DELETED" ELSE row.status, board |-> row.board]]
     /\ UNCHANGED <<solo, scene, calm, posts, reports, postCount, recount, released, bent>>

Decided(q) ==
  [r \in Reporters |->
     IF r \notin q.open THEN reports[q.post][r]
     ELSE IF q.op = "uphold" THEN "UPHELD" ELSE "DISMISSED"]

\* Mutant of Resolve: a post that the reports have hidden is not deleted.
ResolveSparesHidden(h) ==
  LET q == postReq[h]
  IN /\ q.op \in {"uphold", "dismiss"} /\ q.seen # Unseen
     /\ reports' = [reports EXCEPT ![q.post] = Decided(q)]
     /\ IF q.op = "uphold" /\ q.seen.status = "PUBLISHED"
        THEN Put(q.post, Gone(posts[q.post])) /\ Count(q.seen.board, -1)
        ELSE UNCHANGED <<posts, postCount>>
     /\ Finish(h)
     /\ UNCHANGED <<solo, scene, calm, recount, released, bent>>

\* They are decided, and the post, unless it was gone, is deleted, or shown if it was
\* hidden.
Resolve(h) ==
  LET q == postReq[h]
  IN /\ q.op \in {"uphold", "dismiss"} /\ q.seen # Unseen
     /\ reports' = [reports EXCEPT ![q.post] = Decided(q)]
     /\ CASE q.op = "uphold" /\ q.seen.status # "DELETED" ->
               /\ Put(q.post, Gone(posts[q.post]))
               /\ IF q.seen.status = "PUBLISHED" THEN Count(q.seen.board, -1) ELSE UNCHANGED postCount
          [] q.op = "dismiss" /\ q.seen.status = "HIDDEN" ->
               /\ Put(q.post, [posts[q.post] EXCEPT !.status = "PUBLISHED"])
               /\ UNCHANGED postCount
          [] OTHER -> UNCHANGED <<posts, postCount>>
     /\ released' = [released EXCEPT ![q.post] =
          @ \/ (q.op = "dismiss" /\ q.seen.status = "HIDDEN" /\ ~(Open(q.post) \subseteq q.open))]
     /\ bent' = (bent \/ (solo /\ q.op = "dismiss" /\ q.seen.status = "HIDDEN"))
     /\ Finish(h)
     /\ UNCHANGED <<solo, scene, calm, recount>>

\* BoardOwnerCleanupHook: a post of the deleted member goes, and whatever its
\* status was it is taken off the counter.
Purge(h) ==
  LET q == postReq[h]
  IN /\ q.op = "purge"
     /\ Put(q.post, Gone(posts[q.post]))
     /\ Count(q.seen.board, -1)
     /\ bent' = (bent \/ (solo /\ q.seen.status # "PUBLISHED"))
     /\ Finish(h)
     /\ UNCHANGED <<solo, scene, calm, reports, recount, released>>

\* Mutant of PatrolCounts: the difference is kept, not the count.
PatrolSubtracts ==
  /\ recount = NoRecount
  /\ ~CountRight
  /\ solo => \A h \in PostHandlers : postReq[h].op = "idle"
  /\ recount' = [b \in BoardIds |-> RealCount(b) - postCount[b]]
  /\ UNCHANGED <<solo, scene, calm, posts, reports, postCount, postReq, released, bent>>

\* BRI-2 of the patrol: the UPDATE counts in its snapshot and writes when it has
\* the rows of the wrong boards; transactions that held them commit in between.
PatrolCounts ==
  /\ recount = NoRecount
  /\ ~CountRight
  /\ solo => \A h \in PostHandlers : postReq[h].op = "idle"
  /\ recount' = [b \in BoardIds |-> IF postCount[b] = RealCount(b) THEN Skip ELSE RealCount(b)]
  /\ UNCHANGED <<solo, scene, calm, posts, reports, postCount, postReq, released, bent>>

\* Mutant of PatrolWrites: the difference is added, as if the counter were current.
PatrolAdds ==
  /\ recount # NoRecount
  /\ postCount' = [b \in BoardIds |->
       IF recount[b] = Skip THEN postCount[b] ELSE postCount[b] + recount[b]]
  /\ recount' = NoRecount
  /\ bent' = FALSE
  /\ UNCHANGED <<solo, scene, calm, posts, reports, postReq, released>>

PatrolWrites ==
  /\ recount # NoRecount
  /\ postCount' = [b \in BoardIds |-> IF recount[b] = Skip THEN postCount[b] ELSE recount[b]]
  /\ recount' = NoRecount
  /\ bent' = FALSE
  /\ UNCHANGED <<solo, scene, calm, posts, reports, postReq, released>>

Patrol == PatrolCounts \/ PatrolWrites

Commit(h) ==
  \/ Publish(h)
  \/ SoftDelete(h)
  \/ Moderate(h)
  \/ CountReports(h)
  \/ RefuseReport(h)
  \/ CommitReport(h)
  \/ Judge(h)
  \/ Resolve(h)
  \/ Purge(h)

Ops == {"publish", "delete", "keep", "hide", "show", "report", "uphold", "dismiss", "purge"}

Next ==
  \/ CalmDown
  \/ Patrol
  \/ \E h \in PostHandlers :
       \/ Commit(h)
       \/ \E p \in PostIds, s \in Statuses : Create(h, p, s)
       \/ \E op \in Ops, p \in PostIds, r \in Reporters \cup {0}, b \in BoardIds : Begin(h, op, p, r, b)

Fairness == WF_postVars(Patrol)

Spec == Init /\ [][Next]_postVars /\ Fairness

TypeOK ==
  /\ solo \in BOOLEAN /\ scene \in Scenes /\ calm \in BOOLEAN /\ bent \in BOOLEAN
  /\ posts \in [PostIds -> Row]
  /\ reports \in [PostIds -> [Reporters -> {"none", "OPEN", "UPHELD", "DISMISSED"}]]
  /\ postCount \in [BoardIds -> Int]
  /\ recount \in [BoardIds -> Nat \cup {Skip}]
  /\ released \in [PostIds -> BOOLEAN]
  /\ postReq \in [PostHandlers ->
       [op : Ops \cup {"idle", "reported"}, post : PostIds, seen : Seen,
        by : Reporters \cup {0}, to : BoardIds, heard : Nat, open : SUBSET Reporters]]

\* Requests one at a time: the counter of a board is the number of its published
\* posts, as long as no report hid a post and no post was purged that was not
\* published.
CountIsExact == solo /\ ~bent => CountRight

\* Requests one at a time: a row is marked deleted if and only if its status says so.
GoneIsDeleted == solo => \A p \in PostIds : posts[p].gone <=> posts[p].status = "DELETED"

\* However reports overlap, a post that nobody showed or published over them (a
\* moderator, its owner, or a verdict that had read only some of them) does not stay
\* public with more open reports than the threshold and the requests in flight allow.
ReportsAreHeard ==
  \A p \in PostIds :
    posts[p].status = "PUBLISHED" /\ ~posts[p].gone /\ ~released[p] =>
      Cardinality(Open(p)) < AutoHideThreshold + (IF solo THEN 0 ELSE Cardinality(PostHandlers) - 1)

\* A post whose reports were upheld is gone, whatever happened to it on the way.
UpheldIsGone ==
  \A p \in PostIds : (\E r \in Reporters : reports[p][r] = "UPHELD") => posts[p].gone

\* What the reports and the moderators have decided of a post stands.
Moderation == GoneIsDeleted /\ ReportsAreHeard /\ UpheldIsGone

\* Only a moderator takes a hidden post out of hiding, or an owner who read it as a
\* draft before it was hidden; an owner who edits a published post does not.
HiddenStaysHidden ==
  [][\A p \in PostIds :
       posts[p].status = "HIDDEN" /\ posts'[p].status = "PUBLISHED" =>
         \E h \in PostHandlers :
           /\ postReq[h].post = p /\ postReq'[h] = Idle
           /\ \/ postReq[h].op \in {"show", "dismiss"}
              \/ postReq[h].op = "publish" /\ postReq[h].seen.status = "DRAFT"]_postVars

\* When no more requests come the patrol gets every counter right, whatever was
\* miscounted before, by requests or by the patrol itself.
CountsSettle == <>calm => <>[]CountRight
=============================================================================
