------------------------------- MODULE Boards -------------------------------
(***************************************************************************)
(* Who sees what on a board: the guard of the route, the policy of the     *)
(* board (visibility, membership, grants), the policy of a secret post,    *)
(* and the queries of the lists, the search and the notifications, which   *)
(* have to agree with them (BINV-3).  One board, and one post in it.       *)
(***************************************************************************)
EXTENDS Evaluator

CONSTANTS
  Users,
  Author,        \* posts.owner_id
  Capabilities   \* the CAPABILITY_KEYS that an access depends on

VARIABLES
  focus,         \* environment: the user whose rights change
  everywhere,    \* environment: users who hold board.moderate.all
  writePolicy,   \* settings.write_policy, which no route changes
  visibility, boardStatus,   \* boards
  role,          \* board_members.board_role
  boardGrants,   \* resource_grants of the board
  off,           \* board_capabilities that are not enabled
  postStatus,    \* posts.status
  secret, secretReaders,     \* posts.is_secret and post_secret_readers
  coAuthors,     \* post_authors
  blockers,      \* users who block the author
  departed       \* users.deleted_at is set

settingVars == <<focus, everywhere, writePolicy>>
boardVars   == <<visibility, boardStatus, role, boardGrants, off>>
postVars    == <<postStatus, secret, secretReaders, coAuthors>>
accessVars  == <<settingVars, boardVars, postVars, blockers, departed>>

BoardRoles     == {"OWNER", "MODERATOR", "MEMBER", "READER"}
GrantingRoles  == {"OWNER", "MODERATOR"}   \* GRANT_ISSUING_BOARD_ROLES
BoardGrant     == [subject : Users, perm : {"read", "moderate"}, effect : {"ALLOW", "DENY"},
                   life : {"ever", "term", "expired"}]
PostStatuses   == {"none", "DRAFT", "PUBLISHED", "HIDDEN", "DELETED"}

-----------------------------------------------------------------------------
(* The guard of the route                                                  *)

\* The rights of a member, and of one who moderates everywhere.  No role holds
\* board.moderate, which is given on one board at a time.
Subject(u) ==
  [id |-> u, active |-> u \notin departed,
   scope |-> [p \in {"read", "write", "comment", "moderate", "moderate.all", "delete"} |->
                CASE p \in {"read", "write", "comment"} -> "global"
                  [] p = "delete" -> "owned"
                  [] p = "moderate.all" /\ u \in everywhere -> "global"
                  [] OTHER -> "none"]]

\* A board belongs to nobody, and does not go with the one who made it.
Board == [kind |-> "board", owner |-> "board", status |-> boardStatus,
          deleted |-> FALSE, ownerDeleted |-> FALSE]

Post == [kind |-> "post", owner |-> Author, status |-> postStatus,
         deleted |-> postStatus \in {"none", "DELETED"}, ownerDeleted |-> Author \in departed]

GuardOfBoard(u, perm) == Can(Subject(u), perm, Board, boardGrants)

\* Grants are looked up under the type of the guarded resource, and no code writes
\* one for a post.
GuardOfPost(u, perm) == Can(Subject(u), perm, Post, {})

-----------------------------------------------------------------------------
(* The policies                                                            *)

Holding(u, perm, effect) ==
  \E g \in boardGrants : g.subject = u /\ g.perm = perm /\ g.effect = effect /\ Valid(g)

IsMember(u) == role[u] # "none"

\* canAccessBoard; "powers" says whether board.moderate.all counts.
CanAccessBoard(u, powers, write) ==
  /\ boardStatus = "ACTIVE" \/ (boardStatus = "ARCHIVED" /\ ~write)
  /\ ~Holding(u, "read", "DENY")
  /\ \/ powers /\ u \in everywhere
     \/ visibility = "PUBLIC"
     \/ Holding(u, "read", "ALLOW")
     \/ IsMember(u)

CanReadPost(u, powers) ==
  \/ ~secret
  \/ u = Author
  \/ powers /\ u \in everywhere
  \/ u \in secretReaders
  \/ Holding(u, "moderate", "ALLOW")

CanEditPost(u) == u = Author \/ u \in everywhere \/ u \in coAuthors

-----------------------------------------------------------------------------
(* The queries                                                             *)

AnyGrant(u, effect) == \E perm \in {"read", "moderate"} : Holding(u, perm, effect)

\* Mutant of BoardListed: an operator's list does not leave out what is denied to him.
BoardListedToOperators(u) ==
  \/ u \in everywhere
  \/ visibility = "PUBLIC" /\ ~AnyGrant(u, "DENY")
  \/ ~AnyGrant(u, "DENY") /\ (AnyGrant(u, "ALLOW") \/ IsMember(u))

\* listVisible of boards with visibleBoardScope: grants of any permission.
BoardListed(u) ==
  /\ boardStatus \in {"ACTIVE", "ARCHIVED"}
  /\ u \in everywhere \/ visibility = "PUBLIC" \/ AnyGrant(u, "ALLOW") \/ IsMember(u)
  /\ ~AnyGrant(u, "DENY")

BoardOpens(u) == GuardOfBoard(u, "read") /\ CanAccessBoard(u, TRUE, FALSE)

\* Mutant of SecretFilter: moderation of the board does not count.
SecretFilterOfReaders(u) ==
  u \in everywhere \/ ~secret \/ u = Author \/ u \in secretReaders

\* secretScope as the lists and the search use it.
SecretFilter(u) ==
  \/ u \in everywhere
  \/ ~secret \/ u = Author \/ u \in secretReaders
  \/ Holding(u, "moderate", "ALLOW")

RowShown(u) ==
  /\ postStatus = "PUBLISHED" \/ (postStatus = "DRAFT" /\ u = Author)
  /\ Author \notin departed
  /\ SecretFilter(u)

Blocks(u) == u \in blockers

\* PostsService.list leaves out the blocked only where the module is enabled.
PostListed(u) ==
  /\ CanAccessBoard(u, TRUE, FALSE)
  /\ RowShown(u)
  /\ "user-block" \in off \/ ~Blocks(u)

\* BoardSearchService.search leaves them out always.
PostFound(u) == CanAccessBoard(u, TRUE, FALSE) /\ RowShown(u) /\ ~Blocks(u)

\* GET /posts/:id.
PostOpens(u) ==
  /\ GuardOfPost(u, "read")
  /\ postStatus = "PUBLISHED" \/ (postStatus = "DRAFT" /\ u = Author)
  /\ CanAccessBoard(u, TRUE, FALSE)
  /\ CanReadPost(u, TRUE)

\* Mutant of Notified: the policy of secret posts is not asked.
NotifiedOfSecrets(u) ==
  postStatus \notin {"none", "DELETED"} /\ u \notin departed /\ CanAccessBoard(u, FALSE, FALSE)

\* recipientsFor judges every recipient when the event is consumed, without powers.
Notified(u) ==
  /\ postStatus \notin {"none", "DELETED"}
  /\ u \notin departed
  /\ CanAccessBoard(u, FALSE, FALSE)
  /\ CanReadPost(u, FALSE)

\* The gates of the other routes of a post: the guard, then what the service asks.
Admitted(op, u) ==
  CASE op = "comment" ->
         /\ GuardOfPost(u, "comment")
         /\ postStatus = "PUBLISHED"
         /\ CanAccessBoard(u, TRUE, TRUE)
         /\ CanReadPost(u, TRUE)
    [] op = "edit" ->
         u \notin departed /\ postStatus \in {"DRAFT", "PUBLISHED"} /\ CanEditPost(u)
    [] op = "react" -> GuardOfPost(u, "read") /\ "reaction" \notin off
    [] op = "report" -> GuardOfPost(u, "read") /\ "report" \notin off /\ u # Author
    [] op = "moderate" -> GuardOfPost(u, "moderate")

-----------------------------------------------------------------------------
Init ==
  /\ focus \in Users
  /\ everywhere \in SUBSET {focus}
  /\ writePolicy \in {"MEMBER", "MODERATOR"}
  /\ visibility \in {"PUBLIC", "RESTRICTED", "PRIVATE"}
  /\ boardStatus = "ACTIVE"
  /\ role = [u \in Users |-> "none"]
  /\ boardGrants = {}
  /\ off \in SUBSET Capabilities
  /\ postStatus = "none"
  /\ secret = FALSE
  /\ secretReaders = {}
  /\ coAuthors = {}
  /\ blockers = {}
  /\ departed = {}

\* BoardsService.update, by one who holds board.manage.
UpdateBoard(v, s) ==
  /\ v \in {"PUBLIC", "RESTRICTED", "PRIVATE"}
  /\ s \in {"ACTIVE", "ARCHIVED"}
  /\ visibility' = v
  /\ boardStatus' = s
  /\ UNCHANGED <<settingVars, role, boardGrants, off, postVars, blockers, departed>>

Row(u, perm) == {g \in boardGrants : g.subject = u /\ g.perm = perm}

\* A role that moderates comes with the grant, which stays when the role changes or
\* goes; a row that is there is kept, and a closed board gives none.
AddMember(u, r) ==
  /\ u = focus /\ u \notin departed
  /\ r \in BoardRoles
  /\ role' = [role EXCEPT ![u] = r]
  /\ boardGrants' =
       IF r \in GrantingRoles /\ Row(u, "moderate") = {}
       THEN boardGrants \cup {[subject |-> u, perm |-> "moderate", effect |-> "ALLOW", life |-> "ever"]}
       ELSE boardGrants
  /\ UNCHANGED <<settingVars, visibility, boardStatus, off, postVars, blockers, departed>>

\* Mutant of RemoveMember: a user without a row is not there to be looked up.
RemoveMemberOutright(u) ==
  /\ u = focus
  /\ role' = [v \in Users \ {u} |-> role[v]]
  /\ UNCHANGED <<settingVars, visibility, boardStatus, boardGrants, off, postVars, blockers, departed>>

RemoveMember(u) ==
  /\ u = focus
  /\ role' = [role EXCEPT ![u] = "none"]
  /\ UNCHANGED <<settingVars, visibility, boardStatus, boardGrants, off, postVars, blockers, departed>>

SetCapability(key, enabled) ==
  /\ off' = IF enabled THEN off \ {key} ELSE off \cup {key}
  /\ UNCHANGED <<settingVars, visibility, boardStatus, role, boardGrants, postVars, blockers, departed>>

\* An operator's work in the database: board.read is allowed or denied to a user.
OperatorGrants(u, effect, life) ==
  /\ u = focus
  /\ Row(u, "read") = {}
  /\ boardGrants' = boardGrants \cup
       {[subject |-> u, perm |-> "read", effect |-> effect, life |-> life]}
  /\ UNCHANGED <<settingVars, visibility, boardStatus, role, off, postVars, blockers, departed>>

Expire(g) ==
  /\ g.life = "term"
  /\ boardGrants' = (boardGrants \ {g}) \cup {[g EXCEPT !.life = "expired"]}
  /\ UNCHANGED <<settingVars, visibility, boardStatus, role, off, postVars, blockers, departed>>

PurgeExpired(g) ==
  /\ g.life = "expired"
  /\ boardGrants' = boardGrants \ {g}
  /\ UNCHANGED <<settingVars, visibility, boardStatus, role, off, postVars, blockers, departed>>

\* What PostsService.create asks of its author.
MayPost(isSecret) ==
  /\ GuardOfBoard(Author, "write")
  /\ CanAccessBoard(Author, TRUE, TRUE)
  /\ writePolicy = "MODERATOR" => Author \in everywhere \/ Holding(Author, "moderate", "ALLOW")
  /\ isSecret => "secret-post" \notin off

CreatePost(status, isSecret, readers) ==
  /\ postStatus = "none"
  /\ MayPost(isSecret)
  /\ status \in {"DRAFT", "PUBLISHED"}
  /\ ~isSecret => readers = {}
  /\ postStatus' = status
  /\ secret' = isSecret
  /\ secretReaders' = readers
  /\ UNCHANGED <<settingVars, boardVars, coAuthors, blockers, departed>>

PublishPost(u) ==
  /\ Admitted("edit", u)
  /\ postStatus = "DRAFT"
  /\ postStatus' = "PUBLISHED"
  /\ UNCHANGED <<settingVars, boardVars, secret, secretReaders, coAuthors, blockers, departed>>

\* setCoAuthors: the author alone, whatever the status and the board.
SetCoAuthors(us) ==
  /\ Author \notin departed
  /\ postStatus \notin {"none", "DELETED"}
  /\ us \subseteq {focus} \ {Author}
  /\ coAuthors' = us
  /\ UNCHANGED <<settingVars, boardVars, postStatus, secret, secretReaders, blockers, departed>>

\* Hidden, shown or deleted: Posts has how.
Settle(status) ==
  /\ postStatus \notin {"none", "DELETED"}
  /\ status \in {"PUBLISHED", "HIDDEN", "DELETED"}
  /\ postStatus' = status
  /\ UNCHANGED <<settingVars, boardVars, secret, secretReaders, coAuthors, blockers, departed>>

ToggleBlock(u) ==
  /\ u \in {focus} \ {Author} /\ u \notin departed
  /\ blockers' = IF u \in blockers THEN blockers \ {u} ELSE blockers \cup {u}
  /\ UNCHANGED <<settingVars, boardVars, postVars, departed>>

\* MembersService.softDelete: the grants of the user go, his membership stays.
DeleteUser(u) ==
  /\ u \notin departed
  /\ departed' = departed \cup {u}
  /\ boardGrants' = {g \in boardGrants : g.subject # u}
  /\ UNCHANGED <<settingVars, visibility, boardStatus, role, off, postVars, blockers>>

Next ==
  \/ \E v, s \in {"PUBLIC", "RESTRICTED", "PRIVATE", "ACTIVE", "ARCHIVED"} : UpdateBoard(v, s)
  \/ \E key \in Capabilities, enabled \in BOOLEAN : SetCapability(key, enabled)
  \/ \E u \in Users :
       \/ \E r \in BoardRoles : AddMember(u, r)
       \/ RemoveMember(u)
       \/ \E effect \in {"ALLOW", "DENY"}, life \in {"ever", "term"} : OperatorGrants(u, effect, life)
       \/ PublishPost(u)
       \/ ToggleBlock(u)
       \/ DeleteUser(u)
  \/ \E g \in boardGrants : Expire(g) \/ PurgeExpired(g)
  \/ \E s \in PostStatuses, isSecret \in BOOLEAN, readers \in SUBSET {focus} :
       CreatePost(s, isSecret, readers)
  \/ \E us \in SUBSET Users : SetCoAuthors(us)
  \/ \E s \in PostStatuses : Settle(s)

Spec == Init /\ [][Next]_accessVars

TypeOK ==
  /\ focus \in Users /\ everywhere \subseteq Users /\ writePolicy \in {"MEMBER", "MODERATOR"}
  /\ visibility \in {"PUBLIC", "RESTRICTED", "PRIVATE"} /\ boardStatus \in {"ACTIVE", "ARCHIVED"}
  /\ role \in [Users -> BoardRoles \cup {"none"}]
  /\ boardGrants \subseteq BoardGrant
  /\ off \subseteq Capabilities
  /\ postStatus \in PostStatuses /\ secret \in BOOLEAN
  /\ secretReaders \subseteq Users /\ coAuthors \subseteq Users
  /\ blockers \subseteq Users /\ departed \subseteq Users

Present == Users \ departed

\* The list of posts shows a user just what he can open (BINV-3), but for what he
\* has blocked himself, where the board honours blocks.
PostListIsExact ==
  \A u \in Present :
    PostListed(u) <=> PostOpens(u) /\ ("user-block" \in off \/ ~Blocks(u))

\* The search brings to light nothing that the list hides (search.service 27-30).
SearchWithinList == \A u \in Present : PostFound(u) => PostListed(u)

\* A notification of a public post leads to a post that opens: it tells nobody of
\* what he may not see (notification.service 84-95).
NotifiedCanOpen ==
  \A u \in Present : Notified(u) /\ postStatus = "PUBLISHED" /\ Author \notin departed => PostOpens(u)

\* Every board that opens is in the list of boards.
OpenBoardIsListed == \A u \in Present : BoardOpens(u) => BoardListed(u)

\* All the ways to a board and its posts agree about who sees them.
PathsAgree == PostListIsExact /\ SearchWithinList /\ NotifiedCanOpen /\ OpenBoardIsListed

\* A user to whom the board is denied finds it and its posts on no path of reading,
\* whatever else he holds (INV-4).
DenyWins ==
  \A u \in Present :
    Holding(u, "read", "DENY") =>
      ~(BoardListed(u) \/ BoardOpens(u) \/ PostListed(u) \/ PostFound(u) \/ PostOpens(u) \/ Notified(u))
=============================================================================
