------------------------------ MODULE MCAccess ------------------------------
(***************************************************************************)
(* Who may do what with one resource: the grants on a file or a domain, or *)
(* the policies of a board, side by side.  "part" says which of the two    *)
(* moves; they share the Evaluator and no variable.                        *)
(***************************************************************************)
EXTENDS ResourceGrants, TLC

CONSTANTS
  Readers,        \* the users of the board
  Author,
  Capabilities

VARIABLES
  part,
  focus, everywhere, writePolicy, visibility, boardStatus, role, boardGrants, off,
  postStatus, secret, secretReaders, coAuthors, blockers, departed

B == INSTANCE Boards WITH Users <- Readers

boardOnly == <<focus, everywhere, writePolicy, visibility, boardStatus, role, boardGrants, off,
               postStatus, secret, secretReaders, coAuthors, blockers, departed>>
accessVars == <<part, vars, boardOnly>>

\* The part that rests does so in one of its initial states.
AccessInit ==
  /\ part \in {"grants", "board"}
  /\ Init /\ B!Init
  /\ part = "board" =>
       alone /\ kind = "file" /\ ~suspended /\ owner = CHOOSE u \in Admins : TRUE
  /\ part = "grants" =>
       /\ focus = Author /\ everywhere = {} /\ off = {}
       /\ writePolicy = "MEMBER" /\ visibility = "PUBLIC"

\* Where requests on a domain overlap, delegations have no end: there the end makes no
\* difference but that the row may go.
SharesBounded ==
  \A h \in Handlers : kind = "domain" /\ ~alone /\ pc[h] = "share" => req[h].life = "ever"

AccessNext ==
  \/ /\ part = "grants"
     /\ Next
     /\ SharesBounded'
     /\ UNCHANGED <<part, boardOnly>>
  \/ /\ part = "board"
     /\ B!Next
     /\ UNCHANGED <<part, vars>>

AccessSpec == AccessInit /\ [][AccessNext]_accessVars

Symmetric == Permutations(Users \ Admins) \union Permutations(Handlers)

\* The properties of the board, as they are stated in Boards.
PathsAgree == B!PathsAgree
DenyWins == B!DenyWins

\* Every variable has its type.
AccessTypeOK == TypeOK /\ B!TypeOK
=============================================================================
