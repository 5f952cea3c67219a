------------------------------ MODULE Uploads -------------------------------
(***************************************************************************)
(* Uploads: a session is issued with a signed URL, the client puts the     *)
(* object into the storage past the API, a completion turns it into a row  *)
(* of files, and an hourly job of every instance collects what expired.    *)
(* A completion and a collection read the session once and write it later. *)
(* Any session can be completed through either of two endpoints: that of   *)
(* the files, and that of the board, which re-encodes images.              *)
(***************************************************************************)
EXTENDS Integers, FiniteSets

CONSTANTS
  UploadIds,
  Images,         \* the uploads whose type is that of an image
  Contents,       \* what the storage takes: "raw", and "big" where it lets one put more than signed
  Completers,     \* completions at the same time
  Collectors,     \* instances that run the job
  MaxUpsets       \* bound: storage calls that fail, crashes

VARIABLES
  oneByOne,       \* environment: no two completions of an upload overlap
  session,        \* file_uploads.state
  clock,          \* of a session: "open", "late" when it expired, "shut" when the URL did
  object,         \* in the storage: "none", "raw", "big", "clean" when re-encoded
  fileRows,       \* files: how many rows have the storage_key
  boardFile,      \* history: one of them came through the endpoint of the board
  again,          \* history: the client put the object after a completion had begun
  crossed,        \* history: a completion and a collection of it overlapped
  call,           \* the completions
  sweep,          \* the collections, and what they have still to do
  upsets

uploadVars == <<oneByOne, session, clock, object, fileRows, boardFile, again, crossed, call, sweep,
                upsets>>
fileTable  == <<fileRows, boardFile>>
uploadRows == <<session, object, fileTable>>
history    == <<again, crossed>>

States  == {"none", "PENDING", "COMPLETED", "EXPIRED", "ABORTED"}
Endpoints == {"files", "board"}
NoCall  == [at |-> "idle", upload |-> CHOOSE u \in UploadIds : TRUE, via |-> "files"]
NoSweep == [at |-> "off", list |-> {}]
Steps   == {"idle", "expire", "head", "discard", "abort", "mark", "fetch", "store", "row"}

Init ==
  /\ oneByOne \in BOOLEAN
  /\ session = [u \in UploadIds |-> "none"]
  /\ clock = [u \in UploadIds |-> "open"]
  /\ object = [u \in UploadIds |-> "none"]
  /\ fileRows = [u \in UploadIds |-> 0]
  /\ boardFile = [u \in UploadIds |-> FALSE]
  /\ again = [u \in UploadIds |-> FALSE]
  /\ crossed = [u \in UploadIds |-> FALSE]
  /\ call = [c \in Completers |-> NoCall]
  /\ sweep = [k \in Collectors |-> NoSweep]
  /\ upsets = 0

Issue(u) ==
  /\ session[u] = "none"
  /\ session' = [session EXCEPT ![u] = "PENDING"]
  /\ UNCHANGED <<oneByOne, clock, object, fileTable, history, call, sweep, upsets>>

\* The URL is signed after the session was dated, and outlives it a little.
Tick(u) ==
  /\ session[u] # "none"
  /\ clock[u] # "shut"
  /\ clock' = [clock EXCEPT ![u] = IF @ = "open" THEN "late" ELSE "shut"]
  /\ UNCHANGED <<oneByOne, uploadRows, history, call, sweep, upsets>>

Completing(u) == \E c \in Completers : call[c].at # "idle" /\ call[c].upload = u
Collecting(u) == \E k \in Collectors : u \in sweep[k].list

\* The client's PUT, which may come twice, and late.
Put(u, content) ==
  /\ session[u] # "none"
  /\ clock[u] # "shut"
  /\ object' = [object EXCEPT ![u] = content]
  /\ again' = [again EXCEPT ![u] =
       @ \/ session[u] = "COMPLETED" \/ fileRows[u] > 0 \/ Completing(u)]
  /\ UNCHANGED <<oneByOne, session, clock, fileTable, crossed, call, sweep, upsets>>

-----------------------------------------------------------------------------
(* UploadSessionService.complete, and what its two callers do after it     *)

Go(c, step) == call' = [call EXCEPT ![c].at = step]
End(c)      == call' = [call EXCEPT ![c] = NoCall]

\* Mutant of Complete: the state of the session is not looked at.
CompleteAnyState(c, u, via) ==
  /\ call[c].at = "idle"
  /\ session[u] # "none"
  /\ oneByOne => \A d \in Completers : call[d].at = "idle" \/ call[d].upload # u
  /\ call' = [call EXCEPT ![c] =
       [at |-> IF clock[u] = "open" THEN "head" ELSE "expire", upload |-> u, via |-> via]]
  /\ crossed' = [crossed EXCEPT ![u] = @ \/ Collecting(u)]
  /\ UNCHANGED <<oneByOne, uploadRows, clock, again, sweep, upsets>>

\* The session is read: only a pending one goes on.
Complete(c, u, via) ==
  /\ call[c].at = "idle"
  /\ session[u] = "PENDING"
  /\ oneByOne => \A d \in Completers : call[d].at = "idle" \/ call[d].upload # u
  /\ call' = [call EXCEPT ![c] =
       [at |-> IF clock[u] = "open" THEN "head" ELSE "expire", upload |-> u, via |-> via]]
  /\ crossed' = [crossed EXCEPT ![u] = @ \/ Collecting(u)]
  /\ UNCHANGED <<oneByOne, uploadRows, clock, again, sweep, upsets>>

SetState(c, step, state) ==
  /\ call[c].at = step
  /\ session' = [session EXCEPT ![call[c].upload] = state]
  /\ UNCHANGED <<oneByOne, clock, object, fileTable, history, sweep, upsets>>

Expire(c) == SetState(c, "expire", "EXPIRED") /\ End(c)

Head(c) ==
  /\ call[c].at = "head"
  /\ CASE object[call[c].upload] = "none" -> End(c)
       [] object[call[c].upload] = "big"  -> Go(c, "discard")
       [] OTHER                           -> Go(c, "mark")
  /\ UNCHANGED <<oneByOne, uploadRows, clock, history, sweep, upsets>>

\* The object that is too large goes, whatever it is by now.
Discard(c) ==
  /\ call[c].at = "discard"
  /\ object' = [object EXCEPT ![call[c].upload] = "none"]
  /\ Go(c, "abort")
  /\ UNCHANGED <<oneByOne, session, clock, fileTable, history, sweep, upsets>>

Abort(c) == SetState(c, "abort", "ABORTED") /\ End(c)

\* Mutant of Mark: an image goes into the table as it came.
MarkUnclean(c) == SetState(c, "mark", "COMPLETED") /\ Go(c, "row")

\* The endpoint of the board re-encodes images; that of the files takes them as they are.
Reencodes(c) == call[c].via = "board" /\ call[c].upload \in Images

Mark(c) ==
  /\ SetState(c, "mark", "COMPLETED")
  /\ Go(c, IF Reencodes(c) THEN "fetch" ELSE "row")

\* An image that cannot be read or decoded is refused, after the session is done.
Fetch(c) ==
  /\ call[c].at = "fetch"
  /\ \/ object[call[c].upload] # "none" /\ Go(c, "store")
     \/ End(c)
  /\ UNCHANGED <<oneByOne, uploadRows, clock, history, sweep, upsets>>

Store(c) ==
  /\ call[c].at = "store"
  /\ object' = [object EXCEPT ![call[c].upload] = "clean"]
  /\ Go(c, "row")
  /\ UNCHANGED <<oneByOne, session, clock, fileTable, history, sweep, upsets>>

InsertFile(c) ==
  /\ call[c].at = "row"
  /\ fileRows' = [fileRows EXCEPT ![call[c].upload] = @ + 1]
  /\ boardFile' = [boardFile EXCEPT ![call[c].upload] = @ \/ call[c].via = "board"]
  /\ End(c)
  /\ UNCHANGED <<oneByOne, session, clock, object, history, sweep, upsets>>

\* A call to the storage or the database fails, or the process dies; headObject
\* takes every failure for the absence of the object.
Upset(c) ==
  /\ call[c].at # "idle"
  /\ upsets < MaxUpsets
  /\ upsets' = upsets + 1
  /\ End(c)
  /\ UNCHANGED <<oneByOne, uploadRows, clock, history, sweep>>

-----------------------------------------------------------------------------
(* collectGarbage                                                          *)

\* Mutants of Overdue: what expired is overdue, used or not; only what has an object.
OverdueOrUsed == {u \in UploadIds : session[u] # "none" /\ clock[u] # "open"}

OverdueWithObject ==
  {u \in UploadIds : session[u] = "PENDING" /\ clock[u] # "open" /\ object[u] # "none"}

Overdue == {u \in UploadIds : session[u] = "PENDING" /\ clock[u] # "open"}

Collect(k) ==
  /\ sweep[k].at = "off"
  /\ Overdue # {}
  /\ sweep' = [sweep EXCEPT ![k] = [at |-> "delete", list |-> Overdue]]
  /\ crossed' = [u \in UploadIds |-> crossed[u] \/ (u \in Overdue /\ Completing(u))]
  /\ UNCHANGED <<oneByOne, uploadRows, clock, again, call, upsets>>

\* Whose turn it is in the list.
Current(k) == CHOOSE u \in sweep[k].list : TRUE

DeleteObject(k) ==
  /\ sweep[k].at = "delete" /\ sweep[k].list # {}
  /\ object' = [object EXCEPT ![Current(k)] = "none"]
  /\ sweep' = [sweep EXCEPT ![k].at = "expire"]
  /\ UNCHANGED <<oneByOne, session, clock, fileTable, history, call, upsets>>

\* The session waits for the next hour.
DeleteFails(k) ==
  /\ sweep[k].at = "delete" /\ sweep[k].list # {}
  /\ upsets < MaxUpsets
  /\ upsets' = upsets + 1
  /\ sweep' = [sweep EXCEPT ![k].list = @ \ {Current(k)}]
  /\ UNCHANGED <<oneByOne, uploadRows, clock, history, call>>

ExpireSession(k) ==
  /\ sweep[k].at = "expire"
  /\ session' = [session EXCEPT ![Current(k)] = "EXPIRED"]
  /\ sweep' = [sweep EXCEPT ![k].at = "delete", ![k].list = @ \ {Current(k)}]
  /\ UNCHANGED <<oneByOne, clock, object, fileTable, history, call, upsets>>

Collected(k) ==
  /\ sweep[k].at = "delete" /\ sweep[k].list = {}
  /\ sweep' = [sweep EXCEPT ![k] = NoSweep]
  /\ UNCHANGED <<oneByOne, uploadRows, clock, history, call, upsets>>

StopCollecting(k) ==
  /\ sweep[k].at # "off"
  /\ upsets < MaxUpsets
  /\ upsets' = upsets + 1
  /\ sweep' = [sweep EXCEPT ![k] = NoSweep]
  /\ UNCHANGED <<oneByOne, uploadRows, clock, history, call>>

-----------------------------------------------------------------------------
Completion(c) ==
  Expire(c) \/ Head(c) \/ Discard(c) \/ Abort(c) \/ Mark(c) \/ Fetch(c) \/ Store(c) \/ InsertFile(c)

Collection(k) == Collect(k) \/ DeleteObject(k) \/ ExpireSession(k) \/ Collected(k)

Next ==
  \/ \E u \in UploadIds : Issue(u) \/ Tick(u) \/ \E content \in Contents : Put(u, content)
  \/ \E c \in Completers :
       \/ \E u \in UploadIds, via \in Endpoints : Complete(c, u, via)
       \/ Completion(c)
       \/ Upset(c)
  \/ \E k \in Collectors : Collection(k) \/ DeleteFails(k) \/ StopCollecting(k)

\* The process runs what it began, and the job comes every hour (@Cron).
Fairness ==
  /\ \A c \in Completers : WF_uploadVars(Completion(c))
  /\ \A k \in Collectors : WF_uploadVars(Collection(k))

Spec == Init /\ [][Next]_uploadVars /\ Fairness

TypeOK ==
  /\ oneByOne \in BOOLEAN
  /\ session \in [UploadIds -> States]
  /\ clock \in [UploadIds -> {"open", "late", "shut"}]
  /\ object \in [UploadIds -> {"none", "raw", "big", "clean"}]
  /\ fileRows \in [UploadIds -> Nat] /\ boardFile \in [UploadIds -> BOOLEAN]
  /\ again \in [UploadIds -> BOOLEAN] /\ crossed \in [UploadIds -> BOOLEAN]
  /\ call \in [Completers -> [at : Steps, upload : UploadIds, via : Endpoints]]
  /\ sweep \in [Collectors -> [at : {"off", "delete", "expire"}, list : SUBSET UploadIds]]
  /\ upsets \in 0..MaxUpsets

\* Completions of an upload that do not overlap make one file of it, whatever fails
\* and whatever is collected meanwhile (upload-session.service 75).
OneFilePerUpload == oneByOne => \A u \in UploadIds : fileRows[u] <= 1

\* An image that the endpoint of the board made a file is there as it was re-encoded
\* (board-attachment 83), however often and through whatever endpoint its completion was
\* tried besides, unless the client put it once more; or it is gone.  Of an image that
\* only the endpoint of the files completed nothing is said: it can be attached as it came.
ImagesAreClean ==
  \A u \in Images : boardFile[u] /\ ~again[u] => object[u] \in {"clean", "none"}

\* A file has its object in the storage: collections and refusals take none that is
\* in use, but where a completion and a collection read the session at the same time
\* (upload-session.service 124-130).
FilesHaveObjects ==
  oneByOne => \A u \in UploadIds : fileRows[u] > 0 /\ ~crossed[u] => object[u] # "none"

\* What uploads keep, as one.
UploadsHold == TypeOK /\ OneFilePerUpload /\ ImagesAreClean /\ FilesHaveObjects

\* No session stays pending past its end.
SessionsEnd ==
  \A u \in UploadIds : session[u] = "PENDING" /\ clock[u] # "open" ~> session[u] # "PENDING"

\* What the comment on the job says (upload-session.service 124): the object of a session
\* that expired without being completed is deleted, here one that can be put no more and
\* that neither a completion nor a collection is at.
Left(u) ==
  /\ clock[u] = "shut" /\ session[u] = "PENDING" /\ object[u] # "none"
  /\ ~Completing(u) /\ ~Collecting(u)

OrphansGo ==
  \A u \in UploadIds : Left(u) ~> object[u] = "none" \/ session[u] = "COMPLETED"
=============================================================================
