---------------------------- MODULE EmailChange ----------------------------
(***************************************************************************)
(* The change of a member's address, by which he logs in: asked for with a *)
(* step-up, confirmed with the token that was mailed to the new address,   *)
(* or cancelled; and the anonymization of deleted members.  Signing up,    *)
(* logging in and the deletion of a member are here as far as they touch   *)
(* the address and the sessions.                                           *)
(***************************************************************************)
EXTENDS Integers, Sequences, FiniteSets

CONSTANTS
  Users,
  Addresses,
  Handlers,       \* requests at the same time
  MaxRequests     \* bound: changes asked for

VARIABLES
  alone,          \* environment: requests come one at a time
  standing,       \* of a user: "none" yet, "here", "deleted", "anonymized"
  email,          \* users.email
  requests,       \* email_change_requests; late: expires_at has passed
  sessions,       \* live refresh tokens: the user, and the address he logged in by
  call,           \* the handlers: the step, and what they have read
  moved           \* history: the requests that have changed an address

emailVars == <<alone, standing, email, requests, sessions, call, moved>>

Anonymous == "deleted-...@invalid.local"
Nobody    == "nobody"
Waiting   == [at |-> "idle", user |-> Nobody, id |-> 0, address |-> Anonymous]
Ids       == DOMAIN requests
Pending(u) == {i \in Ids : requests[i].user = u /\ requests[i].status = "PENDING"}

\* UNIQUE (tenant_id, email): a deleted account keeps its address.
Taken(a) == \E u \in Users : email[u] = a

Init ==
  /\ alone \in BOOLEAN
  /\ standing = [u \in Users |-> "none"]
  /\ email = [u \in Users |-> Anonymous]
  /\ requests = << >>
  /\ sessions = {}
  /\ call = [h \in Handlers |-> Waiting]
  /\ moved = {}

Begin(h, step) ==
  /\ call[h].at = "idle"
  /\ alone => \A g \in Handlers : call[g].at = "idle"
  /\ call' = [call EXCEPT ![h] = step]

End(h) == call' = [call EXCEPT ![h] = Waiting]

SignUp(u, a) ==
  /\ standing[u] = "none" /\ ~Taken(a)
  /\ standing' = [standing EXCEPT ![u] = "here"]
  /\ email' = [email EXCEPT ![u] = a]
  /\ UNCHANGED <<alone, requests, sessions, call, moved>>

\* login reads the row by its address, and issues the tokens later.
ReadLogin(h, u) ==
  /\ standing[u] = "here"
  /\ Begin(h, [Waiting EXCEPT !.at = "issue", !.user = u, !.address = email[u]])
  /\ UNCHANGED <<alone, standing, email, requests, sessions, moved>>

Issue(h) ==
  /\ call[h].at = "issue"
  /\ sessions' = sessions \cup {[user |-> call[h].user, by |-> call[h].address]}
  /\ End(h)
  /\ UNCHANGED <<alone, standing, email, requests, moved>>

\* expireStale
Expired(u) == [i \in Ids |->
  IF i \in Pending(u) /\ requests[i].late THEN [requests[i] EXCEPT !.status = "EXPIRED"] ELSE requests[i]]

\* request, up to its transaction; the step-up has succeeded.
ReadRequest(h, u, a) ==
  /\ standing[u] = "here"
  /\ ~Taken(a)
  /\ Begin(h, [Waiting EXCEPT !.at = "request", !.user = u, !.address = a])
  /\ requests' = Expired(u)
  /\ UNCHANGED <<alone, standing, email, sessions, moved>>

\* Mutant of CreateRequest: a second change may be on its way.
CreateRequestBeside(h) ==
  /\ call[h].at = "request"
  /\ Len(requests) < MaxRequests
  /\ requests' = Append(requests,
       [user |-> call[h].user, new |-> call[h].address, status |-> "PENDING", late |-> FALSE])
  /\ End(h)
  /\ UNCHANGED <<alone, standing, email, sessions, moved>>

\* The transaction of request, or its conflict with one that is pending.
CreateRequest(h) ==
  /\ call[h].at = "request"
  /\ Len(requests) < MaxRequests
  /\ requests' = IF Pending(call[h].user) # {} THEN requests
                 ELSE Append(requests, [user |-> call[h].user, new |-> call[h].address,
                                        status |-> "PENDING", late |-> FALSE])
  /\ End(h)
  /\ UNCHANGED <<alone, standing, email, sessions, moved>>

\* pending: the member looks at his request.
Show(u) ==
  /\ standing[u] = "here"
  /\ requests' = Expired(u)
  /\ UNCHANGED <<alone, standing, email, sessions, call, moved>>

Lapse(i) ==
  /\ requests[i].status = "PENDING"
  /\ requests' = [requests EXCEPT ![i].late = TRUE]
  /\ UNCHANGED <<alone, standing, email, sessions, call, moved>>

\* Mutant of ReadConfirm: the token never grows old.
ReadConfirmLate(h, i) ==
  /\ requests[i].status = "PENDING"
  /\ Begin(h, [Waiting EXCEPT !.at = "confirm", !.user = requests[i].user, !.id = i])
  /\ UNCHANGED <<alone, standing, email, requests, sessions, moved>>

\* confirm finds the request by its token, and its user whatever has become of him.
ReadConfirm(h, i) ==
  /\ requests[i].status = "PENDING" /\ ~requests[i].late
  /\ Begin(h, [Waiting EXCEPT !.at = "confirm", !.user = requests[i].user, !.id = i])
  /\ UNCHANGED <<alone, standing, email, requests, sessions, moved>>

\* Mutant of Confirm: the sessions go on.
ConfirmKeepsSessions(h) ==
  LET q == call[h]
  IN /\ q.at = "confirm"
     /\ ~Taken(requests[q.id].new)
     /\ email' = [email EXCEPT ![q.user] = requests[q.id].new]
     /\ requests' = [requests EXCEPT ![q.id].status = "CONFIRMED"]
     /\ moved' = moved \cup {q.id}
     /\ End(h)
     /\ UNCHANGED <<alone, standing, sessions>>

\* The transaction of confirm: the request is not read again.
Confirm(h) ==
  LET q == call[h]
  IN /\ q.at = "confirm"
     /\ ~Taken(requests[q.id].new)
     /\ email' = [email EXCEPT ![q.user] = requests[q.id].new]
     /\ requests' = [requests EXCEPT ![q.id].status = "CONFIRMED"]
     /\ sessions' = {s \in sessions : s.user # q.user}
     /\ moved' = moved \cup {q.id}
     /\ End(h)
     /\ UNCHANGED <<alone, standing>>

ConfirmTaken(h) ==
  /\ call[h].at = "confirm"
  /\ Taken(requests[call[h].id].new)
  /\ End(h)
  /\ UNCHANGED <<alone, standing, email, requests, sessions, moved>>

\* Mutant of ReadCancel: it does not ask whether the request has ended.
ReadCancelAny(h, i) ==
  /\ standing[requests[i].user] = "here"
  /\ Begin(h, [Waiting EXCEPT !.at = "cancel", !.user = requests[i].user, !.id = i])
  /\ UNCHANGED <<alone, standing, email, requests, sessions, moved>>

ReadCancel(h, i) ==
  /\ standing[requests[i].user] = "here"
  /\ requests[i].status = "PENDING"
  /\ Begin(h, [Waiting EXCEPT !.at = "cancel", !.user = requests[i].user, !.id = i])
  /\ UNCHANGED <<alone, standing, email, requests, sessions, moved>>

Cancel(h) ==
  /\ call[h].at = "cancel"
  /\ requests' = [requests EXCEPT ![call[h].id].status = "CANCELLED"]
  /\ End(h)
  /\ UNCHANGED <<alone, standing, email, sessions, moved>>

Delete(u) ==
  /\ standing[u] = "here"
  /\ standing' = [standing EXCEPT ![u] = "deleted"]
  /\ sessions' = {s \in sessions : s.user # u}
  /\ UNCHANGED <<alone, email, requests, call, moved>>

\* The daily run takes those who were deleted thirty days ago: no request of theirs is
\* on its way, and none of their tokens is valid (EMAIL_CHANGE_TTL_MS is an hour).
Anonymize(u) ==
  /\ standing[u] = "deleted"
  /\ \A h \in Handlers : call[h].user # u
  /\ \A i \in Pending(u) : requests[i].late
  /\ standing' = [standing EXCEPT ![u] = "anonymized"]
  /\ email' = [email EXCEPT ![u] = Anonymous]
  /\ sessions' = {s \in sessions : s.user # u}
  /\ UNCHANGED <<alone, requests, call, moved>>

Next ==
  \/ \E u \in Users :
       \/ \E a \in Addresses : SignUp(u, a)
       \/ Show(u)
       \/ Delete(u)
       \/ Anonymize(u)
  \/ \E i \in Ids : Lapse(i)
  \/ \E h \in Handlers :
       \/ \E u \in Users : ReadLogin(h, u)
       \/ Issue(h)
       \/ \E u \in Users, a \in Addresses : ReadRequest(h, u, a)
       \/ CreateRequest(h)
       \/ \E i \in Ids : ReadConfirm(h, i) \/ ReadCancel(h, i)
       \/ Confirm(h)
       \/ ConfirmTaken(h)
       \/ Cancel(h)

Spec == Init /\ [][Next]_emailVars

TypeOK ==
  /\ alone \in BOOLEAN
  /\ standing \in [Users -> {"none", "here", "deleted", "anonymized"}]
  /\ email \in [Users -> Addresses \cup {Anonymous}]
  /\ requests \in Seq([user : Users, new : Addresses, late : BOOLEAN,
                       status : {"PENDING", "CONFIRMED", "CANCELLED", "EXPIRED"}])
  /\ sessions \subseteq [user : Users, by : Addresses]
  /\ call \in [Handlers -> [at : {"idle", "issue", "request", "confirm", "cancel"},
                            user : Users \cup {Nobody}, id : 0..MaxRequests,
                            address : Addresses \cup {Anonymous}]]
  /\ moved \subseteq Ids

\* However requests overlap, a member has one change on its way (migration
\* email_change_requests 36-39), and what is confirmed has changed the address; where
\* they come one at a time, nothing else has: no request that was cancelled or had
\* expired.
RecordHolds ==
  /\ \A u \in Users : Cardinality(Pending(u)) <= 1
  /\ \A i \in Ids :
       /\ requests[i].status = "CONFIRMED" => i \in moved
       /\ alone /\ i \in moved => requests[i].status = "CONFIRMED"

\* Where requests come one at a time, no session outlives the address it began with
\* (email-change.service 121).
SessionsFollow == alone => \A s \in sessions : s.by = email[s.user]

\* An anonymized account does not get an address again, though a change may have been
\* pending when it was deleted, and confirm asks nothing of its user.
AnonymousStays == \A u \in Users : standing[u] = "anonymized" => email[u] = Anonymous

\* What the change of an address keeps, as one.
AddressHolds == TypeOK /\ RecordHolds /\ SessionsFollow /\ AnonymousStays
=============================================================================
