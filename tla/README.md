# Verification of stonex

TLA+ models of the API of stonex (`apps/api/src`), checked with TLC; every safety property
and every action property that TLC checks is also proved with TLAPS, for all values of
the constants that the assumptions named under "Proofs" allow. The models are translated
from the code; paths below are relative to `src/apps/api/src` unless they start with `db/` or `governance/`.

## The system

stonex is a NestJS API over PostgreSQL (Prisma), with Redis as a cache that may be
absent, and a Next.js front end. What makes it hard is not computation but that
every request is a coroutine of many small database calls:

* A Prisma call outside `$transaction` commits on its own, and a `findUnique` with
  `include` is one query per table. Between any two of them other requests run.
* A `$transaction` runs at READ COMMITTED: it is atomic, but what it *read* may be
  outdated when it commits, except for rows locked with `FOR UPDATE`.
* Redis calls swallow their errors (`cache/redis.service.ts`): a read that fails is a
  miss, a write or a delete that fails is lost.
* Several instances of the API run the same timers, and `@Interval` does not wait for
  the call before.

### Inventory

| Component | State | Operations | Hard part | Right when |
|---|---|---|---|---|
| Permission cache (`cache/`, `authorization/snapshot.service.ts`, `authorization/guards/auth.guard.ts`) | `users.perm_version` (pv), Redis `perm:{user}` | read pv, get, rebuild, set; bump, flush | rebuilds that tear, flushes that are lost or late | an entry with the current pv is the user's state |
| Sessions (`auth/auth.service.ts`) | `refresh_tokens`, `verification_tokens`, JWTs in circulation | login, refresh, verify, reset, onboarding password | refresh against refresh, login against suspension or reset | nobody suspended gets in; a rotated token is useless |
| Lockout (same file) | `failed_login_count`, `locked_until` | login, reset | counter read before the hash and written after it | five failures lock |
| 2FA enrolment (same file, `auth/onboarding.ts`) | `totp_secret`, `totp_enrollment_required`, Redis pending secret | begin, confirm, re-enrol; grant and edit of roles | a decision on an earlier read | who must have 2FA has it or is in onboarding |
| Email change (`members/email-change.service.ts`, `members/anonymization.service.ts`) | `email_change_requests`, `users.email` | request, confirm, cancel, expire, anonymize | confirm against cancel and against the end of the account | one outcome per request |
| Members, roles (`members/`, `admin/roles.service.ts`) | `users.status`, `user_roles`, `role_permissions` | create, ban, delete, grant, revoke, map | checks before the transaction | an active SUPER_ADMIN remains; nobody gives what he lacks |
| Domains (`domains/`) | `domains`, `domain_verification_attempts`, `domain_transfers` | rename, delete, verify (worker), propose, accept, cancel, sweep, purge | DNS between read and write; four kinds of request on a transfer | verified means controlled; it changes hands by its owner's will |
| Grants (`authorization/resource-grant.service.ts`, `grant.store.ts`, `domains/delegations.service.ts`, `files/shares.service.ts`) | `resource_grants` | create, revoke, clean up | deletion of the subject or the resource meanwhile | no grant without its subject and resource |
| Evaluator (`authorization/authorization.service.ts`) | none | decision over snapshot, resource, grants | precedence of DENY, status tables | the documented order of the five stages |
| Routes (the controllers) | none | what a route asks for, on what, and what it changes | a route nobody thought of | every movement of permissions is asked for and frozen |
| Owner cleanup (`members/owner-cleanup.worker.ts`) | `owner_cleanup_jobs` | claim, run hooks, finish, retry | ticks that overlap, a crash while RUNNING | every deleted owner is purged |
| Freeze (`governance/freeze.*`) | `governance_freezes` | place, look up, release | a freeze against the change in flight | a frozen actor moves no permission |
| Patrol (`governance/patrol.service.ts`) | an advisory lock, `resource_grants`, `audit_logs` | check, remove, record | requests under its hands, checks that fail | it takes what violates, and that in the end |
| Audit log and checkpoints (`governance/checkpoint.service.ts`) | `audit_logs`, `audit_checkpoints` | seal a day, verify the chain, retain | jobs of several instances, late records | one chain; tampering shows |
| Files, uploads (`files/`, `storage/`, `board/board-attachment.service.ts`) | `files`, `file_uploads`, object store | issue, complete, collect | object store and database disagree | no file without its object |
| Board: posts (`board/posts.service.ts`, `reports.service.ts`) | `posts`, `board_reports`, `boards.post_count` | write, publish, moderate, report, purge | judged by what was read before | counters exact; verdicts stand |
| Board: comments (`board/comments.service.ts`) | `comments`, `posts.comment_count` | write, delete with a tombstone, prune | numbers among siblings | a tree with nothing missing |
| Board: events (`board/event-bus.ts`, `notification.service.ts`, `view-count.service.ts`) | `board_outbox_events`, `board_notifications`, a buffer per instance | publish, claim, tell, retry; bump, flush | ticks that overlap, fail and die | a notification per event and reader |
| Board: access (`board/*-policy.service.ts`, the queries of the services) | `boards`, `board_members`, grants, capabilities, blocks | open, list, search, notify | five answers to one question | they agree |
| Settings (`settings/`, `storage/storage.service.ts`) | `system_settings`, a cache and a client per instance | get, set, invalidate | a reading that a change overtakes | an instance follows its own changes |
| Web client (`apps/web`) | one access token | show what the API answers | none | |

`PROJECT.json` lists them all with what is modelled of each.

## The modules

Common to all: a *handler* (`Handlers`, `Requests`, `Admins`, `Workers`, ...) is one
HTTP request or one call of a timer in progress; its program counter says which call
comes next, and its local variables hold what it has read. They are set back when it
ends, so that finished requests do not multiply the states. An action is one query or
one transaction. *History* variables (marked as such) are read by properties only;
*environment* variables are chosen at the start. Operators introduced by
"Mutant of X" are faulty variants of the definition that follows them; no
specification uses them, and each stands in for X in one experiment that shows a
property to notice the fault.

`alone` (`solo`, `oneByOne`) is such a choice of the environment: TRUE, a request begins
only when no other is in progress; FALSE, requests overlap as the code allows. A property
that holds only of the first kind says `alone =>`, and every run checks both kinds. What
happens in the second is under "What the code does not keep".

### Accounts and roles

**PermCache** - `AuthGuard.canActivate`, `SnapshotService`, `PermVersionService`,
`RoleGrantService`, `RolesService.setPermissions` and `remove`. A request reads pv,
then the cache, then rebuilds with three queries (user, user_roles, roles with their
permissions), writes the cache, and decides (`Decide`); the guard's own second rebuild
(`again`) does not write. An administrator commits a change with pv + 1 and flushes,
or commits a mapping, reads the holders, bumps them and flushes: four steps, between
which anything may happen, crashes included (`Crashes`). `owed` is the history of
users whose rights changed since their last bump: the window that `setPermissions`
leaves open. `dropped` are those of them whom nobody is going to bump: an administrative
handler died that they depended on, or their role was removed.

**PermPromise** - what the guard promises, with no cache in it: rights have versions,
and a request is answered under one version that was in force between its start and
its answer. PermCache implements it (`KeepsPromise`).

**Sessions** - login, refresh with rotation and reuse detection, mails, reset,
suspension and deletion. `tokens` is the table of refresh tokens with their family;
`access` is every access token ever signed, since none can be taken back: it dies
when pv moves on. `since` and `resetAt` say under which password a session began.

**Lockout** - the counter of failures and the lock. `misses` is the history of wrong
passwords since the last reset of the counter; `lapsed` marks a user whose lock has
run out or who has reset his password, where the bound on guesses starts again. `Guesses`
is that bound, as a function of the number of logins that may overlap.

**TwoFactor** - roles that require 2FA, the enrolment flag, enrolment and
re-enrolment. A TOTP secret is a number; `proven` are those a code was shown for.
`edited` is the history of an edit of a requirement that met a grant. `Invites` are
the role sets a new member may be created with: any, in the run. `unasked` is the history
of the roles that a member was created with and that required 2FA, as creation forgets
the flag (see below), until something else asks him for it.

**EmailChange** - an address asked for with a step-up, confirmed with the mailed token,
cancelled or late; sign-up, login and deletion as far as they touch addresses, and the
anonymization of deleted members. The partial unique index on pending requests is a
guard of `Request`, the unique index on addresses one of every write.

**RoleAdmin** - who may do what to whom: the guard's snapshot of the actor, dominance,
subset of permissions, `ensureRemains` with its `FOR UPDATE`, and the commit.
`promoted` is the history of somebody made SUPER_ADMIN while requests overlap.
A user who has been deleted and unbanned by an overlapping request is again
administered like any other (in the code `deleted_at` stays and hides him).

**Routes** - tables: what each route of every controller asks for, on which resource,
whether its target must be dominated, and which movement of permissions it makes. Codes
are sequences of their parts. **Freeze** runs them: a request enters through the guard,
which looks the freeze up, reaches the service, which looks again, and commits.
Freezes are placed and released meanwhile; `held` remembers an actor frozen from the
beginning of the request on.

### Resources

**Domains** - one domain with all that happens to its row. With overlap, a write may
come at any time after its check (`pc = "stale"`), as in the code, where only `accept`
checks under a lock. A run of the worker may fail at any step (`Stumble`), and its end may
stay unwritten, because the process dies or the last update fails too (`Vanish`): `orphaned`
is the history of the attempts that this leaves RUNNING. `MaxTokens`, `MaxAttempts`,
`MaxTransfers` bound the three tables.

**Evaluator** - pure: `AuthorizationService.can` with the loader, the status tables and
the expiry of grants, and the `where` clause of the lists of files and domains, which
has to agree with it. A permission is the last part of its code.

**ResourceGrants** - the grants on one file or domain, with Evaluator deciding who may
act. `AskX` is the guard and what the service reads, `CommitX` its transaction: share or
delegate, revoke, delete, accept a transfer. `DeleteUser`, `Purge`, `RevokeOrphans`
(RI-4), `Expire` and `PurgeExpired` remove grants from elsewhere. `Deny` is external:
DENY rows and suspended domains have no writer in the API, only readers, so they are
an operator's work in the database. Transfers are reduced to what touches grants, as
Domains has the rest.

**Boards** - who sees a board and a post on it, as five definitions each translated from
its own code: the guard of the route, the policy of the service, the list, the search,
the recipients of a notification. The state is all they depend on (visibility, members,
grants, capabilities, secret posts and their readers, co-authors, blocks, departures),
and the actions are the routes that change it.

**Uploads** - sessions, the object behind the signed URL, completion and the hourly
collection. Either endpoint completes any session of the user: that of the board re-encodes
an image before its row is written, that of the files does not (`Reencodes`), whatever the
session was issued for. The storage is external: the client may put an object as long as
the URL lives, and calls may fail. `Contents` is what it takes: "big" is an object larger
than was signed for.

### The board

**Posts** - a post as its owner, its reporters and moderators see it; a handler reads it,
judges what it read, and changes the row later. `scene` is a set of operations asked
for together, since all of them at once are too many; `bent` and `released` are
histories of steps that miscount, or show over reports, by design of the code.
**Comments** - paths with their numbers under the lock of the parent, tombstones, pruning
and the two patrols. **Outbox** - ticks that claim a batch in one statement, mark it
processed, and tell one recipient after the other; retries, faults and crashes.
**ViewCount** - the buffer of views, swapped and written row by row.

### Behind the requests

**OwnerCleanup** - the queue of jobs, ticks of several instances, batches, hooks that fail
or leave something, crashes. **Patrol** - the advisory lock, the checks in their order,
the removal of what they report with the two limits on it, the record; `state` of a
grant says which checks it violates, and requests change it at any time. A turn is one
transaction: `round` is what it has done so far, and `Commit` makes it so. **AuditTrail** - days and their records, the
daily job in every instance, RI-7, and retention; a digest is what it is taken of.
**Settings** - a category of settings in the database, in the cache of each instance and
in the client built of it.

### Composition

Five MC modules set components side by side where they share an environment and TLC's
time: `MCAccounts` (Sessions, Lockout, TwoFactor, EmailChange), `MCAccess`
(ResourceGrants and Boards, over Evaluator), `MCBoard` (Outbox, Posts, Comments,
ViewCount), `MCOperations` (OwnerCleanup, Uploads, Domains, Settings), `MCGovernance`
(Patrol, AuditTrail, Freeze, PermCache). `part` is chosen at the start and says which of
them moves; the others rest in one initial state. The states are then the sum and not
the product of theirs, which loses nothing as they share no variable that a step
changes. The components that do act on each other are in one module: Evaluator is used
by ResourceGrants, Routes by Freeze, PermPromise by PermCache; the hooks of the cleanup
are in Domains, ResourceGrants, Posts and Comments, the end of a user in each of them.

## Runs

A run is a question about one component, or about several side by side; a second one
of the same component asks what only it can answer. States are those TLC finds.

| Run | Shows | Bounds |
|---|---|---|
| PermCache_crash | entries and answers with the current pv are right, under crashes and lost Redis calls; PermCache implements PermPromise | 1 user, 1 role, 1 permission, 1 request, 2 administrators, 3 changes (386 k) |
| Accounts | no access token for the inactive; dead families stay dead; without overlap one live token per family, none while inactive, none that outlives a reset, the fifth failure locks and no fewer do; guesses stay bounded; who must have 2FA has it or is in onboarding, unless for a role he was created with, and with a secret that was proven; one change of an address at a time, which ends the sessions of the old one and never reaches an anonymized account | 1 user (2 for addresses, with 2 addresses and 2 requests for a change), 2 handlers, 3 tokens, 1 mail, 3 changes; limit 5 in Lockout, where two logins get 20 guesses; 2 roles, any of them on creation, 3 secrets (1.3 M) |
| RoleAdmin | an active SUPER_ADMIN remains unless somebody is promoted meanwhile; no permission appears that nobody had | 3 users, 2 requests, 3 changes (802 k) |
| RoleAdmin_last | refutes that one remains in any case | the same |
| Domains_transfers | a domain changes hands only by its owner's will; without overlap, what has ended stays as it ended | 3 users, 2 requests, 2 transfers (624 k) |
| Domains_rename | refutes that verified means controlled when a rename overtakes a lookup | 1 worker, 2 tokens |
| Access | a deleted resource keeps no grant; no ALLOW survives a change of hands; a DENY goes only by those who may lift it; the list of files and domains agrees with the evaluator; lists, search, notifications and pages of a board agree, and a DENY closes all of them | grants: 3 users, 1 of them administrator, 2 requests, 1 share, 1 denial; board: 2 users, the capability of blocks (652 k) |
| Board | counters exact without overlap, and repaired with it; verdicts stand; hidden stays hidden; reports are heard; paths of siblings differ; the tree has no hole; each event told once to each; views counted; in the end events are told or given up, counters repaired, views written | 1 post, 2 boards, 3 reporters, 2 handlers, threshold 2, 3 scenes; 3 comments of 2 handlers; 3 events, 2 recipients, 2 ticks, batch 2, 2 attempts, 2 faults; 2 posts, 2 flushes, 2 views, 2 failures (497 k) |
| Operations | no job run twice, done means clean, given up in time; one file per upload, with its object, and clean if it is an image completed by the board; no attempt run twice or left RUNNING by a failure, verified means controlled without overlap; settings follow; each job, session and attempt ends, but what a death leaves RUNNING | 2 deleted members, 2 types, 2 ticks, 2 batches, 2 attempts, 2 mishaps; 1 upload, 2 completions, 1 collection, 1 upset; 2 workers, 2 attempts, 3 tokens; 2 instances, 2 requests, 1 value, 2 keys (152 k) |
| Governance | only violators are removed, the trail is exact, OK means looked; one chain, and tampering shows; frozen moves nothing; every holder of an edited role is bumped and served, but those whom a death or the removal of the role drops; what can be cured is cured | 2 grants, 2 hosts, limit 1, 1 failure, 1 restoration; 4 days, 2 instances; 2 accounts, 2 freezes, 2 requests; 2 users, 1 role, which may be removed, 2 administrators who may die, 3 changes (368 k) |
| Patrol_stuck | refutes that orphans go, by a grant that two checks report | 2 grants, limit 2 |
| Uploads_orphan | refutes that the object of an expired session goes | 1 upload, no upset, no object that is too large |

Why the bounds are enough: the rights of users are independent (no action of PermCache
or Sessions relates two of them, but for the holders of a role, hence two users in
Governance); the races found need two handlers and at most three changes, and so
do the near misses that the invariants exclude; one role and one permission suffice to
tell a mapping from its successor; three users are an owner, a recipient and a third
party. For Lockout the bound `Guesses` is not chosen but computed: n logins that may
overlap get no more than (n+5 choose 5) - 1 wrong passwords before a lock, which is 5 for one,
20 for two and 55 for three. For two it is reached (19 is refuted); `MaxMisses` lies above
it, so that the invariant and not the bound is what stops them. In Access one
share suffices to be in progress during everything else, and two permissions to give a
delegation more than one row; on a board one user looks and the other is the author.
`MaxSiblings` is 2, so that the third comment is beyond what a segment holds. The limits
of code that are small there (attempts, thresholds, the batch of a queue) are
2 or 1 here, so that each is reached, and passed, within the bounds. Four days hold a
sealed day, its successor, one past its retention and today. Symmetry
is used for users, handlers and permissions in runs of invariants, action properties
and the safety refinement only, never with liveness.

Deadlock is checked in PermCache_crash, where some step is always possible; the others
say `CHECK_DEADLOCK FALSE` because their counters run out and the system then rests.

### What the code does not keep

Four properties are refuted; `PROJECT.json` quotes the text of the code that states
each: RoleAdmin_last, Domains_rename, Patrol_stuck, Uploads_orphan. Beside these, the
models contain the following behaviours of the code, met while looking for what does
hold. They are why a property says `alone`, reads a history variable, or is missing.

Accounts and roles:

* A mapping edit that dies between its commit and the bump of the holders leaves
  their cached rights for up to the TTL; nothing resumes it. A role deleted with a holder
  it has just gained leaves him without a bump. Both are in `dropped`, which
  `OwedIsOnTheWay` and `EditReachesHolders` leave out.
* Two refreshes of one token both pass the check and both rotate. A login or refresh
  that overlaps a suspension or a reset creates a refresh token after the cut. It is of
  no use while the user is suspended, as refresh looks at his status, and of use after a
  reset. A rotation that dies half way revokes the token and issues no other. The password
  set in onboarding ends no session. An old verification mail
  that overlaps a suspension makes the account ACTIVE.
* A failed login that overlaps others writes a count from before them, which also
  lifts their lock; one that overlaps a reset writes the count of before it.
* A member created with a role that requires 2FA gets no enrolment flag
  (`members.service` 149-154; of `grantRole`, line 219 says that it forces the enrolment),
  until another role that requires it is granted or an edit of the requirement reaches him:
  `EnrolmentHolds` leaves out the roles in `unasked`. An edit of a
  role's requirement and a grant of it that overlap may leave a holder without the flag;
  two enrolments that overlap may confirm the secret of the other.
* A change of address that is cancelled while it is confirmed is made and stays on record
  as CANCELLED. The anonymization clears `users.email` and leaves the addresses in
  `email_change_requests` and in the audit log.
* The subset checks of mapping edits and of grants read before their transaction, so
  that two of them together may give what neither may alone. `duplicate` creates the
  role before `setPermissions` may refuse, and the empty role stays.

Resources:

* A verification attempt whose end cannot be written stays RUNNING: the process dies, or the
  update to FAILED fails too and the failure is swallowed (`verification.service` 194, against
  the comment at 157). `claim` takes PENDING ones only (148), and the unique index allows one
  in flight, so that the domain cannot be verified again until it is renamed or deleted.
* A cancellation of a transfer overwrites an acceptance. A deletion that a verification
  overtakes leaves a deleted domain VERIFIED. The purge of a deleted owner takes, by id,
  a domain that has passed to somebody else since it was listed.
* A delegation that overlaps the transfer of its domain commits after it: the
  transaction locks the row (the comment of `ResourceGrantService.create` names transfers
  as the reason) and looks at the deletion mark, but not at the owner. It is an ALLOW of
  a former owner. Nobody looks at the subject; the patrol removes the row of a deleted one.
* A share that is renewed after it expired and before the nightly purge creates nothing.
* The lists ignore the permission of a grant: a file shared for update only is listed
  and cannot be opened; a DENY on updating hides it from a list though it can be
  opened. `ListAgrees` is restricted to users whose grants are about reading.
* No checksum of an upload is compared with anything (the comment of
  `FilesService.completeUpload`, line 35, has the object removed when it differs).
* An image that is uploaded for the board and completed through the files endpoint
  (`files.service` 40-57; `complete` asks only who requested the session) is not re-encoded,
  and `linkToPost` (`board-attachment.service` 130-133) attaches any file of the user's, against
  the comment at line 83 that an image is re-encoded before it is an attachment.
  `UploadsHold` says so of those completed through the board only, and of those that
  the client does not put again afterwards.
* Two completions of one upload that overlap make two files of it. A collection that
  read a session as PENDING deletes the object of a file that a completion makes meanwhile.
* The routes of a post ask for `board.moderate` on the post, whose type has no such
  grants, so that a moderator of one board moderates posts only with the permission for
  all boards (`board.controllers` 303-311; line 300 speaks of the board). A moderator who
  is removed or becomes a plain member keeps the grant that came with the role.

The board and what works behind:

* A tick marks events as processed before it consumes them, so that a crash loses them;
  the comment of `event-bus.ts` (line 13) promises delivery at least once.
* The views of a flush that fails are put back whole, with those that it had written, so that
  these are counted twice; the comment of `view-count.service` at line 37 says that
  nothing is. A crash loses the buffer.
* Counters of posts and comments are moved by what a request read before; deletions that
  overlap, auto-hide, and the purge of drafts leave them wrong until the patrol.
* A draft is published over a moderator's decision taken since it was read.
* A cleanup job whose tick dies, or cannot record its failure, stays RUNNING and is taken
  by nobody; RI-10 reports it.
* A change that an overtaking freeze should stop still commits: guard and service look the
  freeze up before the transaction, on another connection (`freeze.guard` 36). A day on which
  every instance is down at twenty past midnight is never sealed.
* A reading of settings that overlaps a change puts the old values into the cache again, or
  builds the client of them; other instances keep theirs until they restart. Both work with
  the old storage, which the comment of `storage.service` (41-42) says a rebuild is there to
  prevent. `SettingsHold` is about an instance's own changes, one after another.
* A patrol takes a grant that went and was brought back corrected since it looked
  (`back`). `restore-grants` run again brings back what was revoked since.
* The anomaly AN-4 asks for 'role.permissions.set', and the code writes
  'role.permissions.replace', so that it does not see edits of a mapping.
* The retention of access records raises the alarm of RI-7, whose digests cover them.

### Fairness

What the code schedules is fair, and nothing else: users, requests that have not begun,
crashes and tampering are not.

* `PermCache!Fairness`: an administrative handler that has started goes on, as node
  resumes every awaited call and each returns or fails. It may also die, which is not
  fair: whom it then bumps no more is `dropped`.
* `Domains!Fairness`: the same of handlers, and of a worker that it goes on and that
  its timer (`@Interval`) calls it again. The lock of `accept` does not starve it, as the
  handler that holds it is fair too. The sweep of expired transfers is not fair, nor is a
  run's failing or its death; an attempt ends or is `orphaned`.
* `OwnerCleanup!Fairness`, `Outbox!Fairness`, `ViewCount!Fairness`: ticks of `@Interval`, and
  that a tick goes on; a tick may die or fail, finitely often by the bound on faults, which
  is why liveness is of what is neither dropped nor lost.
* `Uploads!Fairness`: completions that have begun, and the hourly job.
* `Posts!Fairness`, `Comments!Fairness`: the patrol of the board; what settles settles when
  no more is asked (`calm`).
* `Patrol!Fairness`: some host's turn goes on, or begins: the lock is an advisory one that
  the database lets go with its connection, and every host tries every ten minutes. Which
  host gets it is not fair. In MCGovernance it is guarded by `part`, as a patrol could
  start, and change nothing, while another part moves.

## Proofs

Eight modules hold the proofs: one per MC module (**AccountsProofs**, **AccessProofs**,
**BoardProofs**, **GovernanceProofs**, **OperationsProofs**), in a section for each of its
components, and one for each component that a run checks by itself (**PermCacheProofs**,
**RoleAdminProofs**, **DomainsProofs**). A theorem about a part of an MC module is about
the specification of that module, as its run is: whichever part moves, the others rest in
states where their invariants hold.

Every invariant and every action property of a run that passes is a theorem. Most are not
inductive; the strengthening is named below with the reason for it. It nearly always has
two halves: what a request in progress has read and may still rely on, and, where requests
come one at a time, that there is only the one and that what it read is still so.

### Accounts and roles

*PermCache*, with or without crashes. `Invariant`: CacheCoherent alone is not inductive: a
cache entry is right because the rebuild that wrote it was, and a rebuild is right because
it read pv before anything else. `Versions` says that no pv in a cache or a hand exceeds the
user's, and `InHandCoherent` says of every step of a rebuild what it holds if pv has
not moved meanwhile. Each action either leaves a user's rights alone, or moves his
pv past everything in circulation, or makes him `owed`. `TypeCorrect`, `CacheIsCoherent`,
`ServedIsCoherent` follow. `ImplementsPromise`: `Spec => KeepsPromise`, step by step:
reading pv is Start, a decision is Answer or Done, a bump is Advance, the rest stutters.

*Sessions*: `Invariant`, `TypeCorrect`, `AccessIsCut` (NoAccessWhileInactive).
The strengthening is that a handler that will sign a token holds a pv which, if still
current, was read of an ACTIVE user (`SeenActive`), and that no token is from the
future (`PastPv`). `DeadStaysDead` (DeadFamilyStaysDead) is an action property: a live
row is only made by a login, of a new family, or by a rotation, whose handler is named in
`Dead`. `CutsAreComplete` (CutsHold) needs the second invariant `CInv`: if requests come one
at a time (`OneRequest`), the rows hold (`RowsHold`) and what the one request found is
still so (`Found`): it rotates the only live row of its family, and that is dead by the
time it issues the next.

*Lockout*: `FifthFailureLocks` (FiveFailuresLock): the one login that verifies has read the
count of the row (`LoneLogin`), and the count is the number of wrong passwords
(`CountIsMisses`). `GuessesStayBounded` (LockHolds) is about any number n of logins that
overlap. `Left` is what a login has before the lock, by the count it has read, or would read
now; `Behind(k, u)` are the logins with less than k left, for each mark k from one to five. A
wrong password of a login with x left writes a count that leaves x - 1. This login is now
behind the mark x; others may come out from behind the lower marks, where there were no more
of them than behind x. `Weight1` to `Weight5` make one login more behind a mark weigh
more than all those behind the lower ones (`WeightNext`), so that every wrong password spends
(`GuessSpends`) and none is free (`PaidFor`). With all n behind all marks (n+5 choose 5) - 1
are spent.

*TwoFactor*: `EnrolmentStands` (EnrolmentHolds): a grant on its way answers for the role it
gives (`GrantAnswers`): if the role asks for 2FA, the grant has read that and is going to
raise the flag, or the member has a secret; and nobody loses his (`Carries`). The roles in
`unasked` are exempt, and a grant or an edit that asks for them takes them out again.

*EmailChange*: `AddressesHold` (AddressHolds): a request knows the row it is about
(`CallsKnow`), what is confirmed has moved the address (`Recorded`), and what an anonymized
member had asked for has lapsed with nobody at work on it (`AtPeace`), which is why he never
gets an address again even where requests overlap.

*RoleAdmin*: `Invariant`, `SuperAdminsRemain` (RemainsUnlessPromoted) and
`PowerComesFromPower` (NoPowerFromNothing). Two things are in the strengthening. A demotion
that took no lock is harmless as long as its target is still no SUPER_ADMIN (`StillNone`),
which holds until somebody is promoted under it; one that took the lock counts another
row that cannot be demoted before it commits. And without overlap what an actor was seen
to have, and what was compared with it, is still so at the commit (`PowersStand`).

### Resources

*Domains*: `Invariant` and `HandedOverOnlyByOwners` (TransfersHold). `LockHolds` is
the argument of the code: what `accept` checks under its row lock (not deleted, still the
proposer's) is so until it commits, since every other write of the row waits or is made
by nobody. It holds with overlap, and so does the first half of the property; the other,
that what has ended stays so, needs that a lone request finds its transfer as it read
it (`Undisturbed`). `DomainsStand` (VerificationHolds): an attempt that is run was taken
off the queue and is never put back (`TakenOnce`), so that no second worker claims it;
what is RUNNING is with a worker or orphaned;
what is published is under a name the owners control (`ProofsAreControlled`); and a run that
nothing overtakes works for the name and the row there are (`RunIsCurrent`), which is what a
rename breaks in Domains_rename. The theorem is about Domains alone (`VerificationStands`)
and carried over to the specification of MCOperations by an instance of DomainsProofs.

*ResourceGrants*: `Invariance`, and from it `DeletedHasNoGrants` and
`OwnersGrantThem`. A share in progress must be known to be the owner's, or an
administrator's for a time (`SharesAreEntitled`); that nobody else gets so far is the
lemma `SharersAreEntitled`, whose ground is that the whitelist holds no right to share
(`PermsAssumption`): no grant ever gives one. It stays true until the commit because
the owner does not change meanwhile: of a file never (`OnlyDomainsMove`), of a domain
if requests come one at a time (`OneAtATime`). `DenialsStand` (DenyStands) goes through
the actions that remove rows: expiry and transfers spare a DENY, as it has no end and they
ask for ALLOW; a revocation removes the row that it was judged by, as ids are given once.
`ListsAreExact` (ListAgrees) compares the `where` clause of the lists with the evaluator,
clause by clause: it is a fact of every typed state, and no history helps or hurts it.

*Boards*: `PathsDoAgree` (PathsAgree): the lists ask about grants of any permission and
the guard about the one to read. What makes them agree is that nobody is denied the
moderation of a board (`NoModerationDenied`), which nothing in the code says and every
writer of grants keeps. `DenialsWin` (DenyWins) needs no history: each of the five
definitions refuses whoever is denied before it looks at anything else.
`AccessHasTypes` (AccessTypeOK) covers both.

*Uploads*: `UploadsStand` (UploadsHold). `FilesAreOfDone`: where completions of an upload do
not overlap, a session that is done is not open again, and a completion in progress has made
no file yet, so that there is one at most. `NotBoth`: what is being collected has no file
and nobody at work to make one, and a completion that has seen the object has it still,
unless the two crossed, which `crossed` records. `RowsToComeAreClean`: an image that is
completed through the board was written back re-encoded before its row, unless the client put
it again.

### The board

*Outbox*: `Invariant` and `EventsAreDelivered` (Delivery). That no two ticks hold an
event is not inductive alone: a claim takes pending rows, so those held must be marked
(`Marked`); and that nothing is forgotten when a tick finishes needs that of the event in
hand all have been told but those still to be told (`Underway`). `Marked` also says that a
claimed event has an attempt left, which makes the last attempt the last.

*Comments*: `PathsAreUnique` (SiblingPathsUnique), however creations overlap: one request has
a parent's lock, and the number in its hand is past those of all the siblings there are
(`LocksStand`). `TreeStandsWhole` (TreeHolds): pruning removes the least set of ancestors
that closes under "a tombstone that nothing else hangs on" (`HeldOnlyBy`); that what is
left has no hole needs both halves, that everything in it was held by nothing else, and
that nothing such remains.

*Posts*: `HidingLasts` (HiddenStaysHidden) is an action property of any overlap.
`ModerationStands` (Moderation): an upheld report leaves its post gone, because a verdict
that read its post deleted has it so (`RowsStand`). That reports are heard is
counted (`Heeded`): of a public post that nobody showed, the open reports and those on
their way that will not hide it are fewer than the threshold and the requests in flight
allow. `CountersStand` (CountersExact), with the count of comments: where requests
come one at a time what a handler read is so (`Current`), and each step moves the counter
by what it changes of the set it counts.

*ViewCount*: `ViewsStand` (ViewsCounted): the views of a post are stored or kept, in the buffer
of an instance or in the unwritten batch of a flush: no more than there were as long as no
statement of a flush fails, no fewer as long as no instance crashes. A sum over places is
the cardinality of the set of pairs of a place and a number up to what it holds
(`Tokens`), since a recursive sum could not be reasoned about.

`BoardHasTypes` (BoardTypeOK) joins the types of the four.

The proof of Moderation corrected the model. That reports are heard said too much in one
case and nothing in another: with two reporters and two handlers the bound was never reached,
and with three it was false, where a moderator dismisses what he read while more
reports arrive. The post is then shown over reports that the verdict had not read, as in the
code. `released` records this now, and the run has three reporters.

### Behind the requests

*OwnerCleanup*: `Invariant` and `QueueKeepsItsWord` (CleanupHolds). A tick that runs
has its job marked (`RunsAreMarked`), so that no other tick claims it (`RunsAreApart`); where it has
been nothing is left, unless it knows or it came later (`SweptBehind`), which is what makes
DONE mean clean; and the attempts that it counts on from are no more than the failures.

*Settings*: `SettingsStand` (SettingsHold): between the changes that an instance makes,
everything it has read is what there is: its cache, a client that fits its version, and
what a reading in progress has in hand (`FollowsBetweenChanges`), unless a reading overlapped
the last change or the change was another instance's. Versions stay within their bound
because each change under way has its number reserved (`NumbersStand`).

*Patrol*: `Invariant` and `PatrolsKeepTheirWord` (PatrolHolds). The advisory lock
keeps patrols apart (`OneAtATime`). What a patrol has found is still wrong, is gone, or was
brought back since (`FoundIsWrong`); what it has removed is locked, so that it may become
worse but cannot go (`RemovedIsLocked`), which is what makes the trail exact; and no check is
passed over on the way to the record (`NoneSkipped`), which is what makes OK mean looked.

*AuditTrail*: `TrailStands` (AuditHolds): what a job has in hand is the checkpoint of yesterday
as it would be calculated now (`JobsStand`), because nothing is written to a day that is
over; so the chain goes on from the last checkpoint when it is written, whichever instance
writes it. The records of changes of a sealed day only become fewer than its
digest says, and do so where they were tampered with (`DigestsStand`).

*Freeze*: `FreezesStand` (FreezesHold), for every route that the controllers declare. Who is
held is frozen still; nothing held got past the guard (`RequestsStand`); and every route that
moves permissions either is one the guard looks at or ends in a service that looks again
(`RoutesAreDeclared`, a lemma about the tables of Routes, one case per controller). That
an account has one active freeze is the unique index, which `CreateFreeze` meets.

*PermCache, its edits of a mapping*: `EditsAreOnTheWay` (OwedIsOnTheWay): whoever is owed a bump is
carried by a handler that is going to give it to him (`AllCarried`): it has yet to read the
holders, and he is one, or has him on its list. A handler that dies drops those whom no
other one carries, the removal of a role drops its holders, and nothing else does.

### Assumptions

All are named in the module of the constant, and evaluated by TLC in the run that extends
it. `NoSnapshot` is no snapshot, `Removable` are roles, `Crashes` is Boolean, administrators
are users, SUPER_ADMIN is a role and `Manage` a permission, the whitelist, 0 is no event
(PermCache, RoleAdmin, ResourceGrants, Outbox). `AccountsAssumption`: an edit
sets a requirement or lifts it, members are created with roles there are, and handlers are
finitely many. `BoardAssumption`: posts, comments, requests, instances
and flushes are finite, there is a post and a board, the root is no comment, and the threshold
is at least one. `GovernanceAssumption`: there is a day, freezes have
finitely many positive numbers, and "nobody" is no account. `OperationsAssumption`: there are uploads and instances,
images are uploads, requests about settings are finitely many, and there is a key and a
token. Limits and bounds are natural numbers (of attempts and hooks at least one). No theorem has
a hypothesis of its own.

### Model-checked only

The liveness properties BoardSettles, OperationsSettle, PatrolClears and EditReachesHolders:
liveness under fairness and ENABLED are outside the prover's reach, as are induction over
data and RECURSIVE operators, of which no module that is proved about has any. The
refutations are TLC's.

## Not modelled

* In the modules above: audit records but those of the patrol and the checkpoints (they
  are written in the same transactions), the tenant (one is modelled), expiry of
  SUPER_ADMIN roles (the code forbids it), the rate limit of verification requests, the
  uniqueness of domain names across owners, and time, which is an action that may happen
  at any moment. The revocations of sessions by a grant of a role that requires 2FA are
  not in Sessions.
* The anomaly rules: counts over a window of the audit log, which notify and change
  nothing else. The checks of the patrol that only report. The reads of the console.
* The detaching of partitions of the audit log and their creation, by SQL run by hand or
  once a day.
* Reactions, tags and types of posts, on which nothing above depends; the re-encoding
  of images, and the encryption of settings and secrets, which are steps that work or not.
* The web client: it keeps one access token in memory and shows what the API answers; its
  pages are rendering. Its share of the source is the larger part of what no module maps.
* Schema, migrations and seeds: the constraints that services rely on are guards in the
  modules of those services; the rest runs once.
