---------------------------- MODULE MCOperations ----------------------------
(***************************************************************************)
(* What works behind the requests, side by side: the queue that cleans up  *)
(* after deleted members, uploads and their collection, the verification   *)
(* of a domain, and the settings.  "part" says which of them moves; they   *)
(* share no variable.                                                      *)
(***************************************************************************)
EXTENDS OwnerCleanup, Sequences

CONSTANTS
  UploadIds, Images, Contents, Completers, Collectors, MaxUpsets,
  Users, Fqdns, Controlled, Handlers, Workers, MaxAttempts, MaxTransfers, MaxTokens,
  Instances, Requests, MaxValue, MaxVersion, MaxKey

ASSUME OperationsAssumption ==
  /\ UploadIds # {} /\ Images \subseteq UploadIds /\ Contents \subseteq {"raw", "big"}
  /\ MaxUpsets \in Nat
  /\ Instances # {} /\ IsFiniteSet(Requests)
  /\ MaxTokens \in Nat \ {0}
  /\ MaxValue \in Nat /\ MaxVersion \in Nat /\ MaxKey \in Nat \ {0}

VARIABLES
  part,
  oneByOne, session, clock, object, fileRows, boardFile, again, crossed, call, sweep, upsets,
  alone, owner, fqdn, status, deleted, token, alive, dns, issued, attempts, wpc, job, read,
  orphaned, transfers, pc, draft, row, purging,
  settings, key, cache, version, client, builtFor, work, overlapped

U == INSTANCE Uploads
D == INSTANCE Domains
S == INSTANCE Settings WITH crossed <- overlapped

uploadOnly   == <<oneByOne, session, clock, object, fileRows, boardFile, again, crossed, call,
                  sweep, upsets>>
domainOnly   == <<alone, owner, fqdn, status, deleted, token, alive, dns, issued, attempts, wpc, job,
                  read, orphaned, transfers, pc, draft, row, purging>>
settingsOnly == <<settings, key, cache, version, client, builtFor, work, overlapped>>
vars == <<part, cleanupVars, uploadOnly, domainOnly, settingsOnly>>

\* A part that rests does so in one of its initial states.  Of the members that are
\* deleted the first has resources of one type, the second of both.
OperationsInit ==
  /\ part \in {"cleanup", "uploads", "domains", "settings"}
  /\ Init /\ U!Init /\ D!Init /\ S!Init
  /\ \A o \in Owners, t \in Types : owned[o][t] > 0 <=> t <= o
  /\ part # "uploads" => oneByOne
  /\ part # "domains" => alone /\ fqdn \in Controlled

OperationsNext ==
  \/ /\ part = "cleanup"
     /\ Next
     /\ UNCHANGED <<part, uploadOnly, domainOnly, settingsOnly>>
  \/ /\ part = "uploads"
     /\ U!Next
     /\ UNCHANGED <<part, cleanupVars, domainOnly, settingsOnly>>
  \/ /\ part = "domains"
     /\ D!Next
     /\ UNCHANGED <<part, cleanupVars, uploadOnly, settingsOnly>>
  \/ /\ part = "settings"
     /\ S!Next
     /\ UNCHANGED <<part, cleanupVars, uploadOnly, domainOnly>>

OperationsSpec ==
  OperationsInit /\ [][OperationsNext]_vars /\ Fairness /\ U!Fairness /\ D!Fairness

\* The properties of the parts, as they are stated there (CleanupHolds comes as it is):
\* uploads, the verification of a domain, the settings,
UploadsHold == U!UploadsHold
VerificationHolds == D!VerificationHolds
SettingsHold == S!SettingsHold

\* and what timers bring about in the end: no job, no upload and no verification that
\* is never finished.
OperationsSettle == CleanupEnds /\ U!SessionsEnd /\ D!AttemptsEnd
=============================================================================
