------------------------------ MODULE Settings ------------------------------
(***************************************************************************)
(* The settings of one category: rows in the database, and in every        *)
(* instance of the API a cache of them, a number that counts the changes   *)
(* made there, and the client that is built of the cached values.  Reading *)
(* waits for the database, and so does a change before it clears the cache.*)
(***************************************************************************)
EXTENDS Integers, FiniteSets

CONSTANTS
  Instances,
  Requests,       \* at the same time
  MaxValue,       \* bound: the values of a setting are numbered, 0 when it is not set
  MaxVersion,     \* bound: changes that an instance makes between two restarts
  MaxKey          \* bound: keys

VARIABLES
  settings,       \* system_settings: bucket, secret and the key that sealed it
  key,            \* SETTINGS_ENCRYPTION_KEY
  cache,          \* SettingsService.cache of an instance
  version,        \* SettingsService.version
  client,         \* StorageService.cached: the values it is built of
  builtFor,       \* StorageService.builtFor
  work,           \* the requests
  crossed         \* history: a change was made elsewhere, or while a reading was under way

settingsVars == <<settings, key, cache, version, client, builtFor, work, crossed>>
memory       == <<cache, version, client, builtFor>>

Nothing == [bucket |-> -1, secret |-> -1]
NoWork  == [op |-> "idle", on |-> CHOOSE i \in Instances : TRUE, got |-> Nothing]
On(i)   == {r \in Requests : work[r].op # "idle" /\ work[r].on = i}
Rest(r) == work' = [work EXCEPT ![r] = NoWork]

\* What a reading makes of the rows: open yields the secret or fails, and a secret that
\* cannot be opened is left out.
Decrypted ==
  [bucket |-> settings.bucket, secret |-> IF settings.sealedBy = key THEN settings.secret ELSE 0]

Init ==
  /\ settings = [bucket |-> 0, secret |-> 0, sealedBy |-> 1]
  /\ key = 1
  /\ cache = [i \in Instances |-> Nothing]
  /\ version = [i \in Instances |-> 0]
  /\ client = [i \in Instances |-> Nothing]
  /\ builtFor = [i \in Instances |-> -1]
  /\ work = [r \in Requests |-> NoWork]
  /\ crossed = [i \in Instances |-> FALSE]

\* The client that resolve hands out as it is.
Fits(i) == client[i] # Nothing /\ builtFor[i] = version[i]

\* The rest of resolve: without a bucket there is no client, and the old one stays.
Build(i, values) ==
  IF values.bucket = 0
    THEN UNCHANGED <<client, builtFor>>
    ELSE /\ client' = [client EXCEPT ![i] = values]
         /\ builtFor' = [builtFor EXCEPT ![i] = version[i]]

ResolveCached(i) ==
  /\ ~Fits(i)
  /\ cache[i] # Nothing
  /\ Build(i, cache[i])
  /\ UNCHANGED <<settings, key, cache, version, work, crossed>>

\* Nothing is cached: the rows are asked for, read, and arrive.
Ask(r, i) ==
  /\ work[r].op = "idle"
  /\ ~Fits(i)
  /\ cache[i] = Nothing
  /\ work' = [work EXCEPT ![r] = [op |-> "ask", on |-> i, got |-> Nothing]]
  /\ UNCHANGED <<settings, key, memory, crossed>>

Read(r) ==
  /\ work[r].op = "ask"
  /\ work' = [work EXCEPT ![r] = [@ EXCEPT !.op = "read", !.got = Decrypted]]
  /\ UNCHANGED <<settings, key, memory, crossed>>

Fill(r) ==
  LET i == work[r].on
  IN /\ work[r].op = "read"
     /\ cache' = [cache EXCEPT ![i] = work[r].got]
     /\ Build(i, work[r].got)
     /\ Rest(r)
     /\ UNCHANGED <<settings, key, version, crossed>>

\* update: the transaction writes the settings that were sent; a secret that was sent
\* empty stays as it is.
Commit(r, i, bucket, secret) ==
  /\ work[r].op = "idle"
  /\ version[i] + Cardinality({q \in On(i) : work[q].op = "commit"}) < MaxVersion
  /\ settings' = [settings EXCEPT !.bucket = bucket,
                                  !.secret = IF secret = 0 THEN @ ELSE secret,
                                  !.sealedBy = IF secret = 0 THEN @ ELSE key]
  /\ work' = [work EXCEPT ![r] = [op |-> "commit", on |-> i, got |-> Nothing]]
  /\ crossed' = [j \in Instances |-> crossed[j] \/ j # i]
  /\ UNCHANGED <<key, memory>>

Reading(i) == \E r \in On(i) : work[r].op = "read"

\* Mutants of Invalidate: the client is not told; the cache is kept.
InvalidateCacheOnly(r) ==
  LET i == work[r].on
  IN /\ work[r].op = "commit"
     /\ cache' = [cache EXCEPT ![i] = Nothing]
     /\ crossed' = [crossed EXCEPT ![i] = Reading(i)]
     /\ Rest(r)
     /\ UNCHANGED <<settings, key, version, client, builtFor>>

InvalidateVersionOnly(r) ==
  LET i == work[r].on
  IN /\ work[r].op = "commit"
     /\ version' = [version EXCEPT ![i] = @ + 1]
     /\ crossed' = [crossed EXCEPT ![i] = Reading(i)]
     /\ Rest(r)
     /\ UNCHANGED <<settings, key, cache, client, builtFor>>

\* After the commit, on the instance that made the change.  A reading that is under
\* way will put back what it has read.
Invalidate(r) ==
  LET i == work[r].on
  IN /\ work[r].op = "commit"
     /\ cache' = [cache EXCEPT ![i] = Nothing]
     /\ version' = [version EXCEPT ![i] = @ + 1]
     /\ crossed' = [crossed EXCEPT ![i] = Reading(i)]
     /\ Rest(r)
     /\ UNCHANGED <<settings, key, client, builtFor>>

\* The answer to the commit is lost: the change is made, and the cache kept.
Unheard(r) ==
  /\ work[r].op = "commit"
  /\ crossed' = [crossed EXCEPT ![work[r].on] = TRUE]
  /\ Rest(r)
  /\ UNCHANGED <<settings, key, memory>>

Forget(is) ==
  /\ cache' = [i \in Instances |-> IF i \in is THEN Nothing ELSE cache[i]]
  /\ version' = [i \in Instances |-> IF i \in is THEN 0 ELSE version[i]]
  /\ client' = [i \in Instances |-> IF i \in is THEN Nothing ELSE client[i]]
  /\ builtFor' = [i \in Instances |-> IF i \in is THEN -1 ELSE builtFor[i]]
  /\ work' = [r \in Requests |-> IF work[r].on \in is THEN NoWork ELSE work[r]]
  /\ crossed' = [i \in Instances |-> crossed[i] /\ i \notin is]

Restart(i) ==
  /\ Forget({i})
  /\ UNCHANGED <<settings, key>>

\* The key is an environment variable: everything restarts with the new one, and the
\* secret is lost until it is entered again.
Rekey ==
  /\ key < MaxKey
  /\ key' = key + 1
  /\ Forget(Instances)
  /\ UNCHANGED settings

Next ==
  \/ \E i \in Instances : ResolveCached(i) \/ Restart(i)
  \/ \E r \in Requests :
       \/ \E i \in Instances : Ask(r, i)
       \/ Read(r)
       \/ Fill(r)
       \/ \E i \in Instances, bucket \in 1..MaxValue, secret \in 0..MaxValue : Commit(r, i, bucket, secret)
       \/ Invalidate(r)
       \/ Unheard(r)
  \/ Rekey

Spec == Init /\ [][Next]_settingsVars

Values == [bucket : -1..MaxValue, secret : -1..MaxValue]

TypeOK ==
  /\ settings \in [bucket : 0..MaxValue, secret : 0..MaxValue, sealedBy : 1..MaxKey]
  /\ key \in 1..MaxKey
  /\ cache \in [Instances -> Values] /\ client \in [Instances -> Values]
  /\ version \in [Instances -> 0..MaxVersion] /\ builtFor \in [Instances -> -1..MaxVersion]
  /\ work \in [Requests -> [op : {"idle", "ask", "read", "commit"}, on : Instances, got : Values]]
  /\ crossed \in [Instances -> BOOLEAN]

\* An instance that is at rest works with the settings as they are, client and cache,
\* from the last change it made itself, unless a reading of its own overlapped that
\* change or another instance has made one since (storage.service 41-42).
CacheFollows ==
  \A i \in Instances :
    On(i) = {} /\ ~crossed[i] =>
      /\ cache[i] # Nothing => cache[i] = Decrypted
      /\ Fits(i) => client[i] = Decrypted

SettingsHold == TypeOK /\ CacheFollows
=============================================================================
