------------------------ MODULE ProviderConnections ------------------------
(***************************************************************************)
(* The Connection Manager: connections/service.ts, repository.ts,          *)
(* resolver.ts and import-env.ts. The module is one connection type: rows, *)
(* cache entry and lookups of different types never meet. A row is what it *)
(* takes to reach the provider (its shape: settings and sealed secrets),   *)
(* whether it is enabled, and what the last probe of it said.              *)
(*                                                                         *)
(* Requests edit and probe rows in several statements, each of which may   *)
(* fail, while lookups read the row in use in two statements and cache     *)
(* what they read for 15 seconds. The import is another process, whose     *)
(* writes the cache never hears of.                                        *)
(*                                                                         *)
(* Left out: names (a taken name is one way an INSERT fails), environments *)
(* of the rows (they decide who sees a row and never change), latencies    *)
(* and messages, and the difference between connected and degraded.        *)
(***************************************************************************)
EXTENDS Naturals

CONSTANTS
  Ids,                 \* row ids, each given out once
  Requests,            \* requests being handled at once
  Lookups,             \* calls of resolve being handled at once
  Fields, Required,    \* of the type's configuration, and those of them it needs
  SecretFields,        \* of its secret bundle
  Values,
  Absent,              \* a field that is not there, or not sent
  Fallback,            \* what fromEnvironment(type) gives
  CredentialOptional,  \* may a row of this type carry no credential?
  NoId,
  MaxRequests          \* bound on the requests of a behaviour

VARIABLES
  rows,      \* the rows of connections
  newer,     \* updated_at, as the order it gives the rows
  entry,     \* the entry of the resolver's cache
  lookups,   \* the calls of resolve in flight
  requests,  \* the requests in flight
  made       \* how many requests have been made
vars == <<rows, newer, entry, lookups, requests, made>>

Shape == [settings : [Fields -> Values \union {Absent}],
          secrets : [SecretFields -> Values \union {Absent}]]
Nothing == [settings |-> [f \in Fields |-> Absent],
            secrets |-> [f \in SecretFields |-> Absent]]

\* Where a configuration came from, and the configuration.
Resolution == [source : Ids \union {"environment", "none"}, shape : Shape]

ASSUME FallbackAssumption ==
  Fallback \in [source : {"environment", "none"}, shape : Shape]
ASSUME RequiredAssumption == Required \subseteq Fields
ASSUME NoIdAssumption == NoId \notin Ids
ASSUME SourceAssumption == "environment" \notin Ids /\ "none" \notin Ids
ASSUME OptionalAssumption == CredentialOptional \in BOOLEAN
ASSUME BoundAssumption == MaxRequests \in Nat

(***************************************************************************)
(* "saved" and "pending" are the row and its credential_ref. The history   *)
(* in a row: the shape its status is about, and whether that status was    *)
(* recorded over a row that somebody else had written meanwhile.           *)
(***************************************************************************)
Row == [state : {"unused", "saved", "removed"}, shape : Shape,
        pending : BOOLEAN, enabled : BOOLEAN,
        status : {"not_tested", "connected", "offline"},
        probed : Shape, raced : BOOLEAN]
NoRow == [state |-> "unused", shape |-> Nothing, pending |-> FALSE, enabled |-> FALSE,
          status |-> "not_tested", probed |-> Nothing, raced |-> FALSE]

\* clean, a history: nothing was written since this was read.
Entry == [present : BOOLEAN, resolved : Resolution, clean : BOOLEAN]
NoEntry == [present |-> FALSE, resolved |-> Fallback, clean |-> FALSE]

Lookup == [step : {"idle", "find", "secrets", "store"}, resolved : Resolution,
           clean : BOOLEAN]
NoLookup == [step |-> "idle", resolved |-> Fallback, clean |-> FALSE]

(***************************************************************************)
(* What a request asked for (sent), the row as it read it (seen), and two  *)
(* histories: it wrote and has not invalidated the cache (dirty), and no   *)
(* other request edited its row since it read it (clean).                  *)
(***************************************************************************)
Request == [op : {"none", "test", "update", "enable", "disable", "remove",
                  "create", "import"},
            step : {"idle", "credentials", "insert", "seal", "write", "reload",
                    "record", "invalidate"},
            id : Ids \union {NoId}, sent : Shape, seen : Shape,
            dirty : BOOLEAN, clean : BOOLEAN]
Idle == [op |-> "none", step |-> "idle", id |-> NoId, sent |-> Nothing,
         seen |-> Nothing, dirty |-> FALSE, clean |-> FALSE]

TypeOK ==
  /\ rows \in [Ids -> Row]
  /\ newer \subseteq Ids \X Ids
  /\ entry \in Entry
  /\ lookups \in [Lookups -> Lookup]
  /\ requests \in [Requests -> Request]
  /\ made \in Nat

----------------------------------------------------------------------------
Saved == {i \in Ids : rows[i].state = "saved"}
Enabled == {i \in Saved : rows[i].enabled}

HasSecrets(shape) == \E f \in SecretFields : shape.secrets[f] # Absent
HasSettings(shape) == \E f \in Fields : shape.settings[f] # Absent

\* Seeded bug: the stored object is replaced by the one sent.
Replaced(old, new) == [f \in DOMAIN old |-> new[f]]

\* { ...old, ...new }
Merged(old, new) == [f \in DOMAIN old |-> IF new[f] = Absent THEN old[f] ELSE new[f]]

\* The trigger sets updated_at on every UPDATE, whatever it writes.
Touched(i) == {p \in newer : p[1] # i /\ p[2] # i} \union ({i} \X (Ids \ {i}))

IsNewest(i) == i \in Enabled /\ \A j \in Enabled \ {i} : <<i, j>> \in newer

\* What a lookup that reads everything now would give.
IsCurrent(r) ==
  IF r.source \in Ids
    THEN IsNewest(r.source) /\ r.shape = rows[r.source].shape
    ELSE Enabled = {} /\ r = Fallback

----------------------------------------------------------------------------
Orders == {o \in SUBSET (Ids \X Ids) :
             \A i, j \in Ids :
               /\ <<i, i>> \notin o
               /\ i # j => (<<i, j>> \in o <=> <<j, i>> \notin o)
               /\ \A k \in Ids : <<i, j>> \in o /\ <<j, k>> \in o => <<i, k>> \in o}

\* What the schema of the type accepts.
IsComplete(shape) == \A f \in Required : shape.settings[f] # Absent

\* A console that was set up before: some rows, tested if they are enabled.
Init ==
  /\ \E old, on \in SUBSET Ids, shape \in Shape :
       /\ IsComplete(shape)
       /\ HasSecrets(shape) \/ CredentialOptional
       /\ rows = [i \in Ids |->
            IF i \in old
              THEN [NoRow EXCEPT !.state = "saved", !.shape = shape, !.enabled = (i \in on),
                                 !.status = IF i \in on THEN "connected" ELSE "not_tested",
                                 !.probed = shape]
              ELSE NoRow]
  /\ newer \in Orders
  /\ entry = NoEntry
  /\ lookups = [l \in Lookups |-> NoLookup]
  /\ requests = [h \in Requests |-> Idle]
  /\ made = 0

----------------------------------------------------------------------------
(* The resolver. *)

\* The cached configuration is no longer good.
Expire ==
  /\ entry.present
  /\ entry' = NoEntry
  /\ UNCHANGED <<rows, newer, lookups, requests, made>>

Lookup_(l, q) == lookups' = [lookups EXCEPT ![l] = q]

Miss(l) ==
  /\ lookups[l].step = "idle"
  /\ ~entry.present
  /\ Lookup_(l, [NoLookup EXCEPT !.step = "find"])
  /\ UNCHANGED <<rows, newer, entry, requests, made>>

\* findActive: of the enabled rows, the one that was updated last.
FindActive(l) ==
  /\ lookups[l].step = "find"
  /\ \/ \E i \in Ids :
          /\ IsNewest(i)
          /\ Lookup_(l, [step |-> "secrets", clean |-> TRUE,
                         resolved |-> [source |-> i, shape |->
                           [rows[i].shape EXCEPT !.secrets = Nothing.secrets]]])
     \/ /\ Enabled = {}
        /\ Lookup_(l, [step |-> "store", clean |-> TRUE, resolved |-> Fallback])
  /\ UNCHANGED <<rows, newer, entry, requests, made>>

\* credentialsFor: the row is read again, by its id.
ReadSecrets(l) ==
  LET i == lookups[l].resolved.source IN
  /\ lookups[l].step = "secrets"
  /\ rows[i].state = "saved"
  /\ Lookup_(l, [lookups[l] EXCEPT !.step = "store",
                                   !.resolved.shape.secrets = rows[i].shape.secrets])
  /\ UNCHANGED <<rows, newer, entry, requests, made>>

\* A row that is gone, a secret that does not open or a database that does not
\* answer: the environment serves instead.
FallBack(l) ==
  /\ lookups[l].step \in {"find", "secrets"}
  /\ Lookup_(l, [step |-> "store", resolved |-> Fallback, clean |-> FALSE])
  /\ UNCHANGED <<rows, newer, entry, requests, made>>

Store(l) ==
  /\ lookups[l].step = "store"
  /\ entry' = [present |-> TRUE, resolved |-> lookups[l].resolved,
               clean |-> lookups[l].clean]
  /\ Lookup_(l, NoLookup)
  /\ UNCHANGED <<rows, newer, requests, made>>

----------------------------------------------------------------------------
(* The requests. *)

Began(h, q) ==
  /\ requests[h].step = "idle"
  /\ made < MaxRequests
  /\ made' = made + 1
  /\ requests' = [requests EXCEPT ![h] = q]
  /\ UNCHANGED <<rows, newer, entry, lookups>>

BeginTest(h) == \E i \in Saved :
  Began(h, [Idle EXCEPT !.op = "test", !.step = "credentials", !.id = i, !.clean = TRUE,
                        !.seen = [rows[i].shape EXCEPT !.secrets = Nothing.secrets]])

\* requireConnection and loadRow of update; a field that is Absent is not sent.
BeginUpdate(h) == \E i \in Saved, sent \in Shape :
  Began(h, [Idle EXCEPT !.op = "update", !.step = "write", !.id = i, !.clean = TRUE,
                        !.sent = sent, !.seen = rows[i].shape])

BeginSwitch(h) == \E i \in Saved, op \in {"enable", "disable", "remove"} :
  Began(h, [Idle EXCEPT !.op = op, !.step = "write", !.id = i, !.clean = TRUE,
                        !.sent = Nothing, !.seen = rows[i].shape])

\* The test of the candidate has passed: a failed one ends the request.
BeginCreate(h) == \E sent \in Shape :
  /\ IsComplete(sent)
  /\ Began(h, [Idle EXCEPT !.op = "create", !.step = "insert", !.sent = sent, !.clean = TRUE])

\* The import found the environment in use, and its test has passed. Rows may be
\* there: of another environment, made since it looked, or not readable then.
BeginImport(h) ==
  /\ Fallback.source = "environment"
  /\ Began(h, [Idle EXCEPT !.op = "import", !.step = "insert", !.sent = Fallback.shape,
                           !.clean = TRUE])

ReadCredentials(h) ==
  LET i == requests[h].id IN
  /\ requests[h].step = "credentials"
  /\ rows[i].state = "saved"
  /\ requests' = [requests EXCEPT ![h].step = "record",
                                  ![h].seen.secrets = rows[i].shape.secrets]
  /\ UNCHANGED <<rows, newer, entry, lookups, made>>

(***************************************************************************)
(* A statement of request h leaves row i as the given row, and the request *)
(* as q. Lookups that have read rows are overtaken by it, and so are the   *)
(* other requests that read this row, unless it only records a probe.      *)
(***************************************************************************)
Writes(h, i, row, q) ==
  /\ rows' = [rows EXCEPT ![i] = row]
  /\ newer' = Touched(i)
  /\ lookups' = [l \in Lookups |-> [lookups[l] EXCEPT !.clean = FALSE]]
  /\ requests' = [g \in Requests |->
       IF g = h THEN [q EXCEPT !.dirty = (requests[h].op # "import")]
       ELSE IF requests[g].id = i /\ requests[h].step # "record"
         THEN [requests[g] EXCEPT !.clean = FALSE]
         ELSE requests[g]]
  /\ entry' = IF requests[h].op = "import" THEN [entry EXCEPT !.clean = FALSE] ELSE entry
  /\ UNCHANGED made

\* The row of an UPDATE is gone: nothing is written.
WritesNothing(h, q) ==
  /\ requests' = [requests EXCEPT ![h] = q]
  /\ UNCHANGED <<rows, newer, entry, lookups, made>>

\* The row before its secrets, which are sealed against the new id.
Inserted(q) ==
  [state |-> "saved", shape |-> [q.sent EXCEPT !.secrets = Nothing.secrets],
   pending |-> HasSecrets(q.sent), enabled |-> TRUE,
   status |-> IF q.op = "import" THEN "connected" ELSE "not_tested",
   probed |-> q.sent, raced |-> FALSE]

Insert(h) ==
  LET q == requests[h] IN
  /\ q.step = "insert"
  /\ HasSecrets(q.sent) \/ CredentialOptional
  /\ \E i \in Ids :
       /\ rows[i].state = "unused"
       /\ Writes(h, i, Inserted(q),
            IF HasSecrets(q.sent) THEN [q EXCEPT !.id = i, !.step = "seal"]
            ELSE IF q.op = "import" THEN Idle
            ELSE [q EXCEPT !.id = i, !.step = "reload"])

Sealed(row, q) ==
  [row EXCEPT !.shape.secrets = q.sent.secrets, !.pending = FALSE,
              !.raced = @ \/ ~q.clean]

Seal(h) ==
  LET q == requests[h]
      next == IF q.op = "import" THEN Idle ELSE [q EXCEPT !.step = "reload"] IN
  /\ q.step = "seal"
  /\ IF rows[q.id].state = "saved"
       THEN Writes(h, q.id, Sealed(rows[q.id], q), next)
       ELSE WritesNothing(h, next)

\* Seeded bug: only a change of the settings resets the status.
PatchedAsTested(row, q) ==
  [row EXCEPT
    !.shape.settings = IF HasSettings(q.sent)
                         THEN Merged(q.seen.settings, q.sent.settings) ELSE @,
    !.shape.secrets = IF HasSecrets(q.sent)
                        THEN Merged(q.seen.secrets, q.sent.secrets) ELSE @,
    !.pending = @ /\ ~HasSecrets(q.sent),
    !.status = IF HasSettings(q.sent) THEN "not_tested" ELSE @,
    !.raced = IF HasSettings(q.sent) THEN FALSE ELSE @]

\* A new shape has not been tested; a mere renaming leaves the status.
Patched(row, q) ==
  IF HasSettings(q.sent) \/ HasSecrets(q.sent)
    THEN [row EXCEPT
           !.shape = [settings |-> IF HasSettings(q.sent)
                                     THEN Merged(q.seen.settings, q.sent.settings)
                                     ELSE row.shape.settings,
                      secrets |-> IF HasSecrets(q.sent)
                                    THEN Merged(q.seen.secrets, q.sent.secrets)
                                    ELSE row.shape.secrets],
           !.pending = @ /\ ~HasSecrets(q.sent),
           !.status = "not_tested", !.raced = FALSE]
    ELSE row

\* Seeded bug: disabling writes a status that the column does not know.
SwitchedToDisabled(row, q) ==
  IF q.op = "enable" THEN [row EXCEPT !.enabled = TRUE]
  ELSE [row EXCEPT !.enabled = FALSE, !.status = "disabled"]

Switched(row, q) ==
  IF q.op = "enable" THEN [row EXCEPT !.enabled = TRUE]
  ELSE [row EXCEPT !.enabled = FALSE, !.status = "not_tested"]

\* An update that sends neither settings nor secrets may still send a name.
Write(h) ==
  LET q == requests[h]
      row == rows[q.id]
      next == [q EXCEPT !.step = IF q.op = "remove" THEN "invalidate" ELSE "reload"] IN
  /\ q.step = "write"
  /\ \/ /\ row.state = "saved"
        /\ Writes(h, q.id,
             CASE q.op = "update" -> Patched(row, q)
               [] q.op = "remove" -> [NoRow EXCEPT !.state = "removed"]
               [] OTHER -> Switched(row, q),
             next)
     \/ /\ row.state # "saved" \/ (q.op = "update" /\ q.sent = Nothing)
        /\ WritesNothing(h, next)

\* loadRow after the write: a row that is gone ends the request (Fail).
Reload(h) ==
  LET q == requests[h] IN
  /\ q.step = "reload"
  /\ rows[q.id].state = "saved"
  /\ requests' = [requests EXCEPT
       ![h].step = IF q.op = "create" THEN "record" ELSE "invalidate"]
  /\ UNCHANGED <<rows, newer, entry, lookups, made>>

\* recordProbe. A candidate was tested as sent, a row as it was read.
Probed(row, q, status) ==
  [row EXCEPT !.status = status, !.raced = ~q.clean \/ row.pending,
              !.probed = IF q.op = "create" THEN q.sent ELSE q.seen]

Record(h) ==
  LET q == requests[h] IN
  /\ q.step = "record"
  /\ IF rows[q.id].state = "saved"
       THEN \E status \in {"connected", "offline"} :
              /\ q.op = "create" => status = "connected"
              /\ Writes(h, q.id, Probed(rows[q.id], q, status), [q EXCEPT !.step = "invalidate"])
       ELSE WritesNothing(h, [q EXCEPT !.step = "invalidate"])

\* Seeded bug: a probe is taken for a request that changes nothing.
InvalidatedUnlessTest(q) == IF q.op = "test" THEN entry ELSE NoEntry

\* The entry after resolver.invalidate.
Invalidated(q) == NoEntry

Invalidate(h) ==
  /\ requests[h].step = "invalidate"
  /\ entry' = Invalidated(requests[h])
  /\ requests' = [requests EXCEPT ![h] = Idle]
  /\ UNCHANGED <<rows, newer, lookups, made>>

\* A statement fails, or its answer is lost: the rest of the request is not run.
Fail(h) ==
  /\ requests[h].step # "idle"
  /\ entry' = IF requests[h].dirty THEN [entry EXCEPT !.clean = FALSE] ELSE entry
  /\ requests' = [requests EXCEPT ![h] = Idle]
  /\ UNCHANGED <<rows, newer, lookups, made>>

\* The console dies, with its cache; an import runs on.
Die ==
  /\ entry' = NoEntry
  /\ lookups' = [l \in Lookups |-> NoLookup]
  /\ requests' = [h \in Requests |->
                    IF requests[h].op = "import" THEN requests[h] ELSE Idle]
  /\ UNCHANGED <<rows, newer, made>>

----------------------------------------------------------------------------
Resolve(l) == Miss(l) \/ FindActive(l) \/ ReadSecrets(l) \/ FallBack(l) \/ Store(l)

Begin(h) == BeginTest(h) \/ BeginUpdate(h) \/ BeginSwitch(h) \/ BeginCreate(h) \/ BeginImport(h)

Handle(h) ==
  \/ ReadCredentials(h) \/ Insert(h) \/ Seal(h) \/ Write(h) \/ Reload(h)
  \/ Record(h) \/ Invalidate(h) \/ Fail(h)

Next ==
  \/ Expire \/ Die
  \/ \E l \in Lookups : Resolve(l)
  \/ \E h \in Requests : Begin(h) \/ Handle(h)

Spec == Init /\ [][Next]_vars

----------------------------------------------------------------------------
(***************************************************************************)
(* The cache serves the settings and the secrets of the row that is in use *)
(* now, unless the lookup that stored them was overtaken by a write or     *)
(* fell back, or a request has written and has not cleared the cache yet.  *)
(* So without overlap a change takes effect when its request ends.         *)
(***************************************************************************)
OnlyOvertakenLookupsAreStale ==
  entry.present /\ entry.clean /\ (\A h \in Requests : ~requests[h].dirty)
    => IsCurrent(entry.resolved)

(***************************************************************************)
(* A row that shows the outcome of a probe was probed in the shape it has  *)
(* (an update resets the status), unless the probe and a write of the row  *)
(* overlapped.                                                             *)
(***************************************************************************)
StatusIsOfThisShape ==
  \A i \in Saved :
    rows[i].status # "not_tested" /\ ~rows[i].raced /\ ~rows[i].pending
      => rows[i].probed = rows[i].shape

\* Request h is about to write an update over the row it read.
UpdatesUndisturbed(h, i) ==
  /\ requests[h].op = "update" /\ requests[h].step = "write"
  /\ requests[h].id = i /\ requests[h].clean

(***************************************************************************)
(* An update changes the fields it was sent and no other, in the settings  *)
(* and in the secret bundle, unless another write of the row came between  *)
(* its read and its write.                                                 *)
(***************************************************************************)
UpdatesKeepTheRest ==
  [][\A h \in Requests, i \in Saved :
       UpdatesUndisturbed(h, i) /\ requests'[h].step = "reload" =>
         LET sent == requests[h].sent IN
         /\ \A f \in Fields : rows'[i].shape.settings[f] =
              IF sent.settings[f] = Absent THEN rows[i].shape.settings[f] ELSE sent.settings[f]
         /\ \A f \in SecretFields : rows'[i].shape.secrets[f] =
              IF sent.secrets[f] = Absent THEN rows[i].shape.secrets[f] ELSE sent.secrets[f]]_vars

(***************************************************************************)
(* "Testing counts as viewing -- it makes no change" (lines 22 and 23 of   *)
(* routes/connections.ts): the test of a row leaves the row in use where   *)
(* it is. It does not: recording the outcome sets updated_at, by which     *)
(* findActive chooses between the enabled rows. No run is spent on it.     *)
(***************************************************************************)
TestingMakesNoChange ==
  [][\A h \in Requests : requests[h].op = "test" /\ requests[h].step = "record" =>
       \A i \in Ids : IsNewest(i) /\ requests'[h].step = "invalidate" => IsNewest(i)']_vars

\* The tables keep their types, the cache serves what they say, and so does a status.
CacheInvariant == TypeOK /\ OnlyOvertakenLookupsAreStale /\ StatusIsOfThisShape
=============================================================================
