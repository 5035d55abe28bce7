--------------------------- MODULE QueryExecution ---------------------------
(***************************************************************************)
(* Statements run on the managed databases, and the write windows they     *)
(* need: providers/databases/policy.ts and query-executor.ts, with the     *)
(* execute and write-window routes of routes/databases.ts.                 *)
(*                                                                         *)
(* A request is split at its awaits: a statement reads its connection row, *)
(* is judged (which may read a window), gets a session and runs; opening a *)
(* window reads the row, inserts the window, writes its audit event and,   *)
(* when that fails, revokes. The history and audit records a statement     *)
(* leaves behind feed nothing back and are left out; so are the pools      *)
(* themselves, of which only the mode of the session counts here.          *)
(***************************************************************************)
EXTENDS Naturals, FiniteSets

CONSTANTS Users, Connections,
          Queries,           \* POST /execute requests, each served once
          Activations,       \* POST /write-windows requests served at once
          WindowIds,         \* primary keys of database_write_windows
          NoWindow,          \* no window found
          Environment,       \* connection -> its environment
          UserEnvironments,  \* user -> environments the user's roles cover
          Permissions,       \* user -> database permissions the user's roles carry
          LostLayers         \* read-only layers of a session assumed not to work

Environments == {"development", "testing", "staging", "production"}
DatabasePermissions == {"database.view", "database.query", "database.write", "database.admin"}
Classifications == {"READ", "WRITE", "DDL", "DESTRUCTIVE", "UNKNOWN"}
Layers == {"pool", "guards", "transaction"}

ASSUME QueryAssumption ==
  /\ NoWindow \notin WindowIds
  /\ Environment \in [Connections -> Environments]
  /\ UserEnvironments \in [Users -> SUBSET Environments]
  /\ Permissions \in [Users -> SUBSET DatabasePermissions]
  /\ LostLayers \subseteq Layers

VARIABLES
  overrides,    \* connection -> its read_only_override, "derived" standing for NULL
  windows,      \* id -> its row, or NoRow
  queries,      \* the statements
  activations   \* the requests for a window being served

vars == <<overrides, windows, queries, activations>>

Overrides == {"derived", "readOnly", "writable"}

\* `live` is un-revoked and unexpired; `audit` is the fate of the activation's event.
Window == [user : Users, connection : Connections, live : BOOLEAN,
           audit : {"pending", "written", "failed"}]
NoRow == [live |-> FALSE]

\* `override` is the connection row as the request read it, `changes` whether the
\* statement would change anything, `changed` whether it did.
Query == [step : {"submitted", "allowed", "connected", "ended"},
          user : Users, connection : Connections, override : Overrides,
          class : Classifications, changes : BOOLEAN, readOnlySession : BOOLEAN,
          window : WindowIds \union {NoWindow}, changed : BOOLEAN]

Activation == [step : {"found", "inserted", "unaudited"}, user : Users,
               connection : Connections, override : Overrides,
               window : WindowIds \union {NoWindow}]

Idle == [step |-> "idle"]

TypeOK ==
  /\ overrides \in [Connections -> Overrides]
  /\ windows \in [WindowIds -> Window \union {NoRow}]
  /\ queries \in [Queries -> Query \union {Idle}]
  /\ activations \in [Activations -> Activation \union {Idle}]

Init ==
  /\ overrides \in [Connections -> Overrides]
  /\ windows = [w \in WindowIds |-> NoRow]
  /\ queries = [q \in Queries |-> Idle]
  /\ activations = [a \in Activations |-> Idle]

\* A session is built to stay read-only when any two of its layers fail, not three.
OneLayerWorks == LostLayers # Layers

----------------------------------------------------------------------------
\* Who may do what.

Works(layer) == layer \notin LostLayers

IsProduction(c) == Environment[c] = "production"

\* requireConnection answers 404 outside the user's environments.
Visible(u, c) == Environment[c] \in UserEnvironments[u]

RequiredPermission(c) == IF IsProduction(c) THEN "database.admin" ELSE "database.write"

IsReadOnlyByDefault(c, override) ==
  \/ override = "readOnly"
  \/ override = "derived" /\ IsProduction(c)

\* What evaluate asks before it looks for a window.
MayChange(query) ==
  LET c == query.connection IN
  /\ query.class \in {"WRITE", "DDL", "DESTRUCTIVE"}
  /\ RequiredPermission(c) \in Permissions[query.user]
  /\ IsReadOnlyByDefault(c, query.override) => IsProduction(c)
  /\ query.class \in {"DDL", "DESTRUCTIVE"} /\ IsProduction(c) => query.override = "writable"
  /\ query.class = "DESTRUCTIVE" => "database.admin" \in Permissions[query.user]

Rows == {w \in WindowIds : windows[w] # NoRow}

\* Seeded bug: anybody's window on the connection will do.
LiveWindowsOfAnyone(u, c) == {w \in Rows : windows[w].connection = c /\ windows[w].live}

LiveWindows(u, c) ==
  {w \in Rows : /\ windows[w].user = u /\ windows[w].connection = c
                /\ windows[w].live}

----------------------------------------------------------------------------
\* POST /execute.

Submit(q, u, c, class, changes) ==
  /\ queries[q] = Idle
  /\ "database.query" \in Permissions[u]
  /\ Visible(u, c)
  /\ queries' = [queries EXCEPT ![q] =
       [step |-> "submitted", user |-> u, connection |-> c, override |-> overrides[c],
        class |-> class, changes |-> changes, readOnlySession |-> TRUE,
        window |-> NoWindow, changed |-> FALSE]]
  /\ UNCHANGED <<overrides, windows, activations>>

\* evaluate: a read needs no window; a change needs one, any live one will do.
Allow(q) ==
  /\ queries[q].step = "submitted"
  /\ \/ /\ queries[q].class = "READ"
        /\ queries' = [queries EXCEPT ![q].step = "allowed"]
     \/ /\ MayChange(queries[q])
        /\ \E w \in LiveWindows(queries[q].user, queries[q].connection) :
             queries' = [queries EXCEPT ![q].step = "allowed", ![q].window = w,
                                        ![q].readOnlySession = FALSE]
  /\ UNCHANGED <<overrides, windows, activations>>

Refuse(q) ==
  /\ queries[q].step = "submitted"
  /\ queries[q].class # "READ"
  /\ \/ ~MayChange(queries[q])
     \/ LiveWindows(queries[q].user, queries[q].connection) = {}
  /\ queries' = [queries EXCEPT ![q].step = "ended"]
  /\ UNCHANGED <<overrides, windows, activations>>

\* getTargetPool, connect and applySessionGuards.
Connect(q) ==
  /\ queries[q].step = "allowed"
  /\ queries' = [queries EXCEPT ![q].step = "connected"]
  /\ UNCHANGED <<overrides, windows, activations>>

\* Seeded bug: a read starts no transaction of its own.
SessionRefusesWithoutTransaction(query) ==
  query.readOnlySession /\ (Works("pool") \/ Works("guards"))

\* PostgreSQL refuses changes on a connection opened with default_transaction_read_only,
\* after SET default_transaction_read_only, and after BEGIN READ ONLY.
SessionRefusesChanges(query) ==
  \/ query.readOnlySession /\ (Works("pool") \/ Works("guards"))
  \/ query.class = "READ" /\ Works("transaction")

\* The statement commits, whether or not its answer gets back.
Run(q) ==
  /\ queries[q].step = "connected"
  /\ queries' = [queries EXCEPT
       ![q].step = "ended",
       ![q].changed = queries[q].changes /\ ~SessionRefusesChanges(queries[q])]
  /\ UNCHANGED <<overrides, windows, activations>>

\* The target cannot be reached, a statement fails or times out, the process dies.
FailQuery(q) ==
  /\ queries[q].step \in {"submitted", "allowed", "connected"}
  /\ queries' = [queries EXCEPT ![q].step = "ended"]
  /\ UNCHANGED <<overrides, windows, activations>>

----------------------------------------------------------------------------
\* POST and DELETE /write-windows.

RequestWindow(a, u, c) ==
  /\ activations[a] = Idle
  /\ "database.write" \in Permissions[u]
  /\ Visible(u, c)
  /\ activations' = [activations EXCEPT ![a] =
       [step |-> "found", user |-> u, connection |-> c, override |-> overrides[c],
        window |-> NoWindow]]
  /\ UNCHANGED <<overrides, windows, queries>>

\* activateWriteWindow, with the right connection name typed: otherwise it refuses.
OpenWindow(a) ==
  /\ activations[a].step = "found"
  /\ RequiredPermission(activations[a].connection) \in Permissions[activations[a].user]
  /\ activations[a].override # "readOnly"
  /\ \E w \in WindowIds \ Rows :
       /\ windows' = [windows EXCEPT ![w] =
            [user |-> activations[a].user, connection |-> activations[a].connection,
             live |-> TRUE, audit |-> "pending"]]
       /\ activations' = [activations EXCEPT ![a].step = "inserted", ![a].window = w]
  /\ UNCHANGED <<overrides, queries>>

\* The strict audit event of the activation is written, or fails.
AuditWindow(a) ==
  /\ activations[a].step = "inserted"
  /\ \/ /\ windows' = [windows EXCEPT ![activations[a].window].audit = "written"]
        /\ activations' = [activations EXCEPT ![a] = Idle]
     \/ /\ windows' = [windows EXCEPT ![activations[a].window].audit = "failed"]
        /\ activations' = [activations EXCEPT ![a].step = "unaudited"]
  /\ UNCHANGED <<overrides, queries>>

\* Seeded bug: only the rows the statement updated are kept.
ClosedRowsOnly(u, c) ==
  [w \in LiveWindows(u, c) |-> [windows[w] EXCEPT !.live = FALSE]]

Closed(u, c) ==
  [w \in WindowIds |-> IF w \in LiveWindows(u, c) THEN [windows[w] EXCEPT !.live = FALSE]
                                                  ELSE windows[w]]

\* revokeWriteWindows, after which the audit failure is thrown.
RollBackWindow(a) ==
  /\ activations[a].step = "unaudited"
  /\ windows' = Closed(activations[a].user, activations[a].connection)
  /\ activations' = [activations EXCEPT ![a] = Idle]
  /\ UNCHANGED <<overrides, queries>>

\* A refusal (of the name typed, the role, the connection), a statement that fails (the
\* one that revokes included) or the death of the process ends the request.
EndActivation(a) ==
  /\ activations[a] # Idle
  /\ activations' = [activations EXCEPT ![a] = Idle]
  /\ UNCHANGED <<overrides, windows, queries>>

CloseWindow(u, c) ==
  /\ "database.view" \in Permissions[u]
  /\ Visible(u, c)
  /\ LiveWindows(u, c) # {}
  /\ windows' = Closed(u, c)
  /\ UNCHANGED <<overrides, queries, activations>>

Expire(w) ==
  /\ windows[w].live
  /\ windows' = [windows EXCEPT ![w].live = FALSE]
  /\ UNCHANGED <<overrides, queries, activations>>

\* PATCH /connections/:id; windows stay as they are.
SetOverride(u, c, override) ==
  /\ "database.admin" \in Permissions[u]
  /\ Visible(u, c)
  /\ overrides' = [overrides EXCEPT ![c] = override]
  /\ UNCHANGED <<windows, queries, activations>>

Next ==
  \/ \E q \in Queries, u \in Users, c \in Connections, class \in Classifications,
        changes \in BOOLEAN : Submit(q, u, c, class, changes)
  \/ \E q \in Queries : Allow(q) \/ Refuse(q) \/ Connect(q) \/ Run(q) \/ FailQuery(q)
  \/ \E a \in Activations, u \in Users, c \in Connections : RequestWindow(a, u, c)
  \/ \E a \in Activations : OpenWindow(a) \/ AuditWindow(a) \/ RollBackWindow(a)
                              \/ EndActivation(a)
  \/ \E u \in Users, c \in Connections : CloseWindow(u, c)
  \/ \E w \in WindowIds : Expire(w)
  \/ \E u \in Users, c \in Connections, override \in Overrides : SetOverride(u, c, override)

Spec == Init /\ [][Next]_vars

----------------------------------------------------------------------------
\* Properties.

\* A statement the classifier took for a read changes nothing, even when it would and
\* two of the three read-only layers of its session do not work (the pool's option,
\* applySessionGuards, BEGIN READ ONLY; query-executor.ts:33 "Even a misclassified write
\* would be refused by PostgreSQL").
ReadsNeverChange ==
  \A q \in Queries : queries[q] # Idle /\ queries[q].changed => queries[q].class # "READ"

\* Whatever changed a database was run by a user with the permission its environment
\* asks for, under a window that user opened on that very connection; and it changed
\* a production schema only where the connection was marked writable. Windows open,
\* expire and are revoked, and connections are patched, while the statement runs.
Authorised(query) ==
  LET c == query.connection IN
  /\ Visible(query.user, c)
  /\ RequiredPermission(c) \in Permissions[query.user]
  /\ query.window \in Rows
  /\ windows[query.window].user = query.user
  /\ windows[query.window].connection = c
  /\ IsProduction(c) /\ query.class # "WRITE" => query.override = "writable"

ChangesAreAuthorised ==
  \A q \in Queries :
    queries[q] # Idle /\ queries[q].changed /\ queries[q].class # "READ" => Authorised(queries[q])

\* What is known of a statement between its judgement and its end.
Judged(query) ==
  \/ /\ query.class = "READ" /\ query.readOnlySession
     /\ ~query.changed
  \/ MayChange(query) /\ Authorised(query)

StatementsAreJudged ==
  \A q \in Queries :
    queries[q] # Idle =>
      /\ Visible(queries[q].user, queries[q].connection)
      /\ queries[q].step = "submitted" => queries[q].readOnlySession /\ ~queries[q].changed
      /\ queries[q].step \in {"allowed", "connected"} \/ queries[q].changed => Judged(queries[q])

\* The two properties above, with the inductive invariant behind them.
QueryInvariant == TypeOK /\ StatementsAreJudged /\ ReadsNeverChange /\ ChangesAreAuthorised

\* database/migrations/0005_databases.sql:32: "TRUE forces read-only". `override` is
\* what the request itself read.
ForcedReadOnlyHolds ==
  \A q \in Queries :
    queries[q] # Idle /\ queries[q].changed => queries[q].override # "readOnly"

\* routes/databases.ts:387-388: "if this audit write fails the window is rolled back".
UnauditedWindowsAreClosed ==
  \A w \in Rows : windows[w].live /\ windows[w].audit = "failed" =>
    \E a \in Activations : activations[a] # Idle /\ activations[a].window = w
=============================================================================
