---------------------------- MODULE TargetPools ----------------------------
(***************************************************************************)
(* The registry of managed databases and the pools of sessions on them:    *)
(* providers/databases/connection-manager.ts, the routes that change a     *)
(* connection, the housekeeping of GET /health and the shutdown of         *)
(* index.ts. There is one pool per connection and access mode, kept in a   *)
(* map that requests, updates, deletions, the reaper and the shutdown      *)
(* change while others wait for a statement or for a pool to end.          *)
(*                                                                         *)
(* A request that reads through a pool (a statement, a page of the data    *)
(* browser, one of the parallel reads of the explorer) is a use. What a    *)
(* row says about reaching its database is a version number: a pool works  *)
(* with the version it was created from.                                   *)
(***************************************************************************)
EXTENDS Naturals, FiniteSets

CONSTANTS
  Connections,  \* ids of managed databases
  UseSlots,     \* uses in flight at once
  Admins,       \* requests that create, change or delete a connection
  Reapers,      \* runs of reapIdlePools in flight, started by GET /health
  Pools,        \* pool objects, each created once
  NoPool,
  MaxSessions,  \* DB_QUERY_MAX_CONNECTIONS_PER_TARGET
  MaxVersion,   \* bound on the updates of a row
  MaxUses       \* bound on the uses of a behaviour

ASSUME NoPoolAssumption == NoPool \notin Pools
ASSUME SessionAssumption == MaxSessions \in Nat \ {0}
ASSUME VersionAssumption == MaxVersion \in Nat \ {0}
ASSUME UsesAssumption == MaxUses \in Nat
ASSUME InstanceAssumption == Connections # {} /\ IsFiniteSet(UseSlots)

VARIABLES
  connectionRows,  \* the rows of database_connections
  targets,  \* the map from keys to pools
  pools,    \* the pool objects, those no longer in the map included
  uses,     \* the uses in flight
  begun,    \* how many uses there have been
  admins,   \* the requests in flight that change a connection
  reapers,  \* the housekeeping in flight
  server    \* serving requests, waiting for the last of them, or closed
poolVars == <<connectionRows, targets, pools, uses, begun, admins, reapers, server>>

Modes == {"ro", "rw"}
PoolKeys == Connections \X Modes

\* "pending": inserted with the placeholder reference and not sealed yet.
TargetRow == [state : {"unused", "pending", "saved", "deleted"}, version : 0..MaxVersion]

(***************************************************************************)
(* idle: the sessions nobody uses. quiet: five minutes have passed since   *)
(* getTargetPool last gave the pool out. stale, a history: the row was no  *)
(* longer the one the pool was created from when it was put into the map.  *)
(***************************************************************************)
Pool == [state : {"unused", "open", "ending"}, key : PoolKeys, version : 0..MaxVersion,
         idle : 0..MaxSessions, quiet : BOOLEAN, stale : BOOLEAN]

Use == [step : {"idle", "asked", "loading", "creating", "holding", "using"},
        key : PoolKeys, pool : Pools \union {NoPool}, version : 0..MaxVersion]
Admin == [step : {"idle", "seal", "write", "closing", "ending"},
          op : {"create", "update", "delete"},
          connection : Connections, pool : Pools \union {NoPool}]
Reaper == [step : {"idle", "reaping", "ending"}, due : SUBSET Pools,
           pool : Pools \union {NoPool}]

\* Every record has its fields, and the map holds pools.
PoolsTypeOK ==
  /\ connectionRows \in [Connections -> TargetRow]
  /\ targets \in [PoolKeys -> Pools \union {NoPool}]
  /\ pools \in [Pools -> Pool]
  /\ uses \in [UseSlots -> Use]
  /\ begun \in Nat
  /\ admins \in [Admins -> Admin]
  /\ reapers \in [Reapers -> Reaper]
  /\ server \in {"up", "draining", "closed"}

AnyKey == CHOOSE k \in PoolKeys : TRUE
NewPool(k, v, stale) ==
  [state |-> "open", key |-> k, version |-> v, idle |-> 0, quiet |-> FALSE, stale |-> stale]
NoUse == [step |-> "idle", key |-> AnyKey, pool |-> NoPool, version |-> 0]
NoAdmin == [step |-> "idle", op |-> "create", connection |-> AnyKey[1], pool |-> NoPool]
NoReaper == [step |-> "idle", due |-> {}, pool |-> NoPool]

PoolsInit ==
  /\ connectionRows = [c \in Connections |-> [state |-> "unused", version |-> 0]]
  /\ targets = [k \in PoolKeys |-> NoPool]
  /\ pools = [p \in Pools |-> [NewPool(AnyKey, 0, FALSE) EXCEPT !.state = "unused"]]
  /\ uses = [u \in UseSlots |-> NoUse]
  /\ begun = 0
  /\ admins = [a \in Admins |-> NoAdmin]
  /\ reapers = [r \in Reapers |-> NoReaper]
  /\ server = "up"

----------------------------------------------------------------------------
Exists(c) == connectionRows[c].state \in {"pending", "saved"}
Mapped(p) == \E k \in PoolKeys : targets[k] = p
KeysOf(c) == {c} \X Modes
UsersOf(p) == {u \in UseSlots : uses[u].step = "using" /\ uses[u].pool = p}
Sessions(p) == Cardinality(UsersOf(p)) + pools[p].idle

\* pool.end(): no new sessions, and those nobody uses are closed at once.
Ended(p) == [pools[p] EXCEPT !.state = "ending", !.idle = 0, !.quiet = FALSE, !.stale = FALSE]

\* Seeded bug: the pool is ended before it is taken out of the map.
EndInPlace(k) ==
  /\ pools' = [pools EXCEPT ![targets[k]] = Ended(targets[k])]
  /\ UNCHANGED targets

\* Seeded bug: the pool is taken out of the map and never ended.
ForgetPool(k) ==
  /\ targets' = [targets EXCEPT ![k] = NoPool]
  /\ UNCHANGED pools

\* pools.delete(key), then entry.pool.end() before anything else runs.
TakeOut(k) ==
  /\ targets' = [targets EXCEPT ![k] = NoPool]
  /\ pools' = [pools EXCEPT ![targets[k]] = Ended(targets[k])]

----------------------------------------------------------------------------
(***************************************************************************)
(* A use. The route has found the row visible to its user; the pool may be *)
(* needed only after further statements.                                   *)
(***************************************************************************)
Ask(u, k) ==
  /\ server = "up"
  /\ uses[u].step = "idle" /\ begun < MaxUses
  /\ Exists(k[1])
  /\ uses' = [uses EXCEPT ![u] = [NoUse EXCEPT !.step = "asked", !.key = k]]
  /\ begun' = begun + 1
  /\ UNCHANGED <<connectionRows, targets, pools, admins, reapers, server>>

FindPool(u) ==
  LET p == targets[uses[u].key] IN
  /\ uses[u].step = "asked"
  /\ p # NoPool
  /\ pools' = [pools EXCEPT ![p].quiet = FALSE]
  /\ uses' = [uses EXCEPT ![u].step = "holding", ![u].pool = p]
  /\ UNCHANGED <<connectionRows, targets, begun, admins, reapers, server>>

MissPool(u) ==
  /\ uses[u].step = "asked"
  /\ targets[uses[u].key] = NoPool
  /\ uses' = [uses EXCEPT ![u].step = "loading"]
  /\ UNCHANGED <<connectionRows, targets, pools, begun, admins, reapers, server>>

LoadRow(u) ==
  LET row == connectionRows[uses[u].key[1]] IN
  /\ uses[u].step = "loading"
  /\ row.state = "saved"
  /\ uses' = [uses EXCEPT ![u].step = "creating", ![u].version = row.version]
  /\ UNCHANGED <<connectionRows, targets, pools, begun, admins, reapers, server>>

\* There is no row any more, or no credential in it, or no answer.
LoadRowFails(u) ==
  /\ uses[u].step = "loading"
  /\ uses' = [uses EXCEPT ![u] = NoUse]
  /\ UNCHANGED <<connectionRows, targets, pools, begun, admins, reapers, server>>

\* The map's entry is replaced, whatever it is by now.
CreatePool(u) ==
  LET use == uses[u]
      row == connectionRows[use.key[1]] IN
  /\ use.step = "creating"
  /\ \E q \in Pools : pools[q].state = "unused"
  /\ LET p == CHOOSE q \in Pools : pools[q].state = "unused" IN
       /\ pools' = [pools EXCEPT ![p] =
            NewPool(use.key, use.version, row # [state |-> "saved", version |-> use.version])]
       /\ targets' = [targets EXCEPT ![use.key] = p]
       /\ uses' = [uses EXCEPT ![u].step = "holding", ![u].pool = p]
  /\ UNCHANGED <<connectionRows, begun, admins, reapers, server>>

\* Seeded bug: the limit on the sessions of a pool is not applied.
ConnectWithoutLimit(u) ==
  LET p == uses[u].pool IN
  /\ uses[u].step = "holding"
  /\ pools[p].state = "open"
  /\ \/ pools[p].idle > 0 /\ pools' = [pools EXCEPT ![p].idle = @ - 1]
     \/ pools[p].idle = 0 /\ UNCHANGED pools
  /\ uses' = [uses EXCEPT ![u].step = "using"]
  /\ UNCHANGED <<connectionRows, targets, begun, admins, reapers, server>>

\* pool.connect(): an idle session, or a new one below the limit.
Connect(u) ==
  LET p == uses[u].pool IN
  /\ uses[u].step = "holding"
  /\ pools[p].state = "open"
  /\ \/ pools[p].idle > 0 /\ pools' = [pools EXCEPT ![p].idle = @ - 1]
     \/ pools[p].idle = 0 /\ Sessions(p) < MaxSessions /\ UNCHANGED pools
  /\ uses' = [uses EXCEPT ![u].step = "using"]
  /\ UNCHANGED <<connectionRows, targets, begun, admins, reapers, server>>

\* The pool has been ended meanwhile, the target does not answer, or no
\* session becomes free within connectionTimeoutMillis.
ConnectFails(u) ==
  /\ uses[u].step = "holding"
  /\ uses' = [uses EXCEPT ![u] = NoUse]
  /\ UNCHANGED <<connectionRows, targets, pools, begun, admins, reapers, server>>

\* client.release(): kept by an open pool (a broken session is not).
GiveBack(u) ==
  LET p == uses[u].pool IN
  /\ uses[u].step = "using"
  /\ uses' = [uses EXCEPT ![u] = NoUse]
  /\ \/ pools[p].state = "open" /\ pools' = [pools EXCEPT ![p].idle = @ + 1]
     \/ UNCHANGED pools
  /\ UNCHANGED <<connectionRows, targets, begun, admins, reapers, server>>

\* Seeded bug: only the sessions of pools in the map are looked at.
ExpireMappedSession(p) ==
  /\ Mapped(p) /\ pools[p].idle > 0
  /\ pools' = [pools EXCEPT ![p].idle = @ - 1]
  /\ UNCHANGED <<connectionRows, targets, uses, begun, admins, reapers, server>>

\* idleTimeoutMillis.
ExpireSession(p) ==
  /\ pools[p].idle > 0
  /\ pools' = [pools EXCEPT ![p].idle = @ - 1]
  /\ UNCHANGED <<connectionRows, targets, uses, begun, admins, reapers, server>>

----------------------------------------------------------------------------
(***************************************************************************)
(* Requests that change a connection. Both statements of a creation, and   *)
(* the one of an update or a deletion, may fail.                           *)
(***************************************************************************)
AdminAt(a, admin) == admins' = [admins EXCEPT ![a] = admin]

InsertPlaceholder(a, c) ==
  /\ server = "up" /\ admins[a].step = "idle"
  /\ connectionRows[c].state = "unused"
  /\ connectionRows' = [connectionRows EXCEPT ![c].state = "pending"]
  /\ AdminAt(a, [NoAdmin EXCEPT !.step = "seal", !.connection = c])
  /\ UNCHANGED <<targets, pools, uses, begun, reapers, server>>

SealCredential(a) ==
  LET c == admins[a].connection IN
  /\ admins[a].step = "seal"
  /\ Exists(c)
  /\ connectionRows' = [connectionRows EXCEPT ![c].state = "saved"]
  /\ AdminAt(a, NoAdmin)
  /\ UNCHANGED <<targets, pools, uses, begun, reapers, server>>

BeginUpdate(a, c) ==
  /\ server = "up" /\ admins[a].step = "idle"
  /\ Exists(c)
  /\ AdminAt(a, [step |-> "write", op |-> "update", connection |-> c, pool |-> NoPool])
  /\ UNCHANGED <<connectionRows, targets, pools, uses, begun, reapers, server>>

\* A password seals a row that was left pending. A row that has gone
\* meanwhile is not written, and no field at all is not a statement.
WriteTarget(a) ==
  LET c == admins[a].connection IN
  /\ admins[a].step = "write"
  /\ \/ /\ Exists(c) /\ connectionRows[c].version < MaxVersion
        /\ \E state \in {connectionRows[c].state, "saved"} :
             connectionRows' = [connectionRows EXCEPT ![c] = [state |-> state, version |-> @.version + 1]]
     \/ UNCHANGED connectionRows
  /\ AdminAt(a, [admins[a] EXCEPT !.step = "closing"])
  /\ UNCHANGED <<targets, pools, uses, begun, reapers, server>>

BeginDelete(a, c) ==
  /\ server = "up" /\ admins[a].step = "idle"
  /\ Exists(c)
  /\ AdminAt(a, [step |-> "closing", op |-> "delete", connection |-> c, pool |-> NoPool])
  /\ UNCHANGED <<connectionRows, targets, pools, uses, begun, reapers, server>>

\* One turn of the loop of closeTargetPool.
CloseOne(a) ==
  /\ admins[a].step = "closing"
  /\ \E k \in KeysOf(admins[a].connection) :
       /\ targets[k] # NoPool
       /\ TakeOut(k)
       /\ AdminAt(a, [admins[a] EXCEPT !.step = "ending", !.pool = targets[k]])
  /\ UNCHANGED <<connectionRows, uses, begun, reapers, server>>

\* end() answers once every session has been given back.
PoolHasEnded(a) ==
  /\ admins[a].step = "ending"
  /\ UsersOf(admins[a].pool) = {}
  /\ AdminAt(a, [admins[a] EXCEPT !.step = "closing", !.pool = NoPool])
  /\ UNCHANGED <<connectionRows, targets, pools, uses, begun, reapers, server>>

\* Seeded bug: only the pool of one access mode is closed.
NoneLeftToRead(c) == targets[<<c, "ro">>] = NoPool

\* The iteration over the map sees what was added while it waited, so it
\* stops when no key of the connection is in it.
NoneLeft(c) == \A k \in KeysOf(c) : targets[k] = NoPool

\* An update answers with the row; a deletion removes it now.
EndClosing(a) ==
  LET c == admins[a].connection IN
  /\ admins[a].step = "closing"
  /\ NoneLeft(c)
  /\ IF admins[a].op = "delete" /\ Exists(c)
     THEN connectionRows' = [connectionRows EXCEPT ![c].state = "deleted"]
     ELSE UNCHANGED connectionRows
  /\ AdminAt(a, NoAdmin)
  /\ UNCHANGED <<targets, pools, uses, begun, reapers, server>>

\* A statement fails: the insert stays a placeholder, an update has changed
\* nothing yet, a deletion leaves the row.
AdminFails(a) ==
  /\ \/ admins[a].step \in {"seal", "write"}
     \/ admins[a].op = "delete" /\ admins[a].step = "closing"
          /\ NoneLeft(admins[a].connection)
  /\ AdminAt(a, NoAdmin)
  /\ UNCHANGED <<connectionRows, targets, pools, uses, begun, reapers, server>>

----------------------------------------------------------------------------
\* Five minutes without getTargetPool giving it out.
GetsQuiet(p) ==
  /\ pools[p].state = "open" /\ ~pools[p].quiet
  /\ pools' = [pools EXCEPT ![p].quiet = TRUE]
  /\ UNCHANGED <<connectionRows, targets, uses, begun, admins, reapers, server>>

\* GET /health starts the reaper and does not wait for it.
BeginReaping(r) ==
  /\ server = "up" /\ reapers[r].step = "idle"
  /\ reapers' = [reapers EXCEPT ![r] =
       [NoReaper EXCEPT !.step = "reaping", !.due = {p \in Pools : pools[p].quiet /\ Mapped(p)}]]
  /\ UNCHANGED <<connectionRows, targets, pools, uses, begun, admins, server>>

IsDue(r, k) ==
  targets[k] # NoPool /\ targets[k] \in reapers[r].due /\ pools[targets[k]].quiet

ReapOne(r) ==
  /\ reapers[r].step = "reaping"
  /\ \E k \in PoolKeys :
       /\ IsDue(r, k)
       /\ TakeOut(k)
       /\ reapers' = [reapers EXCEPT ![r].step = "ending", ![r].pool = targets[k]]
  /\ UNCHANGED <<connectionRows, uses, begun, admins, server>>

ReapedHasEnded(r) ==
  /\ reapers[r].step = "ending"
  /\ UsersOf(reapers[r].pool) = {}
  /\ reapers' = [reapers EXCEPT ![r].step = "reaping", ![r].pool = NoPool]
  /\ UNCHANGED <<connectionRows, targets, pools, uses, begun, admins, server>>

EndReaping(r) ==
  /\ reapers[r].step = "reaping"
  /\ \A k \in PoolKeys : ~IsDue(r, k)
  /\ reapers' = [reapers EXCEPT ![r] = NoReaper]
  /\ UNCHANGED <<connectionRows, targets, pools, uses, begun, admins, server>>

----------------------------------------------------------------------------
\* SIGTERM: app.close() takes no new request and waits for those in flight.
BeginShutdown ==
  /\ server = "up"
  /\ server' = "draining"
  /\ UNCHANGED <<connectionRows, targets, pools, uses, begun, admins, reapers>>

\* closeAllTargetPools() clears the map and ends what was in it.
CloseAll ==
  LET mapped == {targets[k] : k \in PoolKeys} \ {NoPool} IN
  /\ server = "draining"
  /\ \A u \in UseSlots : uses[u].step = "idle"
  /\ \A a \in Admins : admins[a].step = "idle"
  /\ targets' = [k \in PoolKeys |-> NoPool]
  /\ pools' = [p \in Pools |-> IF p \in mapped THEN Ended(p) ELSE pools[p]]
  /\ server' = "closed"
  /\ UNCHANGED <<connectionRows, uses, begun, admins, reapers>>

----------------------------------------------------------------------------
UseStep(u) ==
  \/ FindPool(u) \/ MissPool(u) \/ LoadRow(u) \/ LoadRowFails(u)
  \/ CreatePool(u) \/ Connect(u) \/ ConnectFails(u) \/ GiveBack(u)
AdminStep(a) ==
  \/ SealCredential(a) \/ WriteTarget(a) \/ CloseOne(a) \/ PoolHasEnded(a)
  \/ EndClosing(a) \/ AdminFails(a)
ReaperStep(r) == ReapOne(r) \/ ReapedHasEnded(r) \/ EndReaping(r)

PoolsNext ==
  \/ \E u \in UseSlots : UseStep(u) \/ \E k \in PoolKeys : Ask(u, k)
  \/ \E a \in Admins : AdminStep(a)
       \/ \E c \in Connections : InsertPlaceholder(a, c) \/ BeginUpdate(a, c) \/ BeginDelete(a, c)
  \/ \E p \in Pools : ExpireSession(p) \/ GetsQuiet(p)
  \/ \E r \in Reapers : BeginReaping(r) \/ ReaperStep(r)
  \/ BeginShutdown \/ CloseAll

(***************************************************************************)
(* A use ends: its statements have timeouts and release() is in a finally. *)
(* An unused session is closed by the pool's own timer. Nothing makes a    *)
(* request arrive, and nothing makes GET /health be polled.                *)
(***************************************************************************)
PoolsFairness ==
  /\ \A u \in UseSlots : WF_poolVars(UseStep(u))
  /\ \A p \in Pools : WF_poolVars(ExpireSession(p))
  /\ \A a \in Admins : WF_poolVars(AdminStep(a))

PoolsSpec == PoolsInit /\ [][PoolsNext]_poolVars /\ PoolsFairness

----------------------------------------------------------------------------
(***************************************************************************)
(* A pool in the map is open and is the one of its key: getTargetPool      *)
(* never gives out a pool that an update, the reaper or the shutdown has   *)
(* ended, although all of them wait in the middle of changing the map.     *)
(***************************************************************************)
MappedPoolsAreOpen ==
  \A k \in PoolKeys : targets[k] # NoPool =>
    pools[targets[k]].state = "open" /\ pools[targets[k]].key = k

\* a still has pools of c to close.
Closing(a, c) == admins[a].connection = c /\ admins[a].step \in {"closing", "ending"}

(***************************************************************************)
(* A pool in the map with settings that are no longer the row's is about   *)
(* to be closed by the request that changed them, or was created from a    *)
(* row read before the change and put into the map after it: the only way  *)
(* old settings stay in use after an update has answered.                  *)
(***************************************************************************)
OnlyRacingPoolsAreStale ==
  \A k \in PoolKeys : LET p == targets[k] IN
    (p # NoPool /\ Exists(k[1]) /\ pools[p].version # connectionRows[k[1]].version) =>
      pools[p].stale \/ \E a \in Admins : Closing(a, k[1])

(***************************************************************************)
(* A pool leaves the map by being ended, or because a second first use of  *)
(* its key, which had missed it, puts its own in the same place.           *)
(***************************************************************************)
LeavesEndedOrReplaced ==
  \A k \in PoolKeys : (targets[k] # NoPool /\ targets'[k] # targets[k]) =>
    \/ pools'[targets[k]].state = "ending"
    \/ \E u \in UseSlots : uses[u].step = "creating" /\ uses[u].key = k
                          /\ uses'[u].pool = targets'[k]
PoolsLeaveEndedOrReplaced == [][LeavesEndedOrReplaced]_poolVars

(***************************************************************************)
(* A pool that is no longer in the map, the one nobody ever ends included, *)
(* and a pool on a connection that has been deleted, even if a request put *)
(* it into the map between the closing of its pools and the removal of the *)
(* row, are left without a session for good.                               *)
(***************************************************************************)
AbandonedPoolsDrain ==
  \A p \in Pools :
    (/\ pools[p].state # "unused"
     /\ ~Mapped(p) \/ connectionRows[pools[p].key[1]].state = "deleted")
      ~> [](Sessions(p) = 0)

\* No target has more sessions of a pool than the limit, whoever connects and gives back
\* while others do (`max` of the pool).
SessionsAreLimited == \A p \in Pools : Sessions(p) <= MaxSessions

\* Who is past getTargetPool has a pool, and only a connection that was registered has any.
UsesHavePools ==
  /\ \A u \in UseSlots : /\ uses[u].step \in {"holding", "using"} => uses[u].pool # NoPool
                         /\ uses[u].step # "idle" => connectionRows[uses[u].key[1]].state # "unused"
  /\ \A k \in PoolKeys : targets[k] # NoPool => connectionRows[k[1]].state # "unused"

\* The inductive invariant behind the registry.
PoolsInvariant ==
  /\ PoolsTypeOK
  /\ SessionsAreLimited
  /\ UsesHavePools
  /\ MappedPoolsAreOpen
  /\ OnlyRacingPoolsAreStale

\* What the registry of pools promises whoever uses, changes or shuts it meanwhile.
PoolsPromise == []PoolsInvariant /\ PoolsLeaveEndedOrReplaced
=============================================================================
