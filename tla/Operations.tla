----------------------------- MODULE Operations -----------------------------
(***************************************************************************)
(* The operations gateway, services/operations.ts, with what it runs on:   *)
(* the provider cache (utils/cache.ts), the HTTP client (utils/http.ts),   *)
(* the DigitalOcean, Proxmox and Docker services, and the provider itself  *)
(* on the other end of the wire.                                           *)
(*                                                                         *)
(* A request resolves its target, is judged by the environment found, runs *)
(* and leaves an audit event and an operation record, with an await between*)
(* any two of these. Droplets, guests and alerts are found in an inventory *)
(* that is cached or loaded, droplets and guests once more when they run;  *)
(* applications, deployments and databases are rows of the console. A POST *)
(* may be carried out whether or not its answer comes back, and even after *)
(* the client has given up on it.                                          *)
(*                                                                         *)
(* One API process: when it dies, its requests and its cache are gone.     *)
(***************************************************************************)
EXTENDS Naturals, Rbac

CONSTANTS Users,
          UserRoles,     \* user -> the roles its session resolved to
          Resources,
          Kind,          \* resource -> its kind
          Keys,          \* the operation keys requested
          Requests,      \* calls of execute, and of the routes that list, each served once
          Retries,       \* the HTTP client's retries of idempotent requests
          InUse,         \* the environments resources are in
          NoEnvironment, \* not resolved yet
          NoValue,       \* nothing was ever stored
          MaxMoves       \* bound on the moves of resources between environments

Kinds == {"droplet", "proxmox_guest", "alert", "application", "deployment", "database"}
Inventoried == {"droplet", "proxmox_guest", "alert"}   \* found through the provider cache
FoundAgain == {"droplet", "proxmox_guest"}             \* found once more when they run

ASSUME OperationsAssumption ==
  /\ UserRoles \in [Users -> SUBSET Roles]
  /\ Kind \in [Resources -> Kinds]
  /\ Keys \subseteq OperationKeys
  /\ Retries \in Nat /\ MaxMoves \in Nat
  /\ InUse \subseteq Environments
  /\ NoEnvironment \notin Environments

VARIABLES
  environment,  \* resource -> where it is
  moves,        \* resource -> how often it has moved
  operations,   \* how many operations have been carried out
  cache,        \* kind -> the cached inventory of its provider
  requests      \* the requests being served

vars == <<environment, moves, operations, cache, requests>>

\* What a provider lists: where its resources are, after which moves and operations.
Inventory == [environment : [Resources -> Environments],
              moves : [Resources -> 0 .. MaxMoves], operations : Nat]

ASSUME NoValueAssumption == NoValue \notin Inventory

\* `environment` and `asOf` are what the request was judged by, `ran` where its
\* operation was carried out, `effects` the operations it was carried out as,
\* `onWire` says that the provider may still receive its POST.
Request ==
  [step : {"asking", "loading", "loaded", "judging", "denied", "sending", "sent",
           "succeeded", "failed", "recording", "ended", "died"},
   user : Users, key : Keys \union {"list"}, resource : Resources,
   loaded : Inventory \union {NoValue}, environment : Environments \union {NoEnvironment},
   asOf : 0 .. MaxMoves, attempts : 0 .. (1 + Retries), onWire : BOOLEAN, effects : SUBSET Nat,
   ran : Environments \union {NoEnvironment},
   audit : {"none", "denied", "success", "failure", "lost"}]

Idle == [step |-> "idle"]

----------------------------------------------------------------------------
\* One key of utils/cache.ts. Whatever is stored is also kept as the last known good value,
\* and only the stored copy is ever dropped: by its TTL, by eviction, by invalidation. So a
\* key is its last value and whether that is still served without asking for a new one.

Empty == [value |-> NoValue, fresh |-> FALSE]

Stored(value) == [value |-> value, fresh |-> TRUE]

\* Seeded bug: invalidation does nothing.
Kept(entry) == entry

Invalidated(entry) == [entry EXCEPT !.fresh = FALSE]

\* The TTL passes, or the entry is the oldest one of a full cache.
Expired(entry) == [entry EXCEPT !.fresh = FALSE]

HasFallback(entry) == entry.value # NoValue

----------------------------------------------------------------------------
TypeOK ==
  /\ environment \in [Resources -> Environments]
  /\ moves \in [Resources -> 0 .. MaxMoves]
  /\ operations \in Nat
  /\ cache \in [Kinds -> [value : Inventory \union {NoValue}, fresh : BOOLEAN]]
  /\ requests \in [Requests -> Request \union {Idle}]

Init ==
  /\ environment \in [Resources -> InUse]
  /\ moves = [resource \in Resources |-> 0]
  /\ operations = 0
  /\ cache = [kind \in Kinds |-> Empty]
  /\ requests = [r \in Requests |-> Idle]

Listing == [environment |-> environment, moves |-> moves, operations |-> operations]

KindOf(request) == Kind[request.resource]

Step(r, step) == requests' = [requests EXCEPT ![r].step = step]

----------------------------------------------------------------------------
\* The world outside: a tag is changed at the provider. An alert's environment is part of
\* its fingerprint, and the console never changes that of its own rows.

Move(resource, to) ==
  /\ Kind[resource] \in FoundAgain
  /\ moves[resource] < MaxMoves
  /\ to # environment[resource]
  /\ environment' = [environment EXCEPT ![resource] = to]
  /\ moves' = [moves EXCEPT ![resource] = @ + 1]
  /\ UNCHANGED <<operations, cache, requests>>

----------------------------------------------------------------------------
\* Requests come in.

Begin(r, user, key, resource) ==
  /\ requests[r] = Idle
  /\ key # "list" => OperationDefinition(key).kind = Kind[resource]
  /\ requests' = [requests EXCEPT ![r] =
       [step |-> "asking", user |-> user, key |-> key, resource |-> resource,
        loaded |-> NoValue, environment |-> NoEnvironment, asOf |-> 0, attempts |-> 0,
        onWire |-> FALSE, effects |-> {}, ran |-> NoEnvironment, audit |-> "none"]]
  /\ UNCHANGED <<environment, moves, operations, cache>>

----------------------------------------------------------------------------
\* Finding the target.

\* A resource outside the user's environments is not found; alerts are shown to all.
Visible(request, seen) ==
  KindOf(request) = "alert" \/ seen \in GrantedEnvironments(UserRoles[request.user])

\* What a request does with an inventory: a list is answered, an operation is judged,
\* and one that was judged is sent.
Given(request, inventory) ==
  LET seen  == inventory.environment[request.resource]
      found == Visible(request, seen)
  IN  IF request.key = "list" THEN [request EXCEPT !.step = "ended", !.loaded = NoValue]
      ELSE IF request.environment = NoEnvironment
        THEN [request EXCEPT !.step = IF found THEN "judging" ELSE "ended",
                             !.loaded = NoValue,
                             !.environment = IF found THEN seen ELSE @,
                             !.asOf = IF found THEN inventory.moves[request.resource] ELSE @]
        ELSE [request EXCEPT !.step = IF found THEN "sending" ELSE "failed",
                             !.loaded = NoValue]

\* wrap answers from the cache; the row of a resource of the console is read.
Find(r) ==
  LET kind == KindOf(requests[r]) IN
  /\ requests[r].step = "asking"
  /\ \/ /\ kind \in Inventoried /\ cache[kind].fresh
        /\ requests' = [requests EXCEPT ![r] = Given(@, cache[kind].value)]
     \/ /\ kind \notin Inventoried
        /\ requests' = [requests EXCEPT ![r] = Given(@, Listing)]
  /\ UNCHANGED <<environment, moves, operations, cache>>

Miss(r) ==
  /\ requests[r].step = "asking"
  /\ KindOf(requests[r]) \in Inventoried
  /\ ~cache[KindOf(requests[r])].fresh
  /\ Step(r, "loading")
  /\ UNCHANGED <<environment, moves, operations, cache>>

\* The provider answers loadDroplets, loadInventory or fetchAlerts.
Load(r) ==
  /\ requests[r].step = "loading"
  /\ requests' = [requests EXCEPT ![r].step = "loaded", ![r].loaded = Listing]
  /\ UNCHANGED <<environment, moves, operations, cache>>

Store(r) ==
  /\ requests[r].step = "loaded"
  /\ cache' = [cache EXCEPT ![KindOf(requests[r])] = Stored(requests[r].loaded)]
  /\ requests' = [requests EXCEPT ![r] = Given(@, requests[r].loaded)]
  /\ UNCHANGED <<environment, moves, operations>>

\* Every attempt of the load has failed: the last known good inventory will do.
FallBack(r) ==
  /\ requests[r].step = "loading"
  /\ HasFallback(cache[KindOf(requests[r])])
  /\ requests' = [requests EXCEPT ![r] = Given(@, cache[KindOf(requests[r])].value)]
  /\ UNCHANGED <<environment, moves, operations, cache>>

\* No such resource, an application not enabled for operations, no release to roll back
\* to, a provider that is not configured or fails without a fallback. Nothing is audited
\* before the target is known.
NotFound(r) ==
  /\ requests[r].step \in {"asking", "loading"}
  /\ Step(r, IF requests[r].environment = NoEnvironment THEN "ended" ELSE "failed")
  /\ UNCHANGED <<environment, moves, operations, cache>>

Expire(kind) ==
  /\ cache[kind].fresh
  /\ cache' = [cache EXCEPT ![kind] = Expired(@)]
  /\ UNCHANGED <<environment, moves, operations, requests>>

----------------------------------------------------------------------------
\* execute judges.

\* Seeded bug: the roles are not asked.
DeniedUnlessConfirmed(request, claimed, confirmed) ==
  \/ claimed # request.environment
  \/ OperationDefinition(request.key).typed /\ ~confirmed

Denied(request, claimed, confirmed) ==
  \/ claimed # request.environment
  \/ ~Allowed(UserRoles[request.user], request.key, request.environment)
  \/ OperationDefinition(request.key).typed /\ ~confirmed

\* A reason is required for anything that changes production.
LacksReason(request, reasoned) ==
  /\ request.environment = "production"
  /\ OperationDefinition(request.key).impact # "none"
  /\ ~reasoned

Judge(r, claimed, confirmed, reasoned) ==
  /\ requests[r].step = "judging"
  /\ Step(r, IF Denied(requests[r], claimed, confirmed) THEN "denied"
             ELSE IF LacksReason(requests[r], reasoned) THEN "ended"
             ELSE IF KindOf(requests[r]) \in FoundAgain THEN "asking" ELSE "sending")
  /\ UNCHANGED <<environment, moves, operations, cache>>

----------------------------------------------------------------------------
\* The POST to the provider, or the routine of the console that stands for it.

\* Seeded bugs: every request is retried; the loop counts from 0.
AttemptsAlways(idempotent) == 1 + Retries

AttemptsFromZero(idempotent) == 2 + Retries

Attempts(idempotent) == IF idempotent THEN 1 + Retries ELSE 1

Send(r) ==
  /\ requests[r].step = "sending"
  /\ requests' = [requests EXCEPT ![r].step = "sent", ![r].attempts = @ + 1,
                                  ![r].onWire = TRUE]
  /\ UNCHANGED <<environment, moves, operations, cache>>

\* Whoever sent it, and whether or not somebody still waits for the answer.
CarryOut(r) ==
  /\ requests[r] # Idle
  /\ requests[r].onWire
  /\ operations' = operations + 1
  /\ requests' = [requests EXCEPT ![r].onWire = FALSE, ![r].effects = @ \union {operations'},
                                  ![r].ran = environment[requests[r].resource]]
  /\ UNCHANGED <<environment, moves, cache>>

\* "Inventory is now stale": the caches of the provider are invalidated with the answer.
Answer(r) ==
  /\ requests[r].step = "sent"
  /\ ~requests[r].onWire
  /\ Step(r, "succeeded")
  /\ cache' = [cache EXCEPT ![KindOf(requests[r])] = Invalidated(@)]
  /\ UNCHANGED <<environment, moves, operations>>

\* No write token, a refusal, a timeout, an answer that cannot be read.
NoAnswer(r) ==
  /\ \/ requests[r].step = "sending" /\ Step(r, "failed")
     \/ /\ requests[r].step = "sent"
        /\ \/ Step(r, IF requests[r].attempts < Attempts(FALSE) THEN "sending" ELSE "failed")
           \/ /\ requests[r].onWire     \* refused, and so never carried out
              /\ requests' = [requests EXCEPT ![r].step = "failed", ![r].onWire = FALSE]
  /\ UNCHANGED <<environment, moves, operations, cache>>

----------------------------------------------------------------------------
\* audit.record, which swallows its own failure, and recordOperation, which does too.

AuditOf(step) ==
  CASE step = "denied" -> "denied" [] step = "succeeded" -> "success" [] OTHER -> "failure"

Audit(r) ==
  /\ requests[r].step \in {"denied", "succeeded", "failed"}
  /\ \E audit \in {AuditOf(requests[r].step), "lost"} :
       requests' = [requests EXCEPT
         ![r].audit = audit,
         ![r].step = IF requests[r].step = "denied" THEN "ended" ELSE "recording"]
  /\ UNCHANGED <<environment, moves, operations, cache>>

Record(r) ==
  /\ requests[r].step = "recording"
  /\ Step(r, "ended")
  /\ UNCHANGED <<environment, moves, operations, cache>>

\* The process dies, with its cache; what is on the wire stays there.
Die ==
  /\ requests' = [r \in Requests |->
       IF requests[r].step \in {"idle", "ended", "died"} THEN requests[r]
       ELSE [requests[r] EXCEPT !.step = "died"]]
  /\ cache' = [kind \in Kinds |-> Empty]
  /\ UNCHANGED <<environment, moves, operations>>

Next ==
  \/ \E resource \in Resources, to \in InUse : Move(resource, to)
  \/ \E r \in Requests, user \in Users, key \in Keys \union {"list"}, resource \in Resources :
       Begin(r, user, key, resource)
  \/ \E r \in Requests : \/ Find(r) \/ Miss(r) \/ Load(r) \/ Store(r) \/ FallBack(r)
                         \/ NotFound(r)
  \/ \E kind \in Kinds : Expire(kind)
  \/ \E r \in Requests, claimed \in Environments, confirmed, reasoned \in BOOLEAN :
       Judge(r, claimed, confirmed, reasoned)
  \/ \E r \in Requests : \/ Send(r) \/ CarryOut(r) \/ Answer(r) \/ NoAnswer(r)
                         \/ Audit(r) \/ Record(r)
  \/ Die

Spec == Init /\ [][Next]_vars

----------------------------------------------------------------------------
\* Properties.

\* What the trail says of an operation is what happened to it: an audited success was
\* carried out, a denial never was, nothing is carried out twice (POSTs are not retried),
\* and what was carried out is on the trail unless the audit insert failed or the process
\* died. A failure may have been carried out all the same, even later.
AuditTellsWhatHappened ==
  \A r \in Requests : requests[r] # Idle =>
    LET request == requests[r] IN
    /\ \A m, n \in request.effects : m = n
    /\ request.audit = "success" => request.effects # {}
    /\ request.audit = "denied" => request.effects = {} /\ ~request.onWire
    /\ request.effects # {} /\ request.step = "ended" =>
         request.audit \in {"success", "failure", "lost"}

\* What is carried out was allowed in the environment it was judged by, and that is where
\* it was carried out, unless the resource has moved since the inventory it was found in
\* was loaded. Between the two lie the load, the cache, which may serve an old inventory
\* for as long as the provider is down, and a second look at it.
RunsWhereJudged ==
  \A r \in Requests : requests[r] # Idle /\ requests[r].effects # {} =>
    LET request == requests[r] IN
    /\ Allowed(UserRoles[request.user], request.key, request.environment)
    /\ request.ran = request.environment \/ request.asOf < moves[request.resource]

\* The cached inventory of a kind hides an operation that was answered: an effect the
\* gateway has in hand or has audited as a success.
Hides(kind) ==
  cache[kind].fresh /\ \E r \in Requests :
    /\ requests[r] # Idle
    /\ requests[r].step = "succeeded" \/ requests[r].audit = "success"
    /\ KindOf(requests[r]) = kind
    /\ \E n \in requests[r].effects : cache[kind].value.operations < n

\* Invalidating the inventory after an operation works, but for a load that was under
\* way: only such a load brings back an inventory from before it.
OnlyOvertakenLoadsHide ==
  [][\A kind \in Kinds : ~Hides(kind) /\ Hides(kind)' =>
       \E r \in Requests : /\ requests[r].step = "loaded"
                           /\ requests'[r].step # "loaded"
                           /\ KindOf(requests[r]) = kind]_vars

\* routes/databases.ts:388: "an unaudited write window is exactly what rule 6 forbids".
\* activate_database_write_mode opens one too, and execute audits it like the others.
WindowsAreAudited ==
  \A r \in Requests :
    requests[r].step = "ended" /\ requests[r].key = "activate_database_write_mode" =>
      requests[r].effects = {} \/ requests[r].audit # "lost"

\* architecture.md:80-81: "A developer holding application.restart still cannot restart a
\* production service": no operation is open to a set of roles that is open to none of
\* them. A developer who is a viewer, too, has the one's permission in the other's
\* environments.
OneRoleSuffices ==
  \A r \in Requests : requests[r] # Idle /\ requests[r].effects # {} =>
    \E role \in UserRoles[requests[r].user] :
      Allowed({role}, requests[r].key, requests[r].environment)

\* operations.ts:36-37: "Every attempt - allowed, refused, failed - produces an audit
\* event": one that is refused for want of a reason, or whose target is not found, does not.
EveryAttemptIsAudited ==
  \A r \in Requests :
    requests[r].step = "ended" /\ requests[r].key # "list" => requests[r].audit # "none"

\* What is judged, run and told of an operation agrees, request by request.
GatewayInvariant == TypeOK /\ AuditTellsWhatHappened /\ RunsWhereJudged
=============================================================================
