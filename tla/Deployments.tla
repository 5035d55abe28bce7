---------------------------- MODULE Deployments -----------------------------
(***************************************************************************)
(* Deployment records and the production approval gate: the deployments    *)
(* table with its constraint and trigger (0004_applications_deployments),  *)
(* services/deployments.ts, the deploy and rollback targets of the         *)
(* operations gateway, and the approval and CI status routes.              *)
(*                                                                         *)
(* A request that awaits between two statements is split there: creating a *)
(* deployment resolves its target, looks for one in flight and inserts; a  *)
(* CI status callback reads the row, starts its UPDATE (which fixes now())  *)
(* and applies it once it holds the row. decideApproval keeps the row      *)
(* locked from its read to its commit and is one step.                     *)
(***************************************************************************)
EXTENDS Naturals, FiniteSets

CONSTANTS Users, Applications, Versions,
          DeploymentIds,    \* primary keys of the deployments table
          Requests,         \* deploy and rollback requests the API serves at once
          Callbacks,        \* CI status callbacks the API serves at once
          NoUser,           \* SQL NULL in approved_by
          NoVersion,        \* SQL NULL in applications.version
          Environment,      \* application -> the environment it lives in
          Key,              \* application -> the service it is an instance of
          UserEnvironments, \* user -> environments the user's roles cover
          Deployers,            \* users with application.deploy
          ProductionDeployers,  \* users with application.deploy.production
          LostLayers,       \* layers of the gate assumed not to work
          MaxInstant        \* bound on the database clock

Environments == {"development", "testing", "staging", "production"}
Layers == {"service", "constraint", "trigger"}

ASSUME DeploymentsAssumption ==
  /\ NoUser \notin Users
  /\ NoVersion \notin Versions
  /\ Environment \in [Applications -> Environments]
  /\ UserEnvironments \in [Users -> SUBSET Environments]
  /\ Deployers \subseteq Users /\ ProductionDeployers \subseteq Users
  /\ LostLayers \subseteq Layers
  /\ MaxInstant \in Nat

VARIABLES
  deployments,        \* id -> its row, or NoRow
  operationsEnabled,  \* application -> applications.operations_enabled
  requests,           \* deploy and rollback requests being served
  callbacks,          \* status callbacks being served
  now                 \* the database clock

vars == <<deployments, operationsEnabled, requests, callbacks, now>>

Live == {"pending", "awaiting_approval", "running"}
Terminal == {"succeeded", "failed", "rolled_back", "cancelled"}
Reportable == Terminal \union {"running"}
Null == 0                       \* SQL NULL in started_at and finished_at
Instants == 0 .. MaxInstant

NoRow == [status |-> "absent"]
Idle  == [step |-> "idle"]

Row == [application : Applications, version : Versions, status : Live \union Terminal,
        triggeredBy : Users, approvedBy : Users \union {NoUser},
        startedAt : Instants, finishedAt : Instants]

Request == [step : {"resolved", "checked"}, user : Users, application : Applications,
            version : Versions, enabled : BOOLEAN]

Callback == [step : {"read", "stamped"}, id : DeploymentIds,
             status : Reportable, at : Instants]

TypeOK ==
  /\ deployments \in [DeploymentIds -> Row \union {NoRow}]
  /\ operationsEnabled \in [Applications -> BOOLEAN]
  /\ requests \in [Requests -> Request \union {Idle}]
  /\ callbacks \in [Callbacks -> Callback \union {Idle}]
  /\ now \in Instants

Init ==
  /\ deployments = [d \in DeploymentIds |-> NoRow]
  /\ operationsEnabled \in [Applications -> BOOLEAN]
  /\ requests = [r \in Requests |-> Idle]
  /\ callbacks = [c \in Callbacks |-> Idle]
  /\ now = 0

\* The gate is built to survive the loss of any one layer, not of two.
AtMostOneLayerLost == \A l, m \in LostLayers : l = m

----------------------------------------------------------------------------
\* Reading the table.

Works(layer) == layer \notin LostLayers

Rows == {d \in DeploymentIds : deployments[d] # NoRow}
RowsOf(a) == {d \in Rows : deployments[d].application = a}

IsProduction(row) == Environment[row.application] = "production"

\* getDeployment and requireApplication answer 404 outside the user's environments.
Visible(u, a) == Environment[a] \in UserEnvironments[u]

MayDeploy(u, a) ==
  IF Environment[a] = "production" THEN u \in ProductionDeployers ELSE u \in Deployers

InFlight(a) == {d \in RowsOf(a) : deployments[d].status \in Live}

Succeeded(a) == {d \in RowsOf(a) : deployments[d].status = "succeeded"}

\* No statement of the console writes applications.version: the pipeline that the
\* registry's upsert leaves the column to does not exist, so it stays NULL.
RegisteredVersion(a) == NoVersion

\* Seeded bug: an application without a success rolls back to its registered version.
RollbackTargetsOrRegistered(a) ==
  IF Succeeded(a) = {} THEN {RegisteredVersion(a)} ELSE {deployments[d].version : d \in Succeeded(a)}

\* The versions rollbackTarget may return: newest finished_at first, ties in any order.
RollbackTargets(a) ==
  LET candidates == {d \in Succeeded(a) : deployments[d].version # RegisteredVersion(a)}
      newest == {d \in candidates : \A e \in candidates :
                   deployments[e].finishedAt <= deployments[d].finishedAt}
  IN  {deployments[d].version : d \in newest}

\* Seeded bug: the table without finish_after_start.
AdmissibleAnyTimes(row) ==
  /\ Works("constraint") => row.approvedBy # row.triggeredBy
  /\ (Works("trigger") /\ IsProduction(row) /\ row.status \in {"running", "succeeded"})
       => row.approvedBy # NoUser

\* approver_distinct, finish_after_start and the production gate trigger, which
\* Postgres evaluates on every row written.
Admissible(row) ==
  /\ Works("constraint") => row.approvedBy # row.triggeredBy
  /\ (row.finishedAt # Null /\ row.startedAt # Null) => row.finishedAt >= row.startedAt
  /\ (Works("trigger") /\ IsProduction(row) /\ row.status \in {"running", "succeeded"})
       => row.approvedBy # NoUser

----------------------------------------------------------------------------
\* The registry form: PUT /applications.

SetOperationsEnabled(a) ==
  /\ operationsEnabled' = [operationsEnabled EXCEPT ![a] = ~@]
  /\ UNCHANGED <<deployments, requests, callbacks, now>>

----------------------------------------------------------------------------
\* deploy_release and rollback_release: resolveTarget, then createDeployment.

Resolve(r, u, a, v) ==
  /\ requests[r] = Idle
  /\ Visible(u, a)
  /\ MayDeploy(u, a)
  /\ requests' = [requests EXCEPT ![r] =
       [step |-> "resolved", user |-> u, application |-> a, version |-> v,
        enabled |-> operationsEnabled[a]]]
  /\ UNCHANGED <<deployments, operationsEnabled, callbacks, now>>

\* deploy_release takes the version from the request's metadata.
ResolveDeploy(r, u, a) == \E v \in Versions : Resolve(r, u, a, v)

ResolveRollback(r, u, a) == \E v \in RollbackTargets(a) : Resolve(r, u, a, v)

CheckInFlight(r) ==
  /\ requests[r].step = "resolved"
  /\ LET accepted == /\ requests[r].enabled
                     /\ InFlight(requests[r].application) = {}
     IN  requests' = [requests EXCEPT ![r] = IF accepted THEN [@ EXCEPT !.step = "checked"]
                                                         ELSE Idle]
  /\ UNCHANGED <<deployments, operationsEnabled, callbacks, now>>

\* Seeded bug: production is queued like any other environment.
NewRowPending(request) ==
  [application |-> request.application, version |-> request.version, status |-> "pending",
   triggeredBy |-> request.user, approvedBy |-> NoUser,
   startedAt |-> Null, finishedAt |-> Null]

NewRow(request) ==
  [application |-> request.application,
   version     |-> request.version,
   status      |-> IF Environment[request.application] = "production"
                   THEN "awaiting_approval" ELSE "pending",
   triggeredBy |-> request.user, approvedBy |-> NoUser,
   startedAt |-> Null, finishedAt |-> Null]

Insert(r) ==
  /\ requests[r].step = "checked"
  /\ \E d \in DeploymentIds \ Rows :
       deployments' = [deployments EXCEPT ![d] = NewRow(requests[r])]
  /\ requests' = [requests EXCEPT ![r] = Idle]
  /\ UNCHANGED <<operationsEnabled, callbacks, now>>

----------------------------------------------------------------------------
\* The approval route and approve_production_deployment: decideApproval.

\* Seeded bugs: approval of any live deployment, no check of the requester, and an
\* approval that leaves the deployment waiting.
AwaitingOrLive(row) == row.status \in Live
AnyApprover(row, u) == TRUE
ApprovedStillWaiting(row, u) == [row EXCEPT !.approvedBy = u]

Awaiting(row) == row.status = "awaiting_approval"

NotTheRequester(row, u) == Works("service") => row.triggeredBy # u

Approved(row, u) == [row EXCEPT !.approvedBy = u, !.status = "pending"]

Rejected(row, at) == [row EXCEPT !.status = "cancelled", !.finishedAt = at]

Decide(u, d, approve) ==
  /\ u \in ProductionDeployers
  /\ d \in Rows
  /\ Visible(u, deployments[d].application)
  /\ Awaiting(deployments[d])
  /\ NotTheRequester(deployments[d], u)
  /\ now < MaxInstant
  /\ now' = now + 1
  /\ LET row == IF approve THEN Approved(deployments[d], u) ELSE Rejected(deployments[d], now')
     IN  /\ Admissible(row)
         /\ deployments' = [deployments EXCEPT ![d] = row]
  /\ UNCHANGED <<operationsEnabled, requests, callbacks>>

----------------------------------------------------------------------------
\* POST /deployments/:id/status, by which CI moves a deployment.

\* Seeded bug: the callback does not look at the approval.
ApprovalUnseen(row) == TRUE

ApprovalSeen(row) == (Works("service") /\ IsProduction(row)) => row.approvedBy # NoUser

ReadForStatus(c, u, d, status) ==
  /\ callbacks[c] = Idle
  /\ u \in Deployers
  /\ d \in Rows
  /\ Visible(u, deployments[d].application)
  /\ ApprovalSeen(deployments[d])
  /\ callbacks' = [callbacks EXCEPT ![c] =
       [step |-> "read", id |-> d, status |-> status, at |-> Null]]
  /\ UNCHANGED <<deployments, operationsEnabled, requests, now>>

\* The UPDATE begins: now() is fixed here, even if the row is locked by another.
BeginUpdate(c) ==
  /\ callbacks[c].step = "read"
  /\ now < MaxInstant
  /\ now' = now + 1
  /\ callbacks' = [callbacks EXCEPT ![c] = [@ EXCEPT !.step = "stamped", !.at = now']]
  /\ UNCHANGED <<deployments, operationsEnabled, requests>>

Updated(row, status, at) ==
  [row EXCEPT !.status = status,
              !.startedAt  = IF status = "running" /\ @ = Null THEN at ELSE @,
              !.finishedAt = IF status \in Terminal THEN at ELSE @]

\* updateStatus asks nothing of the status the row has by now.
ApplyUpdate(c) ==
  /\ callbacks[c].step = "stamped"
  /\ LET d   == callbacks[c].id
         row == Updated(deployments[d], callbacks[c].status, callbacks[c].at)
     IN  deployments' = IF Admissible(row) THEN [deployments EXCEPT ![d] = row]
                                           ELSE deployments
  /\ callbacks' = [callbacks EXCEPT ![c] = Idle]
  /\ UNCHANGED <<operationsEnabled, requests, now>>

Next ==
  \/ \E a \in Applications : SetOperationsEnabled(a)
  \/ \E r \in Requests, u \in Users, a \in Applications :
       ResolveDeploy(r, u, a) \/ ResolveRollback(r, u, a)
  \/ \E r \in Requests : CheckInFlight(r) \/ Insert(r)
  \/ \E u \in Users, d \in DeploymentIds, approve \in BOOLEAN : Decide(u, d, approve)
  \/ \E c \in Callbacks, u \in Users, d \in DeploymentIds, status \in Reportable :
       ReadForStatus(c, u, d, status)
  \/ \E c \in Callbacks : BeginUpdate(c) \/ ApplyUpdate(c)

Spec == Init /\ [][Next]_vars

----------------------------------------------------------------------------
\* Properties. The comments name the code each one is about.

\* Nobody approves the deployment they requested, whichever one layer of the gate is
\* lost (decideApproval's check, or the deployments_approver_distinct constraint).
ApproverDistinct ==
  \A d \in Rows : deployments[d].approvedBy # deployments[d].triggeredBy

\* A production deployment is running or succeeded only with a recorded approver,
\* whichever one layer is lost (the status route's check on the row it read, or the
\* deployments_production_gate trigger).
ProductionGate ==
  \A d \in Rows :
    IsProduction(deployments[d]) /\ deployments[d].status \in {"running", "succeeded"}
      => deployments[d].approvedBy # NoUser

\* What the in-flight callbacks and the undecided rows must satisfy for the two
\* invariants above to survive every step.
CallbacksSawApproval ==
  \A c \in Callbacks : callbacks[c] # Idle =>
    callbacks[c].id \in Rows /\ ApprovalSeen(deployments[callbacks[c].id])

WaitingIsUndecided ==
  \A d \in Rows : /\ Awaiting(deployments[d]) => deployments[d].approvedBy = NoUser
                  /\ IsProduction(deployments[d]) /\ deployments[d].status = "pending"
                       => deployments[d].approvedBy # NoUser

\* The inductive invariant behind the gate.
GateInvariant ==
  /\ ApproverDistinct
  /\ ProductionGate
  /\ CallbacksSawApproval
  /\ WaitingIsUndecided

\* A production deployment is decided once: the approver on record is never replaced,
\* and an approved deployment never waits for approval again, although several
\* approvers and late CI callbacks may act on the row (the row lock and the status
\* check of decideApproval; updateStatus leaves approved_by alone).
DecidedOnce ==
  [][\A d \in Rows : deployments[d].approvedBy # NoUser =>
       /\ deployments'[d].approvedBy = deployments[d].approvedBy
       /\ deployments'[d].status # "awaiting_approval"]_vars

\* A rejected production deployment keeps the record of its rejection: no callback,
\* not even one that read the row earlier, moves it (the status route's check).
RejectionIsFinal ==
  [][\A d \in Rows :
       IsProduction(deployments[d]) /\ deployments[d].status = "cancelled"
         /\ deployments[d].approvedBy = NoUser
           => deployments'[d] = deployments[d]]_vars

\* updateStatus asks nothing of the current status, so a finished deployment can be
\* reported as running again. One that never started cannot, except by a callback
\* whose UPDATE had begun when the deployment ended (deployments_finish_after_start).
ReopenedOnlyByLateUpdate ==
  [][\A d \in Rows :
       deployments[d].status \in Terminal /\ deployments[d].startedAt = Null
         /\ deployments'[d].status = "running"
         => \E c \in Callbacks : /\ callbacks[c].step = "stamped"
                                 /\ callbacks[c].id = d
                                 /\ callbacks[c].at < deployments[d].finishedAt]_vars

\* A row as a release of the abstract approval gate; only production is gated.
VerdictOn(row) ==
  IF row = NoRow \/ ~IsProduction(row)
  THEN [decision |-> "absent", requester |-> NoUser, approver |-> NoUser, out |-> FALSE]
  ELSE [decision  |-> IF row.approvedBy # NoUser THEN "approved"
                      ELSE IF Awaiting(row) THEN "requested" ELSE "refused",
        requester |-> row.triggeredBy,
        approver  |-> row.approvedBy,
        out       |-> row.status \in {"running", "succeeded"}]

Verdicts == [d \in DeploymentIds |-> VerdictOn(deployments[d])]

Gate == INSTANCE ApprovalGate WITH
  Releases <- DeploymentIds, Operators <- Users, Nobody <- NoUser, gate <- Verdicts

\* Production deployments follow the approval gate the deployment guide promises.
ImplementsGate == Gate!Spec

\* services/deployments.ts:190-192: "Refuse to queue a second deployment for the same
\* target while one is live".
OneLivePerTarget == \A a \in Applications : Cardinality(InFlight(a)) <= 1

\* services/deployments.ts:325-326: "you can only ship to production something that
\* has run somewhere else first".
PromotionPath ==
  \A d \in Rows : IsProduction(deployments[d]) =>
    \E e \in Rows : /\ ~IsProduction(deployments[e])
                    /\ Key[deployments[e].application] = Key[deployments[d].application]
                    /\ deployments[e].version = deployments[d].version

\* services/deployments.ts:381: "the last success before the current version", the
\* current version being the one whose deployment succeeded last.
RollbackGoesBack ==
  \A a \in Applications : \A d \in Succeeded(a) :
    (\A e \in Succeeded(a) \ {d} : deployments[e].finishedAt < deployments[d].finishedAt)
      => deployments[d].version \notin RollbackTargets(a)

\* Every instant is somebody's own: no two statements began at the same one, no row ended
\* at that of a statement still to come, and what has ended has the time of its end.
ClockInvariant ==
  /\ \A c \in Callbacks : callbacks[c].step = "stamped" =>
       /\ callbacks[c].at \in 1 .. now
       /\ \A other \in Callbacks \ {c} :
            callbacks[other].step = "stamped" => callbacks[other].at # callbacks[c].at
       /\ \A d \in Rows : deployments[d].finishedAt # callbacks[c].at
  /\ \A d \in Rows : /\ deployments[d].finishedAt <= now
                     /\ deployments[d].status \in Terminal => deployments[d].finishedAt # Null

\* The tables keep their types, production its gate, and time its order.
DeploymentsInvariant == TypeOK /\ GateInvariant /\ ClockInvariant
=============================================================================
