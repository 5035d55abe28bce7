-------------------------- MODULE DeploymentsProofs --------------------------
(* Proofs that the approval gate holds for every value of the constants. *)
EXTENDS Deployments, ReviewPage, Dashboard, FiniteSetTheorems, TLAPS

\* A row is never NoRow, a served request never Idle: the sentinels have other shapes.
LEMMA Sentinels ==
  /\ \A row \in Row : row # NoRow
  /\ \A q \in Request : q # Idle
  /\ \A k \in Callback : k # Idle
BY DEF Row, NoRow, Request, Callback, Idle, Live, Terminal

LEMMA NewRowType ==
  \A q \in Request : NewRow(q) \in Row
BY DeploymentsAssumption DEF NewRow, Request, Row, Live, Instants, Null

LEMMA ApprovedType ==
  \A row \in Row, u \in Users : Approved(row, u) \in Row
BY DEF Approved, Row, Live

LEMMA RejectedType ==
  \A row \in Row, at \in Instants : Rejected(row, at) \in Row
BY DEF Rejected, Row, Terminal

LEMMA UpdatedType ==
  \A row \in Row, status \in Reportable, at \in Instants : Updated(row, status, at) \in Row
<1> SUFFICES ASSUME NEW row \in Row, NEW status \in Reportable, NEW at \in Instants
             PROVE  Updated(row, status, at) \in Row
  OBVIOUS
<1> DEFINE started  == IF status = "running" /\ row.startedAt = Null THEN at ELSE row.startedAt
           finished == IF status \in Terminal THEN at ELSE row.finishedAt
<1>1. status \in Live \union Terminal
  BY DEF Reportable, Live
<1>2. started \in Instants /\ finished \in Instants
  BY DEF Row
<1>3. Updated(row, status, at) =
        [row EXCEPT !.status = status, !.startedAt = started, !.finishedAt = finished]
  BY DEF Updated
<1> HIDE DEF started, finished
<1> QED BY <1>1, <1>2, <1>3 DEF Row


\* Typing needs one fact more: a callback being served read a row, and rows stay.
CallbacksHaveRows ==
  \A c \in Callbacks : callbacks[c] # Idle => callbacks[c].id \in Rows

TypeInv == TypeOK /\ CallbacksHaveRows

LEMMA TypeInit == Init => TypeInv
BY DeploymentsAssumption DEF Init, Instants, TypeInv, TypeOK, CallbacksHaveRows

LEMMA TypeStep == TypeInv /\ [Next]_vars => TypeInv'
<1> USE DEF TypeInv, TypeOK, CallbacksHaveRows
<1> SUFFICES ASSUME TypeInv, [Next]_vars PROVE TypeInv'
  OBVIOUS
<1>1. ASSUME NEW a \in Applications, SetOperationsEnabled(a) PROVE TypeInv'
  BY <1>1 DEF SetOperationsEnabled, Rows
<1>2. ASSUME NEW r \in Requests, NEW u \in Users, NEW a \in Applications,
             NEW v \in Versions, Resolve(r, u, a, v)
      PROVE  TypeInv'
  BY <1>2 DEF Resolve, Request, Rows
<1>3. ASSUME NEW a \in Applications, NEW v \in RollbackTargets(a) PROVE v \in Versions
  BY <1>3 DEF RollbackTargets, Succeeded, RowsOf, Rows, Row
<1>4. ASSUME NEW r \in Requests, CheckInFlight(r) PROVE TypeInv'
  BY <1>4 DEF CheckInFlight, Request, Idle, Rows
<1>5. ASSUME NEW r \in Requests, Insert(r) PROVE TypeInv'
  <2>1. requests[r] \in Request
    BY <1>5 DEF Insert, Idle
  <2> QED BY <1>5, <2>1, NewRowType, Sentinels DEF Insert, Rows
<1>6. ASSUME NEW u \in Users, NEW d \in DeploymentIds, NEW approve \in BOOLEAN,
             Decide(u, d, approve)
      PROVE  TypeInv'
  <2>1. deployments[d] \in Row /\ now' \in Instants
    BY <1>6, DeploymentsAssumption DEF Decide, Rows, Instants
  <2> QED BY <1>6, <2>1, ApprovedType, RejectedType, Sentinels DEF Decide, Rows
<1>7. ASSUME NEW c \in Callbacks, NEW u \in Users, NEW d \in DeploymentIds,
             NEW status \in Reportable, ReadForStatus(c, u, d, status)
      PROVE  TypeInv'
  BY <1>7, DeploymentsAssumption DEF ReadForStatus, Callback, Instants, Null, Rows
<1>8. ASSUME NEW c \in Callbacks, BeginUpdate(c) PROVE TypeInv'
  <2>1. callbacks[c] \in Callback /\ now' \in Instants
    BY <1>8, DeploymentsAssumption DEF BeginUpdate, Idle, Instants
  <2> QED BY <1>8, <2>1, Sentinels DEF BeginUpdate, Callback, Rows
<1>9. ASSUME NEW c \in Callbacks, ApplyUpdate(c) PROVE TypeInv'
  <2> DEFINE d   == callbacks[c].id
             row == Updated(deployments[d], callbacks[c].status, callbacks[c].at)
  <2>1. callbacks[c] \in Callback /\ d \in Rows
    BY <1>9, Sentinels DEF ApplyUpdate, Idle
  <2>2. row \in Row
    BY <2>1, UpdatedType DEF Callback, Rows
  <2>3. deployments' = [deployments EXCEPT ![d] = row] \/ deployments' = deployments
    BY <1>9 DEF ApplyUpdate
  <2>4. callbacks' = [callbacks EXCEPT ![c] = Idle]
        /\ UNCHANGED <<operationsEnabled, requests, now>>
    BY <1>9 DEF ApplyUpdate
  <2> HIDE DEF d, row
  <2> QED BY <2>1, <2>2, <2>3, <2>4, Sentinels DEF Rows
<1>10. CASE UNCHANGED vars
  BY <1>10 DEF vars, Rows
<1> QED BY <1>1, <1>2, <1>3, <1>4, <1>5, <1>6, <1>7, <1>8, <1>9, <1>10
        DEF Next, ResolveDeploy, ResolveRollback

LEMMA TypeInvariant == Spec => []TypeInv
BY TypeInit, TypeStep, PTL DEF Spec

\* The tables and the requests being served have their types in every reachable state.
THEOREM TypeCorrect == Spec => []TypeOK
<1>1. TypeInv => TypeOK
  BY DEF TypeInv
<1> QED BY <1>1, TypeInvariant, PTL

----------------------------------------------------------------------------
\* The approval gate.

\* The one thing a lost layer costs is its own check.
LEMMA OneLayerWorks ==
  AtMostOneLayerLost =>
    /\ Works("service") \/ Works("constraint")
    /\ Works("service") \/ Works("trigger")
BY DEF AtMostOneLayerLost, Works

\* The gate's invariant, of one row and of one callback.
RowGate(row) ==
  /\ row.approvedBy # row.triggeredBy
  /\ IsProduction(row) /\ row.status \in {"running", "succeeded"} => row.approvedBy # NoUser
  /\ Awaiting(row) => row.approvedBy = NoUser
  /\ IsProduction(row) /\ row.status = "pending" => row.approvedBy # NoUser

CallbackGate(callback) ==
  callback # Idle => callback.id \in Rows /\ ApprovalSeen(deployments[callback.id])

LEMMA GateByRow ==
  GateInvariant <=> /\ \A d \in Rows : RowGate(deployments[d])
                    /\ \A c \in Callbacks : CallbackGate(callbacks[c])
BY DEF GateInvariant, ApproverDistinct, ProductionGate, CallbacksSawApproval,
       WaitingIsUndecided, RowGate, CallbackGate

LEMMA GateByRowNext ==
  GateInvariant' <=> /\ \A d \in Rows' : RowGate(deployments'[d])
                     /\ \A c \in Callbacks : CallbackGate(callbacks[c])'
BY DEF GateInvariant, ApproverDistinct, ProductionGate, CallbacksSawApproval,
       WaitingIsUndecided, RowGate, CallbackGate, IsProduction, Awaiting

\* A step that replaces one row keeps the gate if the new row passes it and shows
\* every callback that read the old row an approval.
LEMMA GateReplaced ==
  ASSUME TypeInv, GateInvariant,
         NEW d \in DeploymentIds, NEW row \in Row,
         deployments' = [deployments EXCEPT ![d] = row],
         RowGate(row),
         d \in Rows => (ApprovalSeen(deployments[d]) => ApprovalSeen(row)),
         \A c \in Callbacks : callbacks'[c] \in {callbacks[c], Idle}
  PROVE  GateInvariant'
<1>1. Rows \subseteq Rows' /\ Rows' = Rows \union {d}
  BY Sentinels DEF Rows, TypeInv, TypeOK
<1>2. \A e \in Rows' : RowGate(deployments'[e])
  BY <1>1, GateByRow DEF TypeInv, TypeOK, Rows
<1>3. \A c \in Callbacks : CallbackGate(callbacks[c])'
  BY <1>1, GateByRow DEF CallbackGate, TypeInv, TypeOK, ApprovalSeen, IsProduction, Rows
<1> QED BY <1>2, <1>3, GateByRowNext

LEMMA GateInit == Init => GateInvariant
BY GateByRow DEF Init, Rows, CallbackGate

LEMMA GateStep ==
  AtMostOneLayerLost /\ TypeInv /\ GateInvariant /\ [Next]_vars => GateInvariant'
<1> SUFFICES ASSUME AtMostOneLayerLost, TypeInv, GateInvariant, [Next]_vars
             PROVE  GateInvariant'
  OBVIOUS
<1>1. ASSUME UNCHANGED <<deployments, callbacks>> PROVE GateInvariant'
  BY <1>1, GateByRow, GateByRowNext DEF Rows, CallbackGate, ApprovalSeen, IsProduction
<1>2. ASSUME NEW r \in Requests, Insert(r) PROVE GateInvariant'
  <2>1. PICK d \in DeploymentIds \ Rows :
          deployments' = [deployments EXCEPT ![d] = NewRow(requests[r])]
    BY <1>2 DEF Insert
  <2>2. requests[r] \in Request
    BY <1>2 DEF Insert, Idle, TypeInv, TypeOK
  <2>3. RowGate(NewRow(requests[r]))
    BY <2>2, DeploymentsAssumption DEF NewRow, Request, RowGate, IsProduction, Awaiting
  <2> QED BY <1>2, <2>1, <2>2, <2>3, NewRowType, GateReplaced DEF Insert
<1>3. ASSUME NEW u \in Users, NEW d \in DeploymentIds, NEW approve \in BOOLEAN,
             Decide(u, d, approve)
      PROVE  GateInvariant'
  <2> DEFINE old == deployments[d]
             row == IF approve THEN Approved(old, u) ELSE Rejected(old, now')
  <2>1. old \in Row /\ d \in Rows /\ now' \in Instants
    BY <1>3, DeploymentsAssumption DEF Decide, Rows, TypeInv, TypeOK, Instants
  <2>2. /\ deployments' = [deployments EXCEPT ![d] = row]
        /\ callbacks' = callbacks
        /\ Admissible(row) /\ Awaiting(old) /\ NotTheRequester(old, u)
    BY <1>3 DEF Decide
  <2>3. row \in Row
    BY <2>1, ApprovedType, RejectedType
  <2>4. RowGate(row)
    <3>1. CASE approve
      <4>1. /\ row.approvedBy = u /\ row.status = "pending"
            /\ row.triggeredBy = old.triggeredBy
        BY <2>1, <3>1 DEF Approved, Row
      <4>2. row.approvedBy # row.triggeredBy
        BY <2>2, <4>1, OneLayerWorks DEF Admissible, NotTheRequester
      <4> QED BY <4>1, <4>2, DeploymentsAssumption DEF RowGate, Awaiting
    <3>2. CASE ~approve
      BY <2>1, <2>2, <3>2, GateByRow DEF Rejected, Row, RowGate, Awaiting
    <3> QED BY <3>1, <3>2
  <2>5. ApprovalSeen(old) => ApprovalSeen(row)
    BY <2>1, DeploymentsAssumption DEF Approved, Rejected, Row, ApprovalSeen, IsProduction
  <2> HIDE DEF row
  <2> QED BY <2>1, <2>2, <2>3, <2>4, <2>5, GateReplaced
<1>4. ASSUME NEW c \in Callbacks, NEW u \in Users, NEW d \in DeploymentIds,
             NEW status \in Reportable, ReadForStatus(c, u, d, status)
      PROVE  GateInvariant'
  BY <1>4, GateByRow, GateByRowNext
     DEF ReadForStatus, CallbackGate, TypeInv, TypeOK, Rows, ApprovalSeen, IsProduction
<1>5. ASSUME NEW c \in Callbacks, BeginUpdate(c) PROVE GateInvariant'
  <2>1. callbacks[c] \in Callback
    BY <1>5 DEF BeginUpdate, Idle, TypeInv, TypeOK
  <2>2. \A k \in Callbacks : callbacks'[k] # Idle =>
          callbacks[k] # Idle /\ callbacks'[k].id = callbacks[k].id
    BY <1>5, <2>1, Sentinels DEF BeginUpdate, Callback, TypeInv, TypeOK
  <2> QED BY <1>5, <2>2, GateByRow, GateByRowNext
          DEF BeginUpdate, CallbackGate, Rows, ApprovalSeen, IsProduction
<1>6. ASSUME NEW c \in Callbacks, ApplyUpdate(c) PROVE GateInvariant'
  <2> DEFINE d   == callbacks[c].id
             old == deployments[d]
             row == Updated(old, callbacks[c].status, callbacks[c].at)
  <2>1. callbacks[c] \in Callback /\ callbacks[c] # Idle
    BY <1>6, Sentinels DEF ApplyUpdate, Idle, TypeInv, TypeOK
  <2>2. /\ d \in Rows /\ old \in Row /\ row \in Row /\ callbacks[c].status \in Reportable
        /\ ApprovalSeen(old) /\ RowGate(old)
    BY <2>1, UpdatedType, GateByRow DEF Callback, CallbackGate, Rows, TypeInv, TypeOK
  <2>3. callbacks' = [callbacks EXCEPT ![c] = Idle]
    BY <1>6 DEF ApplyUpdate
  <2>4. /\ row.status = callbacks[c].status
        /\ row.approvedBy = old.approvedBy
        /\ row.triggeredBy = old.triggeredBy
        /\ row.application = old.application
    BY <2>2 DEF Updated, Row
  <2>5. CASE Admissible(row)
    <3>1. deployments' = [deployments EXCEPT ![d] = row]
      BY <1>6, <2>5 DEF ApplyUpdate
    <3>2. RowGate(row)
      BY <2>2, <2>4, <2>5, OneLayerWorks
         DEF RowGate, Admissible, ApprovalSeen, IsProduction, Awaiting, Reportable, Terminal
    <3>3. ApprovalSeen(old) => ApprovalSeen(row)
      BY <2>4 DEF ApprovalSeen, IsProduction
    <3> HIDE DEF row, d
    <3> QED BY <2>2, <2>3, <3>1, <3>2, <3>3, GateReplaced DEF TypeInv, TypeOK, Rows
  <2>6. CASE ~Admissible(row)
    <3>1. deployments' = deployments
      BY <1>6, <2>6 DEF ApplyUpdate
    <3> QED BY <2>3, <3>1, GateByRow, GateByRowNext
            DEF CallbackGate, Rows, ApprovalSeen, IsProduction, TypeInv, TypeOK
  <2> QED BY <2>5, <2>6
<1> QED BY <1>1, <1>2, <1>3, <1>4, <1>5, <1>6
        DEF Next, vars, SetOperationsEnabled, ResolveDeploy, ResolveRollback, Resolve,
            CheckInFlight

\* Whatever one layer of the gate is lost, the invariant behind the gate holds.
THEOREM GateCorrect == AtMostOneLayerLost => (Spec => []GateInvariant)
<1>1. ASSUME AtMostOneLayerLost PROVE Spec => []GateInvariant
  BY <1>1, GateInit, GateStep, TypeInvariant, PTL DEF Spec
<1> QED BY <1>1

\* No operator approves their own deployment, even with one layer lost.
THEOREM ApproverIsDistinct == AtMostOneLayerLost => (Spec => []ApproverDistinct)
<1>1. GateInvariant => ApproverDistinct
  BY DEF GateInvariant
<1> QED BY <1>1, GateCorrect, PTL

\* No production deployment runs unapproved, even with one layer lost.
THEOREM ProductionIsGated == AtMostOneLayerLost => (Spec => []ProductionGate)
<1>1. GateInvariant => ProductionGate
  BY DEF GateInvariant
<1> QED BY <1>1, GateCorrect, PTL

----------------------------------------------------------------------------
\* How a step may change one row.

RowStep(d) ==
  \/ UNCHANGED deployments[d]
  \/ d \notin Rows /\ \E q \in Request : deployments'[d] = NewRow(q)
  \/ /\ d \in Rows /\ Awaiting(deployments[d])
     /\ \E u \in Users : /\ NotTheRequester(deployments[d], u)
                         /\ deployments'[d] = Approved(deployments[d], u)
                         /\ Admissible(deployments'[d])
  \/ /\ d \in Rows /\ Awaiting(deployments[d])
     /\ \E at \in Instants : deployments'[d] = Rejected(deployments[d], at)
  \/ /\ d \in Rows /\ ApprovalSeen(deployments[d])
     /\ \E status \in Reportable, at \in Instants :
          deployments'[d] = Updated(deployments[d], status, at)
     /\ Admissible(deployments'[d])

LEMMA OneRowChanges ==
  ASSUME TypeInv, NEW d \in DeploymentIds, NEW row,
         deployments' = [deployments EXCEPT ![d] = row]
  PROVE  /\ deployments'[d] = row
         /\ \A e \in DeploymentIds \ {d} : UNCHANGED deployments[e]
BY DEF TypeInv, TypeOK

LEMMA EveryRowStep ==
  ASSUME TypeInv, GateInvariant, [Next]_vars, NEW d \in DeploymentIds
  PROVE  RowStep(d)
<1>1. CASE UNCHANGED deployments
  BY <1>1 DEF RowStep
<1>2. ASSUME NEW r \in Requests, Insert(r) PROVE RowStep(d)
  <2>1. PICK e \in DeploymentIds \ Rows :
          deployments' = [deployments EXCEPT ![e] = NewRow(requests[r])]
    BY <1>2 DEF Insert
  <2>2. requests[r] \in Request
    BY <1>2 DEF Insert, Idle, TypeInv, TypeOK
  <2> QED BY <2>1, <2>2, OneRowChanges DEF RowStep
<1>3. ASSUME NEW u \in Users, NEW e \in DeploymentIds, NEW approve \in BOOLEAN,
             Decide(u, e, approve)
      PROVE  RowStep(d)
  <2>1. /\ e \in Rows /\ Awaiting(deployments[e]) /\ NotTheRequester(deployments[e], u)
        /\ now' \in Instants
    BY <1>3, DeploymentsAssumption DEF Decide, TypeInv, TypeOK, Instants
  <2>2. CASE approve
    <3>1. /\ deployments' = [deployments EXCEPT ![e] = Approved(deployments[e], u)]
          /\ Admissible(Approved(deployments[e], u))
      BY <1>3, <2>2 DEF Decide
    <3> QED BY <2>1, <3>1, OneRowChanges DEF RowStep
  <2>3. CASE ~approve
    <3>1. deployments' = [deployments EXCEPT ![e] = Rejected(deployments[e], now')]
      BY <1>3, <2>3 DEF Decide
    <3> QED BY <2>1, <3>1, OneRowChanges DEF RowStep
  <2> QED BY <2>2, <2>3
<1>4. ASSUME NEW c \in Callbacks, ApplyUpdate(c) PROVE RowStep(d)
  <2> DEFINE e   == callbacks[c].id
             row == Updated(deployments[e], callbacks[c].status, callbacks[c].at)
  <2>1. callbacks[c] \in Callback /\ callbacks[c] # Idle
    BY <1>4, Sentinels DEF ApplyUpdate, Idle, TypeInv, TypeOK
  <2>2. /\ e \in Rows /\ e \in DeploymentIds /\ ApprovalSeen(deployments[e])
        /\ callbacks[c].status \in Reportable /\ callbacks[c].at \in Instants
    BY <2>1, GateByRow DEF Callback, CallbackGate
  <2>3. CASE Admissible(row)
    <3>1. deployments' = [deployments EXCEPT ![e] = row]
      BY <1>4, <2>3 DEF ApplyUpdate
    <3> QED BY <2>2, <2>3, <3>1, OneRowChanges DEF RowStep
  <2>4. CASE ~Admissible(row)
    BY <1>1, <1>4, <2>4 DEF ApplyUpdate
  <2> QED BY <2>3, <2>4
<1> QED BY <1>1, <1>2, <1>3, <1>4
        DEF Next, vars, SetOperationsEnabled, ResolveDeploy, ResolveRollback, Resolve,
            CheckInFlight, ReadForStatus, BeginUpdate

\* The action properties speak of the rows there were, so a step that leaves the
\* variables alone satisfies them too.
LEMMA DecidedOnceStep ==
  ASSUME TypeInv, GateInvariant, [Next]_vars, NEW d \in Rows, deployments[d].approvedBy # NoUser
  PROVE  /\ deployments'[d].approvedBy = deployments[d].approvedBy
         /\ deployments'[d].status # "awaiting_approval"
<1>1. /\ deployments[d] \in Row
      /\ ~Awaiting(deployments[d])
  BY DEF TypeInv, TypeOK, Rows, GateInvariant, WaitingIsUndecided
<1>2. RowStep(d)
  BY EveryRowStep DEF Rows
<1>3. CASE UNCHANGED deployments[d]
  BY <1>1, <1>3 DEF Awaiting
<1>4. ASSUME NEW status \in Reportable, NEW at \in Instants,
             deployments'[d] = Updated(deployments[d], status, at)
      PROVE  /\ deployments'[d].approvedBy = deployments[d].approvedBy
             /\ deployments'[d].status # "awaiting_approval"
  BY <1>1, <1>4 DEF Updated, Row, Reportable, Terminal
<1> QED BY <1>1, <1>2, <1>3, <1>4 DEF RowStep

\* A production deployment is decided once.
THEOREM DecidedOnceHolds == AtMostOneLayerLost => (Spec => DecidedOnce)
<1>1. TypeInv /\ GateInvariant /\ [Next]_vars =>
        [\A d \in Rows : deployments[d].approvedBy # NoUser =>
           /\ deployments'[d].approvedBy = deployments[d].approvedBy
           /\ deployments'[d].status # "awaiting_approval"]_vars
  BY DecidedOnceStep
<1> QED BY <1>1, TypeInvariant, GateCorrect, PTL DEF Spec, DecidedOnce

LEMMA RejectionIsFinalStep ==
  ASSUME Works("service"), TypeInv, GateInvariant, [Next]_vars, NEW d \in Rows,
         IsProduction(deployments[d]), deployments[d].status = "cancelled",
         deployments[d].approvedBy = NoUser
  PROVE  deployments'[d] = deployments[d]
<1>1. RowStep(d)
  BY EveryRowStep DEF Rows
<1>2. ~ApprovalSeen(deployments[d]) /\ ~Awaiting(deployments[d])
  BY DEF ApprovalSeen, Awaiting
<1> QED BY <1>1, <1>2 DEF RowStep

\* The record of a rejection never moves while the service's own check works.
THEOREM RejectionIsFinalHolds ==
  AtMostOneLayerLost /\ Works("service") => (Spec => RejectionIsFinal)
<1>1. Works("service") /\ TypeInv /\ GateInvariant /\ [Next]_vars =>
        [\A d \in Rows :
           IsProduction(deployments[d]) /\ deployments[d].status = "cancelled"
             /\ deployments[d].approvedBy = NoUser
               => deployments'[d] = deployments[d]]_vars
  BY RejectionIsFinalStep
<1>2. ASSUME AtMostOneLayerLost, Works("service") PROVE Spec => RejectionIsFinal
  BY <1>1, <1>2, TypeInvariant, GateCorrect, PTL DEF Spec, RejectionIsFinal
<1> QED BY <1>2

----------------------------------------------------------------------------
\* Deployments implements ApprovalGate.

LEMMA OthersUnchanged ==
  ASSUME TypeInv, [Next]_vars
  PROVE  \/ UNCHANGED deployments
         \/ \E d \in DeploymentIds : \A e \in DeploymentIds \ {d} : UNCHANGED deployments[e]
<1>1. ASSUME NEW r \in Requests, Insert(r)
      PROVE  \E d \in DeploymentIds : \A e \in DeploymentIds \ {d} : UNCHANGED deployments[e]
  BY <1>1 DEF Insert, TypeInv, TypeOK
<1>2. ASSUME NEW u \in Users, NEW d \in DeploymentIds, NEW approve \in BOOLEAN,
             Decide(u, d, approve)
      PROVE  \A e \in DeploymentIds \ {d} : UNCHANGED deployments[e]
  BY <1>2 DEF Decide, TypeInv, TypeOK
<1>3. ASSUME NEW c \in Callbacks, ApplyUpdate(c)
      PROVE  \E d \in DeploymentIds : \A e \in DeploymentIds \ {d} : UNCHANGED deployments[e]
  <2>1. callbacks[c] \in Callback
    BY <1>3 DEF ApplyUpdate, Idle, TypeInv, TypeOK
  <2> QED BY <1>3, <2>1 DEF ApplyUpdate, Callback, TypeInv, TypeOK
<1> QED BY <1>1, <1>2, <1>3
        DEF Next, vars, SetOperationsEnabled, ResolveDeploy, ResolveRollback, Resolve,
            CheckInFlight, ReadForStatus, BeginUpdate

LEMMA VerdictsReplaced ==
  ASSUME NEW d \in DeploymentIds, \A e \in DeploymentIds \ {d} : UNCHANGED deployments[e]
  PROVE  Verdicts' = [Verdicts EXCEPT ![d] = VerdictOn(deployments'[d])]
BY DEF Verdicts, VerdictOn, IsProduction, Awaiting

\* The three verdicts a production row can have.
LEMMA RequestedVerdict ==
  ASSUME NEW row \in Row, IsProduction(row), Awaiting(row), row.approvedBy = NoUser
  PROVE  VerdictOn(row) = Gate!Verdict("requested", row.triggeredBy, NoUser, FALSE)
<1>1. row # NoRow
  BY Sentinels
<1>2. (row.status \in {"running", "succeeded"}) = FALSE
  BY DEF Awaiting
<1> QED BY <1>1, <1>2, Zenon DEF VerdictOn, Gate!Verdict

LEMMA RefusedVerdict ==
  ASSUME NEW row \in Row, IsProduction(row), ~Awaiting(row), row.approvedBy = NoUser,
         RowGate(row)
  PROVE  VerdictOn(row) = Gate!Verdict("refused", row.triggeredBy, NoUser, FALSE)
<1>1. row # NoRow
  BY Sentinels
<1>2. (row.status \in {"running", "succeeded"}) = FALSE
  BY DEF RowGate
<1> QED BY <1>1, <1>2, Zenon DEF VerdictOn, Gate!Verdict

LEMMA ApprovedVerdict ==
  ASSUME NEW row \in Row, IsProduction(row), row.approvedBy # NoUser
  PROVE  \E out \in BOOLEAN : 
           /\ VerdictOn(row) = Gate!Verdict("approved", row.triggeredBy, row.approvedBy, out)
           /\ out = (row.status \in {"running", "succeeded"})
<1>1. row # NoRow
  BY Sentinels
<1>2. (row.status \in {"running", "succeeded"}) \in BOOLEAN
  OBVIOUS
<1> QED BY <1>1, <1>2, Zenon DEF VerdictOn, Gate!Verdict

LEMMA VerdictFields ==
  ASSUME NEW outcome, NEW requester, NEW approver, NEW out
  PROVE  /\ Gate!Verdict(outcome, requester, approver, out).decision = outcome
         /\ Gate!Verdict(outcome, requester, approver, out).requester = requester
         /\ Gate!Verdict(outcome, requester, approver, out).approver = approver
BY DEF Gate!Verdict

\* A step that changes only row d is a step of the gate, or invisible to it.
LEMMA RowStepImplements ==
  ASSUME AtMostOneLayerLost, TypeInv, TypeInv', GateInvariant, GateInvariant',
         NEW d \in DeploymentIds, RowStep(d),
         \A e \in DeploymentIds \ {d} : UNCHANGED deployments[e]
  PROVE  Gate!Next \/ UNCHANGED Verdicts
<1> DEFINE old == deployments[d]
           new == deployments'[d]
           GateStepOf == Gate!Next \/ UNCHANGED Verdicts
<1>1. Verdicts' = [Verdicts EXCEPT ![d] = VerdictOn(new)]
  BY VerdictsReplaced
<1>2. Verdicts[d] = VerdictOn(old) /\ Verdicts = [Verdicts EXCEPT ![d] = VerdictOn(old)]
  BY DEF Verdicts
<1>3. ASSUME VerdictOn(new) = VerdictOn(old) PROVE GateStepOf
  BY <1>1, <1>2, <1>3
<1>4. d \in Rows => old \in Row /\ RowGate(old)
  BY GateByRow DEF TypeInv, TypeOK, Rows
<1>5. ASSUME NEW row \in Row, new = row PROVE RowGate(row)
  <2>1. d \in Rows'
    BY <1>5, Sentinels DEF Rows
  <2> QED BY <1>5, <2>1, GateByRowNext
<1>6. ASSUME d \notin Rows, NEW q \in Request, new = NewRow(q) PROVE GateStepOf
  <2>1. VerdictOn(old) = Gate!Absent
    BY <1>6 DEF VerdictOn, Rows, Gate!Absent, Gate!Verdict
  <2>2. /\ new \in Row /\ new.approvedBy = NoUser /\ new.triggeredBy = q.user
        /\ IsProduction(new) => Awaiting(new)
    BY <1>6, NewRowType DEF NewRow, IsProduction, Awaiting
  <2>3. CASE IsProduction(new)
    <3>1. VerdictOn(new) = Gate!Verdict("requested", q.user, NoUser, FALSE)
      BY <2>2, <2>3, RequestedVerdict
    <3>2. q.user \in Users
      BY DEF Request
    <3> QED BY <1>1, <1>2, <2>1, <3>1, <3>2 DEF Gate!Next, Gate!Request
  <2>4. CASE ~IsProduction(new)
    <3>1. VerdictOn(new) = Gate!Absent
      BY <2>4 DEF VerdictOn, Gate!Absent, Gate!Verdict
    <3> QED BY <1>3, <2>1, <3>1
  <2> QED BY <2>3, <2>4
<1>7. ASSUME d \in Rows, new \in Row, ~IsProduction(old), new.application = old.application
      PROVE  GateStepOf
  <2>1. VerdictOn(new) = VerdictOn(old)
    BY <1>7 DEF VerdictOn, IsProduction
  <2> QED BY <1>3, <2>1
<1>8. ASSUME d \in Rows, IsProduction(old), Awaiting(old), NEW u \in Users,
             NotTheRequester(old, u), new = Approved(old, u), Admissible(new)
      PROVE  GateStepOf
  <2>1. /\ new \in Row /\ new.approvedBy = u /\ new.triggeredBy = old.triggeredBy
        /\ IsProduction(new) /\ new.status = "pending"
    BY <1>4, <1>8, ApprovedType DEF Approved, Row, IsProduction
  <2>2. u # old.triggeredBy
    BY <1>8, <2>1, OneLayerWorks DEF NotTheRequester, Admissible
  <2>3. VerdictOn(old) = Gate!Verdict("requested", old.triggeredBy, NoUser, FALSE)
    BY <1>4, <1>8, RequestedVerdict DEF RowGate
  <2>4. u # NoUser
    BY DeploymentsAssumption
  <2>5. (new.status \in {"running", "succeeded"}) = FALSE
    BY <2>1
  <2>6. VerdictOn(new) = Gate!Verdict("approved", old.triggeredBy, u, FALSE)
    BY <2>1, <2>4, <2>5, ApprovedVerdict
  <2>7. Gate!Approve(d, u)
    <3>1. Verdicts[d].decision = "requested" /\ Verdicts[d].requester = old.triggeredBy
      BY <1>2, <2>3 DEF Gate!Verdict
    <3> QED BY <1>1, <2>2, <2>6, <3>1 DEF Gate!Approve
  <2> QED BY <2>7 DEF Gate!Next
<1>9. ASSUME d \in Rows, IsProduction(old), new \in Row, new.application = old.application,
             new.triggeredBy = old.triggeredBy, new.approvedBy = old.approvedBy,
             ~Awaiting(new)
      PROVE  GateStepOf
  <2>1. IsProduction(new)
    BY <1>9 DEF IsProduction
  <2>2. CASE old.approvedBy # NoUser
    <3>1. \E out \in BOOLEAN :
            VerdictOn(old) = Gate!Verdict("approved", old.triggeredBy, old.approvedBy, out)
      BY <1>4, <1>9, <2>2, ApprovedVerdict
    <3>2. \E out \in BOOLEAN :
            VerdictOn(new) = Gate!Verdict("approved", old.triggeredBy, old.approvedBy, out)
      BY <1>9, <2>1, <2>2, ApprovedVerdict
    <3>3. Gate!Report(d)
      <4>1. /\ Verdicts[d].decision = "approved"
            /\ Verdicts[d].requester = old.triggeredBy
            /\ Verdicts[d].approver = old.approvedBy
        BY <1>2, <3>1, VerdictFields
      <4> QED BY <1>1, <3>2, <4>1 DEF Gate!Report
    <3> QED BY <3>3 DEF Gate!Next
  <2>3. CASE old.approvedBy = NoUser
    <3>1. VerdictOn(new) = Gate!Verdict("refused", old.triggeredBy, NoUser, FALSE)
      BY <1>5, <1>9, <2>1, <2>3, RefusedVerdict
    <3>2. CASE Awaiting(old)
      <4>1. VerdictOn(old) = Gate!Verdict("requested", old.triggeredBy, NoUser, FALSE)
        BY <1>4, <1>9, <2>3, <3>2, RequestedVerdict
      <4>2. Gate!Refuse(d)
        <5>1. Verdicts[d].decision = "requested" /\ Verdicts[d].requester = old.triggeredBy
          BY <1>2, <4>1 DEF Gate!Verdict
        <5> QED BY <1>1, <3>1, <5>1 DEF Gate!Refuse
      <4> QED BY <4>2 DEF Gate!Next
    <3>3. CASE ~Awaiting(old)
      <4>1. VerdictOn(old) = Gate!Verdict("refused", old.triggeredBy, NoUser, FALSE)
        BY <1>4, <1>9, <2>3, <3>3, RefusedVerdict
      <4> QED BY <1>3, <3>1, <4>1
    <3> QED BY <3>2, <3>3
  <2> QED BY <2>2, <2>3
<1>10. ASSUME d \in Rows, NEW at \in Instants, new = Rejected(old, at) PROVE GateStepOf
  <2>1. /\ new \in Row /\ new.application = old.application
        /\ new.triggeredBy = old.triggeredBy /\ new.approvedBy = old.approvedBy
        /\ ~Awaiting(new)
    BY <1>4, <1>10, RejectedType DEF Rejected, Row, Awaiting
  <2> QED BY <1>7, <1>9, <1>10, <2>1
<1>11. ASSUME d \in Rows, NEW status \in Reportable, NEW at \in Instants,
              new = Updated(old, status, at)
       PROVE  GateStepOf
  <2>1. /\ new \in Row /\ new.application = old.application
        /\ new.triggeredBy = old.triggeredBy /\ new.approvedBy = old.approvedBy
        /\ ~Awaiting(new)
    <3>1. new \in Row
      BY <1>4, <1>11, UpdatedType
    <3>2. status # "awaiting_approval"
      BY DEF Reportable, Terminal
    <3> QED BY <1>4, <1>11, <3>1, <3>2 DEF Updated, Row, Awaiting
  <2> QED BY <1>7, <1>9, <1>11, <2>1
<1>12. ASSUME d \in Rows, NEW u \in Users, new = Approved(old, u)
       PROVE  new \in Row /\ new.application = old.application
  BY <1>4, <1>12, ApprovedType DEF Approved, Row
<1>13. CASE UNCHANGED deployments[d]
  BY <1>3, <1>13
<1> QED BY <1>6, <1>7, <1>8, <1>10, <1>11, <1>12, <1>13 DEF RowStep

LEMMA GateInitImplemented == Init => Gate!Init
BY DEF Init, Gate!Init, Verdicts, VerdictOn, Gate!Absent, Gate!Verdict

LEMMA StepImplements ==
  ASSUME AtMostOneLayerLost, TypeInv, TypeInv', GateInvariant, GateInvariant', [Next]_vars
  PROVE  [Gate!Next]_Verdicts
<1>1. CASE UNCHANGED deployments
  BY <1>1 DEF Verdicts, VerdictOn, IsProduction, Awaiting
<1>2. ASSUME NEW d \in DeploymentIds,
             \A e \in DeploymentIds \ {d} : UNCHANGED deployments[e]
      PROVE  [Gate!Next]_Verdicts
  BY <1>2, EveryRowStep, RowStepImplements
<1> QED BY <1>1, <1>2, OthersUnchanged

\* Production deployments follow the approval gate, even with one layer lost.
THEOREM GateImplemented == AtMostOneLayerLost => (Spec => ImplementsGate)
<1>1. AtMostOneLayerLost /\ TypeInv /\ TypeInv' /\ GateInvariant /\ GateInvariant'
        /\ [Next]_vars => [Gate!Next]_Verdicts
  BY StepImplements
<1>2. ASSUME AtMostOneLayerLost PROVE Spec => ImplementsGate
  BY <1>1, <1>2, GateInitImplemented, TypeInvariant, GateCorrect, PTL
     DEF Spec, ImplementsGate, Gate!Spec
<1> QED BY <1>2

----------------------------------------------------------------------------
\* Time.

LEMMA RowEnds ==
  ASSUME TypeInv
  PROVE  \A d \in Rows : deployments[d] \in Row /\ deployments[d].finishedAt \in Nat
<1>1. \A d \in Rows : deployments[d] \in Row
  BY DEF TypeInv, TypeOK, Rows
<1>2. \A row \in Row : row.finishedAt \in Instants
  BY DEF Row
<1>3. Instants \subseteq Nat
  BY DeploymentsAssumption DEF Instants
<1> QED BY <1>1, <1>2, <1>3

LEMMA EndsAreOver ==
  ASSUME TypeInv, ClockInvariant, NEW n \in Nat, now <= n
  PROVE  \A d \in Rows : /\ deployments[d].finishedAt \in Nat
                         /\ deployments[d].finishedAt <= now /\ deployments[d].finishedAt <= n
                         /\ deployments[d].status \in Terminal => deployments[d].finishedAt # Null
<1> SUFFICES ASSUME NEW d \in Rows
             PROVE  /\ deployments[d].finishedAt \in Nat
                    /\ deployments[d].finishedAt <= now /\ deployments[d].finishedAt <= n
                    /\ deployments[d].status \in Terminal => deployments[d].finishedAt # Null
  OBVIOUS
<1>1. PICK end : end = deployments[d].finishedAt
  OBVIOUS
<1>2. deployments[d].finishedAt <= now
  BY DEF ClockInvariant
<1>3. deployments[d].status \in Terminal => deployments[d].finishedAt # Null
  BY DEF ClockInvariant
<1>4. end \in Nat /\ now \in Nat
  BY <1>1, RowEnds, DeploymentsAssumption DEF TypeInv, TypeOK, Instants
<1> QED BY <1>1, <1>2, <1>3, <1>4

\* A row that is replaced by one whose end is nobody's stamp keeps every instant distinct.
LEMMA ClockReplaced ==
  ASSUME TypeInv, ClockInvariant, NEW d \in DeploymentIds, NEW row \in Row,
         deployments' = [deployments EXCEPT ![d] = row],
         now' \in Nat, now <= now',
         \A c \in Callbacks : callbacks'[c] \in {callbacks[c], Idle},
         row.finishedAt <= now',
         row.status \in Terminal => row.finishedAt # Null,
         \A c \in Callbacks : callbacks'[c].step = "stamped" => row.finishedAt # callbacks'[c].at
  PROVE  ClockInvariant'
<1>1. \A c \in Callbacks : callbacks'[c].step = "stamped" => callbacks'[c] = callbacks[c]
  BY DEF Idle
<1>2. now \in Nat
  BY DeploymentsAssumption DEF TypeInv, TypeOK, Instants
<1>3. /\ deployments'[d] = row
      /\ \A e \in Rows' : e # d => e \in Rows /\ deployments'[e] = deployments[e]
  BY DEF Rows, TypeInv, TypeOK
<1>4. \A e \in Rows : /\ deployments[e].finishedAt \in Nat /\ deployments[e].finishedAt <= now'
                      /\ deployments[e].status \in Terminal => deployments[e].finishedAt # Null
  BY <1>2, EndsAreOver
<1>5. ASSUME NEW c \in Callbacks, callbacks'[c].step = "stamped"
      PROVE  /\ callbacks'[c].at \in 1 .. now'
             /\ \A other \in Callbacks \ {c} :
                  callbacks'[other].step = "stamped" => callbacks'[other].at # callbacks'[c].at
             /\ \A e \in Rows' : deployments'[e].finishedAt # callbacks'[c].at
  <2>1. callbacks'[c] = callbacks[c] /\ callbacks[c].at \in 1 .. now
    BY <1>1, <1>5 DEF ClockInvariant
  <2>2. callbacks'[c].at \in 1 .. now'
    BY <1>2, <2>1
  <2> QED BY <1>1, <1>3, <1>5, <2>1, <2>2 DEF ClockInvariant
<1>6. ASSUME NEW e \in Rows'
      PROVE  /\ deployments'[e].finishedAt <= now'
             /\ deployments'[e].status \in Terminal => deployments'[e].finishedAt # Null
  <2>1. CASE e = d
    BY <1>3, <2>1
  <2>2. CASE e # d
    <3>1. e \in Rows /\ deployments'[e] = deployments[e]
      BY <1>3, <1>6, <2>2
    <3>2. /\ deployments[e].finishedAt <= now'
          /\ deployments[e].status \in Terminal => deployments[e].finishedAt # Null
      BY <1>4, <3>1
    <3> QED BY <3>1, <3>2, Zenon
  <2> QED BY <2>1, <2>2
<1> QED BY <1>5, <1>6 DEF ClockInvariant

\* Where no row changes and no UPDATE begins, nothing is stamped anew.
LEMMA ClockLasts ==
  ASSUME ClockInvariant, UNCHANGED <<deployments, now>>,
         \A c \in Callbacks : callbacks'[c] = callbacks[c] \/ callbacks'[c].step # "stamped"
  PROVE  ClockInvariant'
BY DEF ClockInvariant, Rows

LEMMA ClockStep == TypeInv /\ ClockInvariant /\ [Next]_vars => ClockInvariant'
<1> SUFFICES ASSUME TypeInv, ClockInvariant, [Next]_vars PROVE ClockInvariant'
  OBVIOUS
<1>N. now \in Nat
  BY DeploymentsAssumption DEF TypeInv, TypeOK, Instants
<1>1. CASE UNCHANGED <<deployments, callbacks, now>>
  BY <1>1, ClockLasts
<1>2. ASSUME NEW r \in Requests, Insert(r) PROVE ClockInvariant'
  <2>1. PICK d \in DeploymentIds \ Rows :
          deployments' = [deployments EXCEPT ![d] = NewRow(requests[r])]
    BY <1>2 DEF Insert
  <2>2. requests[r] \in Request
    BY <1>2 DEF Insert, Idle, TypeInv, TypeOK
  <2>3. PICK row : row = NewRow(requests[r])
    OBVIOUS
  <2>4. row \in Row /\ row.finishedAt = Null /\ row.status \notin Terminal
    BY <2>2, <2>3, NewRowType DEF NewRow, Terminal
  <2>5. /\ callbacks' = callbacks /\ now' = now /\ now' \in Nat /\ now <= now'
        /\ \A c \in Callbacks : callbacks'[c] \in {callbacks[c], Idle}
    BY <1>2, <1>N DEF Insert
  <2>6. \A c \in Callbacks : callbacks'[c].step = "stamped" => row.finishedAt # callbacks'[c].at
    BY <2>4, <2>5 DEF ClockInvariant, Null
  <2>7. row.finishedAt <= now'
    BY <1>N, <2>4, <2>5 DEF Null
  <2>8. deployments' = [deployments EXCEPT ![d] = row]
    BY <2>1, <2>3
  <2> QED BY <1>N, <2>4, <2>5, <2>6, <2>7, <2>8, ClockReplaced
<1>3. ASSUME NEW u \in Users, NEW d \in DeploymentIds, NEW approve \in BOOLEAN,
             Decide(u, d, approve)
      PROVE  ClockInvariant'
  <2>1. /\ d \in Rows /\ deployments[d] \in Row /\ now' = now + 1 /\ now' \in Instants
        /\ callbacks' = callbacks /\ now' \in Nat /\ now <= now'
        /\ \A c \in Callbacks : callbacks'[c] \in {callbacks[c], Idle}
    BY <1>3, <1>N, RowEnds, DeploymentsAssumption DEF Decide, Instants
  <2>2. deployments[d].finishedAt <= now'
    BY <2>1, EndsAreOver
  <2>3. CASE approve
    <3>1. PICK row : row = Approved(deployments[d], u)
      OBVIOUS
    <3>2. deployments' = [deployments EXCEPT ![d] = row]
      BY <1>3, <2>3, <3>1 DEF Decide
    <3>3. row \in Row /\ row.finishedAt = deployments[d].finishedAt /\ row.status \notin Terminal
      BY <2>1, <3>1, ApprovedType DEF Approved, Row, Terminal
    <3>4. \A c \in Callbacks : callbacks'[c].step = "stamped" => row.finishedAt # callbacks'[c].at
      BY <2>1, <3>3 DEF ClockInvariant
    <3>5. d \in DeploymentIds
      BY <2>1 DEF Rows
    <3> QED BY <2>1, <2>2, <3>2, <3>3, <3>4, <3>5, ClockReplaced
  <2>4. CASE ~approve
    <3>1. PICK row : row = Rejected(deployments[d], now')
      OBVIOUS
    <3>2. deployments' = [deployments EXCEPT ![d] = row]
      BY <1>3, <2>4, <3>1 DEF Decide
    <3>3. row \in Row /\ row.finishedAt = now'
      BY <2>1, <3>1, RejectedType DEF Rejected, Row
    <3>4. \A c \in Callbacks : callbacks'[c].step = "stamped" => row.finishedAt # callbacks'[c].at
      <4>1. \A c \in Callbacks : callbacks[c].step = "stamped" => callbacks[c].at \in 1 .. now
        BY DEF ClockInvariant
      <4> QED BY <1>N, <2>1, <3>3, <4>1
    <3>5. d \in DeploymentIds /\ row.finishedAt <= now' /\ row.finishedAt # Null
      BY <1>N, <2>1, <3>3 DEF Rows, Null
    <3> QED BY <2>1, <3>2, <3>3, <3>4, <3>5, ClockReplaced
  <2> QED BY <2>3, <2>4
<1>4. ASSUME NEW c \in Callbacks, NEW u \in Users, NEW d \in DeploymentIds,
             NEW status \in Reportable, ReadForStatus(c, u, d, status)
      PROVE  ClockInvariant'
  BY <1>4, ClockLasts DEF ReadForStatus, TypeInv, TypeOK
<1>5. ASSUME NEW r \in Requests, CheckInFlight(r) PROVE ClockInvariant'
  BY <1>1, <1>5 DEF CheckInFlight
<1>6. ASSUME NEW c \in Callbacks, BeginUpdate(c) PROVE ClockInvariant'
  <2>1. callbacks[c] \in Callback
    BY <1>6 DEF BeginUpdate, Idle, TypeInv, TypeOK
  <2>2. now' = now + 1 /\ UNCHANGED deployments
    BY <1>6 DEF BeginUpdate
  <2>3. /\ callbacks'[c].at = now'
        /\ \A other \in Callbacks \ {c} : callbacks'[other] = callbacks[other]
    BY <1>6, <2>1 DEF BeginUpdate, TypeInv, TypeOK, Callback
  <2>4. \A other \in Callbacks :
          callbacks[other].step = "stamped" => /\ callbacks[other].at # now'
                                               /\ callbacks[other].at \in 1 .. now'
    BY <1>N, <2>2 DEF ClockInvariant
  <2>5. \A d \in Rows : deployments[d].finishedAt # now' /\ deployments[d].finishedAt <= now'
    <3>1. now' \in Nat /\ now <= now' /\ now # now' /\ \A end \in Nat : end <= now => end # now'
      BY <1>N, <2>2
    <3> QED BY <3>1, EndsAreOver
  <2>6. now' \in 1 .. now'
    BY <1>N, <2>2
  <2>7. Rows' = Rows
    BY <2>2 DEF Rows
  <2>8. ASSUME NEW x \in Callbacks, callbacks'[x].step = "stamped"
        PROVE  /\ callbacks'[x].at \in 1 .. now'
               /\ \A other \in Callbacks \ {x} :
                    callbacks'[other].step = "stamped" => callbacks'[other].at # callbacks'[x].at
               /\ \A d \in Rows : deployments[d].finishedAt # callbacks'[x].at
    <3>1. CASE x = c
      BY <2>3, <2>4, <2>5, <2>6, <3>1
    <3>2. CASE x # c
      BY <2>3, <2>4, <2>8, <3>2 DEF ClockInvariant
    <3> QED BY <3>1, <3>2
  <2>9. \A d \in Rows : deployments[d].status \in Terminal => deployments[d].finishedAt # Null
    BY <1>N, EndsAreOver
  <2> QED BY <2>2, <2>5, <2>7, <2>8, <2>9 DEF ClockInvariant
<1>7. ASSUME NEW c \in Callbacks, ApplyUpdate(c) PROVE ClockInvariant'
  <2>1. PICK k : k = callbacks[c]
    OBVIOUS
  <2>2. k \in Callback /\ k # Idle /\ k.step = "stamped"
    BY <1>7, <2>1, Sentinels DEF ApplyUpdate, Idle, TypeInv, TypeOK
  <2>3. PICK row : row = Updated(deployments[k.id], k.status, k.at)
    OBVIOUS
  <2>0. k.id \in Rows /\ deployments[k.id] \in Row /\ k.status \in Reportable /\ k.at \in Instants
    BY <2>1, <2>2, RowEnds DEF TypeInv, CallbacksHaveRows, Callback
  <2>4. /\ row \in Row
        /\ row.finishedAt = IF k.status \in Terminal THEN k.at ELSE deployments[k.id].finishedAt
        /\ row.status = k.status
    BY <2>0, <2>3, UpdatedType DEF Updated, Row
  <2>5. k.at \in 1 .. now
    BY <1>7, <2>1, <2>2 DEF ClockInvariant
  <2>6. /\ callbacks' = [callbacks EXCEPT ![c] = Idle] /\ now' = now
        /\ deployments' = IF Admissible(row) THEN [deployments EXCEPT ![k.id] = row]
                                             ELSE deployments
    BY <1>7, <2>1, <2>3 DEF ApplyUpdate
  <2>7. CASE ~Admissible(row)
    BY <2>6, <2>7, ClockLasts DEF Idle, TypeInv, TypeOK
  <2>8. CASE Admissible(row)
    <3>1. \A other \in Callbacks : callbacks'[other] \in {callbacks[other], Idle}
      BY <2>6 DEF TypeInv, TypeOK
    <3>2. \A other \in Callbacks : callbacks'[other].step = "stamped" =>
            /\ other # c /\ callbacks'[other] = callbacks[other]
      BY <2>6 DEF TypeInv, TypeOK, Idle
    <3>3. \A other \in Callbacks :
            callbacks'[other].step = "stamped" => row.finishedAt # callbacks'[other].at
      <4>1. \A other \in Callbacks \ {c} : callbacks[other].step = "stamped" =>
              callbacks[other].at # k.at /\ callbacks[other].at # deployments[k.id].finishedAt
        BY <2>0, <2>1, <2>2 DEF ClockInvariant
      <4> QED BY <2>4, <3>2, <4>1
    <3>4. row.finishedAt <= now'
      <4>1. deployments[k.id].finishedAt <= now /\ k.at <= now
        BY <1>N, <2>0, <2>5, EndsAreOver
      <4> QED BY <2>4, <2>6, <4>1
    <3>5. row.status \in Terminal => row.finishedAt # Null
      <4>1. k.at # Null
        BY <1>N, <2>5 DEF Null
      <4>2. row.status \in Terminal => row.finishedAt = k.at
        BY <2>4
      <4> QED BY <4>1, <4>2
    <3>6. k.id \in DeploymentIds /\ deployments' = [deployments EXCEPT ![k.id] = row]
      BY <2>0, <2>6, <2>8 DEF Rows
    <3>7. now' \in Nat /\ now <= now'
      BY <1>N, <2>6
    <3> QED BY <2>4, <3>7, <3>1, <3>3, <3>4, <3>5, <3>6, ClockReplaced
  <2> QED BY <2>7, <2>8
<1> QED BY <1>1, <1>2, <1>3, <1>4, <1>5, <1>6, <1>7
        DEF Next, vars, SetOperationsEnabled, ResolveDeploy, ResolveRollback, Resolve

\* No two statements share an instant, and what has ended has the time of its end, whichever
\* layers of the gate are lost (now() is fixed when a statement begins).
THEOREM ClockCorrect == Spec => []ClockInvariant
<1>1. Init => ClockInvariant
  BY DEF Init, ClockInvariant, Rows, Idle
<1> QED BY <1>1, ClockStep, TypeInvariant, PTL DEF Spec

LEMMA ReopenedStep ==
  ASSUME TypeInv, ClockInvariant, [Next]_vars, NEW d \in Rows,
         deployments[d].status \in Terminal, deployments[d].startedAt = Null,
         deployments'[d].status = "running"
  PROVE  \E c \in Callbacks : /\ callbacks[c].step = "stamped"
                              /\ callbacks[c].id = d
                              /\ callbacks[c].at < deployments[d].finishedAt
<1>1. deployments[d].status # "running" /\ ~Awaiting(deployments[d])
  BY DEF Terminal, Awaiting
<1>2. PICK c \in Callbacks : ApplyUpdate(c)
  <2>1. ASSUME NEW r \in Requests, Insert(r) PROVE FALSE
    BY <1>1, <2>1 DEF Insert, TypeInv, TypeOK
  <2>2. ASSUME NEW u \in Users, NEW e \in DeploymentIds, NEW approve \in BOOLEAN,
               Decide(u, e, approve)
        PROVE  FALSE
    <3>1. e # d
      BY <1>1, <2>2 DEF Decide
    <3> QED BY <1>1, <2>2, <3>1 DEF Decide, TypeInv, TypeOK
  <2> QED BY <1>1, <2>1, <2>2
          DEF Next, vars, SetOperationsEnabled, ResolveDeploy, ResolveRollback, Resolve,
              CheckInFlight, ReadForStatus, BeginUpdate
<1>3. PICK k : k = callbacks[c]
  OBVIOUS
<1>4. k \in Callback /\ k.step = "stamped"
  BY <1>2, <1>3 DEF ApplyUpdate, Idle, TypeInv, TypeOK
<1>5. PICK row : row = Updated(deployments[k.id], k.status, k.at)
  OBVIOUS
<1>6. /\ Admissible(row) /\ k.id = d /\ deployments'[d] = row
  BY <1>1, <1>2, <1>3, <1>5 DEF ApplyUpdate, TypeInv, TypeOK
<1>7. deployments[d] \in Row /\ row.status = k.status
  BY <1>5, <1>6 DEF TypeInv, TypeOK, Rows, Updated, Row
<1>8. k.status = "running"
  BY <1>6, <1>7
<1>9. row.startedAt = k.at /\ row.finishedAt = deployments[d].finishedAt
  BY <1>5, <1>6, <1>7, <1>8 DEF Updated, Row, Terminal
<1>10. /\ k.at \in 1 .. now /\ deployments[d].finishedAt # k.at
       /\ deployments[d].finishedAt # Null /\ deployments[d].finishedAt \in Nat
  <2>1. deployments[d].finishedAt # Null /\ deployments[d].finishedAt \in Nat
    <3>1. now \in Nat
      BY DeploymentsAssumption DEF TypeInv, TypeOK, Instants
    <3> QED BY <3>1, EndsAreOver
  <2> QED BY <1>3, <1>4, <2>1 DEF ClockInvariant
<1>11. deployments[d].finishedAt >= k.at
  BY <1>6, <1>9, <1>10 DEF Admissible, Null
<1>12. now \in Nat
  BY DeploymentsAssumption DEF TypeInv, TypeOK, Instants
<1>13. k.at < deployments[d].finishedAt
  BY <1>10, <1>11, <1>12
<1> QED BY <1>3, <1>4, <1>6, <1>13

\* A deployment that ended before it started is reported as running only by a callback whose
\* UPDATE had begun when it ended (finish_after_start compares the two times).
THEOREM ReopenedOnlyByLateUpdateHolds == Spec => ReopenedOnlyByLateUpdate
<1>1. TypeInv /\ ClockInvariant /\ [Next]_vars =>
        [\A d \in Rows :
           deployments[d].status \in Terminal /\ deployments[d].startedAt = Null
             /\ deployments'[d].status = "running"
             => \E c \in Callbacks : /\ callbacks[c].step = "stamped"
                                     /\ callbacks[c].id = d
                                     /\ callbacks[c].at < deployments[d].finishedAt]_vars
  BY ReopenedStep
<1> QED BY <1>1, TypeInvariant, ClockCorrect, PTL DEF Spec, ReopenedOnlyByLateUpdate

\* With at most one layer lost, the tables keep their types, production its gate, and time
\* its order.
THEOREM DeploymentsCorrect == AtMostOneLayerLost => (Spec => []DeploymentsInvariant)
<1>1. TypeOK /\ GateInvariant /\ ClockInvariant => DeploymentsInvariant
  BY DEF DeploymentsInvariant
<1> QED BY <1>1, TypeCorrect, GateCorrect, ClockCorrect, PTL
----------------------------------------------------------------------------
\* The page that reviews production deployments (ReviewPage).

LEMMA ReviewTyped ==
  ASSUME ReviewTypeOK
  PROVE  /\ verdicts \in [Releases -> Verdict] /\ \A d \in Releases : verdicts[d] \in Verdict
         /\ review.dialog \in Releases \union {NoReview} /\ review.note \in Note \union {NoReview}
         /\ review.busy \in BOOLEAN /\ review.error \in Releases \union {NoReview}
         /\ decision \in Decision \union {NoReview} /\ review.busy = (decision # NoReview)
         /\ history.list \in History /\ history.fetching \in BOOLEAN
         /\ history.fetched \in History \union {NoReview}
         /\ verdictCount \in Nat /\ verdictCount <= MaxVerdicts /\ MaxVerdicts \in Nat
         /\ NoReview \notin Releases /\ NoReview \notin Note
         /\ NoReview \notin Decision /\ NoReview \notin History
BY ReviewAssumption DEF ReviewTypeOK

ReviewState == [dialog : Releases \union {NoReview}, note : Note \union {NoReview},
                busy : BOOLEAN, error : Releases \union {NoReview}]

\* The dialog turns, and the page waits for what it waited for.
LEMMA DialogTurns ==
  ASSUME ReviewInvariant, review' \in ReviewState, review'.busy = review.busy,
         UNCHANGED <<verdicts, decision, history, verdictCount>>,
         review'.dialog # NoReview /\ review'.note # NoReview => review'.note.on = review'.dialog,
         review'.dialog # NoReview /\ review'.error # NoReview => review'.error = review'.dialog,
         decision # NoReview /\ decision.step # "refreshing" => review'.dialog = review.dialog
  PROVE  ReviewInvariant'
<1>1. ReviewTypeOK'
  BY DEF ReviewInvariant, ReviewTypeOK, ReviewState
<1>2. NotesAreTheirOwn' /\ RefusalsFindTheirDialog' /\ DialogsKeepTheirOwn'
  BY DEF ReviewInvariant, NotesAreTheirOwn, RefusalsFindTheirDialog, DialogsKeepTheirOwn
<1>3. AwaitedListsAreLater'
  BY DEF ReviewInvariant, AwaitedListsAreLater
<1> QED BY <1>1, <1>2, <1>3 DEF ReviewInvariant

LEMMA DialogKeeps ==
  ASSUME ReviewInvariant,
         CloseReview \/ (\E d \in Releases : OpenReview(d)) \/ (\E text \in Remarks : TypeNote(text))
  PROVE  ReviewInvariant'
<1>0. ReviewTypeOK /\ review \in ReviewState
  BY DEF ReviewInvariant, ReviewTypeOK, ReviewState
<1>1. CASE CloseReview
  <2>1. /\ review' \in ReviewState /\ review'.dialog = NoReview /\ review'.note = review.note
        /\ review'.error = review.error /\ review'.busy = review.busy
    BY <1>0, <1>1 DEF CloseReview, ReviewState
  <2>2. decision = NoReview
    <3>1. review.busy = (decision # NoReview) /\ ~review.busy
      BY <1>0, <1>1, Zenon DEF ReviewTypeOK, CloseReview, MayLeave
    <3> QED BY <3>1, Zenon
  <2>3. UNCHANGED <<verdicts, decision, history, verdictCount>>
    BY <1>1 DEF CloseReview
  <2> QED BY <2>1, <2>2, <2>3, DialogTurns
<1>2. ASSUME NEW d \in Releases, OpenReview(d) PROVE ReviewInvariant'
  <2>1. /\ review' \in ReviewState /\ review'.dialog = d /\ review'.note = NoReview
        /\ review'.error = NoReview /\ review'.busy = review.busy
    <3>1. review' = Open(d)
      BY <1>2 DEF OpenReview
    <3> QED BY <1>0, <3>1 DEF Open, ReviewState
  <2>2. ~(decision # NoReview /\ decision.step # "refreshing")
    <3>1. decision # NoReview => decision.on \in Releases
      BY <1>0, ReviewTyped DEF Decision
    <3>2. decision # NoReview /\ decision.step # "refreshing" => review.dialog = decision.on
      BY DEF ReviewInvariant, DialogsKeepTheirOwn
    <3>3. review.dialog = NoReview /\ NoReview \notin Releases
      BY <1>0, <1>2, ReviewTyped DEF OpenReview
    <3> QED BY <3>1, <3>2, <3>3
  <2>3. UNCHANGED <<verdicts, decision, history, verdictCount>>
    BY <1>2 DEF OpenReview
  <2> QED BY <2>1, <2>2, <2>3, DialogTurns
<1>3. ASSUME NEW text \in Remarks, TypeNote(text) PROVE ReviewInvariant'
  <2>1. PICK note : note = [text |-> text, on |-> review.dialog]
    OBVIOUS
  <2>2. note \in Note /\ note.on = review.dialog
    BY <1>0, <1>3, <2>1, ReviewTyped DEF TypeNote, Note
  <2>3. review' = [review EXCEPT !.note = note]
    BY <1>3, <2>1 DEF TypeNote
  <2>4. /\ review' \in ReviewState /\ review'.dialog = review.dialog /\ review'.note = note
        /\ review'.error = review.error /\ review'.busy = review.busy
    BY <1>0, <2>2, <2>3 DEF ReviewState
  <2>5. UNCHANGED <<verdicts, decision, history, verdictCount>>
    BY <1>3 DEF TypeNote
  <2>6. review.dialog # NoReview /\ review.error # NoReview => review.error = review.dialog
    BY DEF ReviewInvariant, RefusalsFindTheirDialog
  <2> QED BY <2>2, <2>4, <2>5, <2>6, DialogTurns
<1> QED BY <1>1, <1>2, <1>3

\* A release is requested or decided, by this page or another: its row is written.
LEMMA VerdictWritten ==
  ASSUME ReviewInvariant, NEW d \in Releases, NEW verdict \in Verdict, Happens(d, verdict),
         UNCHANGED <<review, history>>,
         verdict.note # NoReview => verdict.note.on = d,
         verdict.at <= verdictCount + 1,
         \/ decision' = decision /\ verdict.at = verdicts[d].at
         \/ decision # NoReview /\ decision' = [decision EXCEPT !.step = "done"] /\ decision.step = "sent"
  PROVE  ReviewInvariant'
<1>0. ReviewTypeOK /\ verdictCount \in Nat /\ verdictCount < MaxVerdicts /\ verdictCount' = verdictCount + 1
      /\ MaxVerdicts \in Nat
  BY ReviewTyped DEF ReviewInvariant, Happens
<1>1. /\ verdicts' \in [Releases -> Verdict] /\ verdicts'[d] = verdict
      /\ \A e \in Releases \ {d} : verdicts'[e] = verdicts[e]
  BY <1>0, ReviewTyped DEF Happens
<1>2. /\ decision' \in Decision \union {NoReview} /\ (decision' # NoReview <=> decision # NoReview)
      /\ decision # NoReview =>
           /\ decision'.on = decision.on /\ decision'.note = decision.note
           /\ decision'.step = "refreshing" => decision' = decision /\ verdict.at = verdicts[d].at
           /\ decision'.step # "refreshing" => decision.step # "refreshing"
  <2>1. CASE decision' = decision /\ verdict.at = verdicts[d].at
    BY <1>0, <2>1, ReviewTyped
  <2>2. CASE decision # NoReview /\ decision' = [decision EXCEPT !.step = "done"] /\ decision.step = "sent"
    <3>1. decision \in Decision
      BY <1>0, <2>2, ReviewTyped
    <3>2. decision' \in Decision /\ decision'.on = decision.on /\ decision'.note = decision.note /\ decision'.step = "done"
      BY <2>2, <3>1 DEF Decision
    <3> QED BY <1>0, <2>2, <3>2, ReviewTyped
  <2> QED BY <2>1, <2>2
<1>3. ReviewTypeOK'
  <2>1. verdictCount' \in 0 .. MaxVerdicts
    BY <1>0
  <2> QED BY <1>0, <1>1, <1>2, <2>1 DEF ReviewTypeOK
<1>4. NotesAreTheirOwn'
  BY <1>1 DEF ReviewInvariant, NotesAreTheirOwn
<1>5. RefusalsFindTheirDialog' /\ DialogsKeepTheirOwn'
  BY <1>2 DEF ReviewInvariant, RefusalsFindTheirDialog, DialogsKeepTheirOwn
<1>6. AwaitedListsAreLater'
  <2>1. \A e \in Releases : verdicts'[e].at <= verdictCount'
    <3>1. \A e \in Releases : verdicts[e].at \in Nat /\ verdicts[e].at <= verdictCount
      BY <1>0, ReviewTyped DEF Verdict, ReviewInvariant, AwaitedListsAreLater
    <3> QED BY <1>0, <1>1, <3>1
  <2>2. decision' # NoReview /\ decision'.step = "refreshing" =>
          verdicts'[decision'.on].at = verdicts[decision.on].at /\ decision' = decision
    <3>1. decision # NoReview => decision.on \in Releases
      BY <1>0, ReviewTyped DEF Decision
    <3> QED BY <1>1, <1>2, <3>1
  <2> QED BY <2>1, <2>2 DEF ReviewInvariant, AwaitedListsAreLater
<1> QED BY <1>3, <1>4, <1>5, <1>6 DEF ReviewInvariant

LEMMA VerdictKeeps ==
  ASSUME ReviewInvariant,
         \/ \E d \in Releases : \/ RequestedForReview(d)
                                \/ \E status \in {"approved", "rejected"} : DecidedElsewhere(d, status)
         \/ DecisionTaken
  PROVE  ReviewInvariant'
<1>0. ReviewTypeOK /\ verdictCount \in Nat /\ MaxVerdicts \in Nat
  BY ReviewTyped DEF ReviewInvariant
<1>1. ASSUME NEW d \in Releases, NEW status \in Statuses, Happens(d, [verdicts[d] EXCEPT !.status = status]),
             UNCHANGED <<review, decision, history>>
      PROVE  ReviewInvariant'
  <2>1. PICK verdict : verdict = [verdicts[d] EXCEPT !.status = status]
    OBVIOUS
  <2>2. verdicts[d] \in Verdict
    BY <1>0, ReviewTyped
  <2>3. /\ verdict \in Verdict /\ verdict.note = verdicts[d].note /\ verdict.at = verdicts[d].at
        /\ verdict.at \in Nat
    BY <2>1, <2>2 DEF Verdict
  <2>4. verdict.at <= verdictCount + 1 /\ (verdict.note # NoReview => verdict.note.on = d)
    BY <1>0, <2>3 DEF ReviewInvariant, AwaitedListsAreLater, NotesAreTheirOwn
  <2> QED BY <1>1, <2>1, <2>3, <2>4, VerdictWritten
<1>2. CASE DecisionTaken
  <2>1. decision \in Decision /\ decision # NoReview /\ decision.step = "sent"
    BY <1>0, <1>2, ReviewTyped DEF DecisionTaken
  <2>2. PICK verdict : verdict = [status |-> IF decision.approve THEN "approved" ELSE "rejected",
                                  note |-> decision.note, ours |-> TRUE, at |-> verdictCount + 1]
    OBVIOUS
  <2>3. decision.on \in Releases /\ decision.note \in Note \union {NoReview}
    BY <2>1 DEF Decision
  <2>4. verdictCount + 1 \in 0 .. MaxVerdicts
    BY <1>0, <1>2 DEF DecisionTaken, Happens
  <2>5. verdict \in Verdict /\ verdict.note = decision.note /\ verdict.at = verdictCount + 1
    BY <2>2, <2>3, <2>4 DEF Verdict, Statuses
  <2>6. verdict.note # NoReview => verdict.note.on = decision.on
    BY <2>1, <2>5 DEF ReviewInvariant, DialogsKeepTheirOwn
  <2>7. verdict.at <= verdictCount + 1
    BY <1>0, <2>5
  <2> QED BY <1>2, <2>1, <2>2, <2>3, <2>5, <2>6, <2>7, VerdictWritten DEF DecisionTaken
<1> QED BY <1>1, <1>2 DEF RequestedForReview, DecidedElsewhere, Statuses

LEMMA HistoryKeeps ==
  ASSUME ReviewInvariant, PollHistory \/ ReadHistory \/ HistoryArrives PROVE ReviewInvariant'
<1>0. ReviewTypeOK /\ history.list \in History /\ history.fetched \in History \union {NoReview}
      /\ verdictCount \in Nat /\ verdictCount <= MaxVerdicts /\ MaxVerdicts \in Nat
  BY ReviewTyped DEF ReviewInvariant
<1>1. CASE PollHistory
  <2>1. history' \in [list : History, fetching : BOOLEAN, fetched : History \union {NoReview}]
        /\ history'.fetched = history.fetched
    BY <1>0, <1>1 DEF ReviewTypeOK, PollHistory
  <2>2. ReviewTypeOK'
    BY <1>0, <1>1, <2>1 DEF ReviewTypeOK, PollHistory
  <2>3. NotesAreTheirOwn' /\ RefusalsFindTheirDialog' /\ DialogsKeepTheirOwn' /\ AwaitedListsAreLater'
    BY <1>1, <2>1 DEF PollHistory, ReviewInvariant, NotesAreTheirOwn, RefusalsFindTheirDialog, DialogsKeepTheirOwn,
                      AwaitedListsAreLater
  <2> QED BY <2>2, <2>3 DEF ReviewInvariant
<1>2. CASE ReadHistory
  <2>1. PICK list : list = [shown |-> [d \in Releases |-> verdicts[d].status], at |-> verdictCount]
    OBVIOUS
  <2>2. list \in History /\ list.at = verdictCount
    <3>1. \A d \in Releases : verdicts[d].status \in Statuses
      BY <1>0, ReviewTyped DEF Verdict
    <3>2. verdictCount \in 0 .. MaxVerdicts
      BY <1>0
    <3> QED BY <2>1, <3>1, <3>2 DEF History
  <2>3. history' \in [list : History, fetching : BOOLEAN, fetched : History \union {NoReview}]
        /\ history'.fetched = list
    BY <1>0, <1>2, <2>1, <2>2 DEF ReviewTypeOK, ReadHistory
  <2>4. ReviewTypeOK'
    BY <1>0, <1>2, <2>3 DEF ReviewTypeOK, ReadHistory
  <2>5. NotesAreTheirOwn' /\ RefusalsFindTheirDialog' /\ DialogsKeepTheirOwn'
    BY <1>2 DEF ReadHistory, ReviewInvariant, NotesAreTheirOwn, RefusalsFindTheirDialog, DialogsKeepTheirOwn
  <2>6. AwaitedListsAreLater'
    <3>1. decision # NoReview => decision.on \in Releases
      BY <1>0, ReviewTyped DEF Decision
    <3>2. \A d \in Releases : verdicts[d].at \in Nat /\ verdicts[d].at <= verdictCount
      BY <1>0, ReviewTyped DEF Verdict, ReviewInvariant, AwaitedListsAreLater
    <3> QED BY <1>0, <1>2, <2>2, <2>3, <3>1, <3>2 DEF ReadHistory, AwaitedListsAreLater
  <2> QED BY <2>4, <2>5, <2>6 DEF ReviewInvariant
<1>3. CASE HistoryArrives
  <2>1. history' \in [list : History, fetching : BOOLEAN, fetched : History \union {NoReview}]
        /\ history'.fetched = NoReview
    BY <1>0, <1>3 DEF HistoryArrives
  <2>2. CASE decision # NoReview /\ decision.step = "refreshing"
    <3>1. decision' = NoReview /\ review' = [review EXCEPT !.busy = FALSE] /\ UNCHANGED <<verdicts, verdictCount>>
      BY <1>3, <2>2 DEF HistoryArrives
    <3>2. /\ review' \in [dialog : Releases \union {NoReview}, note : Note \union {NoReview},
                          busy : BOOLEAN, error : Releases \union {NoReview}]
          /\ review'.dialog = review.dialog /\ review'.note = review.note /\ review'.error = review.error
          /\ review'.busy = FALSE
      BY <1>0, <3>1 DEF ReviewTypeOK
    <3>3. ReviewTypeOK'
      BY <1>0, <2>1, <3>1, <3>2 DEF ReviewTypeOK
    <3>4. NotesAreTheirOwn' /\ RefusalsFindTheirDialog' /\ DialogsKeepTheirOwn' /\ AwaitedListsAreLater'
      BY <3>1, <3>2 DEF ReviewInvariant, NotesAreTheirOwn, RefusalsFindTheirDialog, DialogsKeepTheirOwn,
                        AwaitedListsAreLater
    <3> QED BY <3>3, <3>4 DEF ReviewInvariant
  <2>3. CASE ~(decision # NoReview /\ decision.step = "refreshing")
    <3>1. UNCHANGED <<decision, review, verdicts, verdictCount>>
      BY <1>3, <2>3 DEF HistoryArrives
    <3>2. ReviewTypeOK'
      BY <1>0, <2>1, <3>1 DEF ReviewTypeOK
    <3>3. NotesAreTheirOwn' /\ RefusalsFindTheirDialog' /\ DialogsKeepTheirOwn' /\ AwaitedListsAreLater'
      BY <2>1, <3>1 DEF ReviewInvariant, NotesAreTheirOwn, RefusalsFindTheirDialog, DialogsKeepTheirOwn,
                        AwaitedListsAreLater
    <3> QED BY <3>2, <3>3 DEF ReviewInvariant
  <2> QED BY <2>2, <2>3
<1> QED BY <1>1, <1>2, <1>3

LEMMA DecisionKeeps ==
  ASSUME ReviewInvariant,
         (\E approve \in BOOLEAN : SubmitDecision(approve)) \/ DecisionLost \/ DecisionEnds \/ DecisionRefused
  PROVE  ReviewInvariant'
<1>0. ReviewTypeOK /\ decision \in Decision \union {NoReview} /\ NoReview \notin Decision
  BY ReviewTyped DEF ReviewInvariant
<1>1. ASSUME NEW approve \in BOOLEAN, SubmitDecision(approve) PROVE ReviewInvariant'
  <2>1. PICK call : call = [on |-> review.dialog, approve |-> approve, note |-> review.note, step |-> "sent"]
    OBVIOUS
  <2>2. /\ call \in Decision /\ call # NoReview /\ call.on = review.dialog /\ call.note = review.note
        /\ call.step = "sent" /\ decision' = call
    BY <1>0, <1>1, <2>1, ReviewTyped DEF SubmitDecision, Decision
  <2>3. /\ review' \in [dialog : Releases \union {NoReview}, note : Note \union {NoReview},
                        busy : BOOLEAN, error : Releases \union {NoReview}]
        /\ review'.dialog = review.dialog /\ review'.note = review.note /\ review'.error = NoReview
        /\ review'.busy = TRUE
    BY <1>0, <1>1 DEF SubmitDecision, ReviewTypeOK
  <2>4. ReviewTypeOK'
    BY <1>0, <1>1, <2>2, <2>3 DEF ReviewTypeOK, SubmitDecision
  <2>5. NotesAreTheirOwn' /\ RefusalsFindTheirDialog' /\ DialogsKeepTheirOwn' /\ AwaitedListsAreLater'
    BY <1>1, <2>2, <2>3 DEF SubmitDecision, ReviewInvariant, NotesAreTheirOwn, RefusalsFindTheirDialog,
                            DialogsKeepTheirOwn, AwaitedListsAreLater
  <2> QED BY <2>4, <2>5 DEF ReviewInvariant
<1>2. CASE DecisionLost
  <2>1. /\ decision' \in Decision /\ decision' # NoReview /\ decision'.on = decision.on
        /\ decision'.note = decision.note /\ decision'.step = "refused"
    BY <1>0, <1>2 DEF DecisionLost, Decision
  <2>2. decision # NoReview /\ decision.step # "refreshing" /\ UNCHANGED <<verdicts, review, history, verdictCount>>
    BY <1>2 DEF DecisionLost
  <2>3. ReviewTypeOK'
    BY <1>0, <2>1, <2>2 DEF ReviewTypeOK
  <2>4. NotesAreTheirOwn' /\ RefusalsFindTheirDialog' /\ DialogsKeepTheirOwn' /\ AwaitedListsAreLater'
    BY <2>1, <2>2 DEF ReviewInvariant, NotesAreTheirOwn, RefusalsFindTheirDialog, DialogsKeepTheirOwn,
                      AwaitedListsAreLater
  <2> QED BY <2>3, <2>4 DEF ReviewInvariant
<1>3. CASE DecisionEnds
  <2>1. /\ decision' \in Decision /\ decision' # NoReview /\ decision'.on = decision.on
        /\ decision'.note = decision.note /\ decision'.step = "refreshing" /\ decision # NoReview
    BY <1>0, <1>3 DEF DecisionEnds, Decision
  <2>2. /\ review' \in [dialog : Releases \union {NoReview}, note : Note \union {NoReview},
                        busy : BOOLEAN, error : Releases \union {NoReview}]
        /\ review'.dialog = NoReview /\ review'.note = NoReview /\ review'.error = review.error
        /\ review'.busy = review.busy
    BY <1>0, <1>3 DEF DecisionEnds, ReviewTypeOK
  <2>3. history' \in [list : History, fetching : BOOLEAN, fetched : History \union {NoReview}]
        /\ history'.fetched = NoReview
    BY <1>0, <1>3 DEF DecisionEnds, FetchHistory, ReviewTypeOK
  <2>4. ReviewTypeOK'
    BY <1>0, <1>3, <2>1, <2>2, <2>3 DEF ReviewTypeOK, DecisionEnds
  <2>5. NotesAreTheirOwn' /\ RefusalsFindTheirDialog' /\ DialogsKeepTheirOwn' /\ AwaitedListsAreLater'
    BY <1>3, <2>1, <2>2, <2>3 DEF DecisionEnds, ReviewInvariant, NotesAreTheirOwn, RefusalsFindTheirDialog,
                                  DialogsKeepTheirOwn, AwaitedListsAreLater
  <2> QED BY <2>4, <2>5 DEF ReviewInvariant
<1>4. CASE DecisionRefused
  <2>1. /\ decision \in Decision /\ decision' = NoReview /\ decision.on = review.dialog /\ decision.on \in Releases
        /\ UNCHANGED <<verdicts, history, verdictCount>>
    BY <1>0, <1>4 DEF DecisionRefused, Decision, ReviewInvariant, DialogsKeepTheirOwn
  <2>2. /\ review' \in [dialog : Releases \union {NoReview}, note : Note \union {NoReview},
                        busy : BOOLEAN, error : Releases \union {NoReview}]
        /\ review'.dialog = review.dialog /\ review'.note = review.note /\ review'.error = decision.on
        /\ review'.busy = FALSE
    BY <1>0, <1>4, <2>1 DEF DecisionRefused, ReviewTypeOK
  <2>3. ReviewTypeOK'
    BY <1>0, <2>1, <2>2 DEF ReviewTypeOK
  <2>4. NotesAreTheirOwn' /\ RefusalsFindTheirDialog' /\ DialogsKeepTheirOwn' /\ AwaitedListsAreLater'
    BY <2>1, <2>2 DEF ReviewInvariant, NotesAreTheirOwn, RefusalsFindTheirDialog, DialogsKeepTheirOwn,
                      AwaitedListsAreLater
  <2> QED BY <2>3, <2>4 DEF ReviewInvariant
<1> QED BY <1>1, <1>2, <1>3, <1>4

LEMMA ReviewBegins ==
  ASSUME ReviewInit PROVE ReviewInvariant
<1>1. \A d \in Releases : verdicts[d] = [status |-> "none", note |-> NoReview, ours |-> FALSE, at |-> 0]
  BY DEF ReviewInit
<1>2. ReviewTypeOK
  <2>1. 0 \in 0 .. MaxVerdicts
    BY ReviewAssumption
  <2>2. [status |-> "none", note |-> NoReview, ours |-> FALSE, at |-> 0] \in Verdict
    BY <2>1 DEF Verdict, Statuses
  <2>3. [shown |-> [d \in Releases |-> "none"], at |-> 0] \in History
    BY <2>1 DEF History, Statuses
  <2> QED BY <2>1, <2>2, <2>3 DEF ReviewInit, ReviewTypeOK
<1>3. NotesAreTheirOwn /\ RefusalsFindTheirDialog /\ DialogsKeepTheirOwn
  BY <1>1 DEF ReviewInit, NotesAreTheirOwn, RefusalsFindTheirDialog, DialogsKeepTheirOwn
<1>4. AwaitedListsAreLater
  BY <1>1 DEF ReviewInit, AwaitedListsAreLater
<1> QED BY <1>2, <1>3, <1>4 DEF ReviewInvariant

LEMMA ReviewSteps ==
  ASSUME ReviewInvariant, [ReviewNext]_reviewVars PROVE ReviewInvariant'
<1>1. CASE UNCHANGED reviewVars
  BY <1>1 DEF ReviewInvariant, ReviewTypeOK, NotesAreTheirOwn, RefusalsFindTheirDialog, DialogsKeepTheirOwn,
              AwaitedListsAreLater, reviewVars
<1>2. CASE ReviewNext
  BY <1>2, DialogKeeps, VerdictKeeps, HistoryKeeps, DecisionKeeps DEF ReviewNext
<1> QED BY <1>1, <1>2

\* A decision is over without a refusal only when the list it waited for has arrived.
LEMMA OwnDecisionStep ==
  ASSUME ReviewInvariant, [ReviewNext]_reviewVars,
         decision # NoReview, decision.step = "refreshing", decision' = NoReview
  PROVE  history'.list.at >= verdicts[decision.on].at
<1>1. HistoryArrives
  <2>1. decision' # decision /\ ReviewNext
    BY DEF reviewVars
  <2>2. DecisionLost \/ DecisionTaken \/ DecisionEnds \/ DecisionRefused \/ (\E approve \in BOOLEAN : SubmitDecision(approve))
          => FALSE
    <3>1. ~(DecisionLost \/ DecisionTaken \/ DecisionEnds \/ DecisionRefused)
      BY DEF DecisionLost, DecisionTaken, DecisionEnds, DecisionRefused
    <3>2. ~review.busy => decision = NoReview
      <4>1. review.busy = (decision # NoReview)
        BY Zenon DEF ReviewInvariant, ReviewTypeOK
      <4> QED BY <4>1, Zenon
    <3> QED BY <3>1, <3>2 DEF SubmitDecision
  <2> QED BY <2>1, <2>2 DEF ReviewNext, RequestedForReview, OpenReview, DecidedElsewhere, PollHistory, ReadHistory,
                            CloseReview, TypeNote
<1>2. history'.list = history.fetched /\ history.fetched # NoReview
  BY <1>1 DEF HistoryArrives
<1> QED BY <1>2 DEF ReviewInvariant, AwaitedListsAreLater

\* However dialogs, polls and answers overlap, and whoever else decides: a note is recorded
\* with the release it was written for, a refusal is shown there, and a decision the page was
\* told of is in the list it shows when the call is over.
THEOREM ReviewPromiseHolds == ReviewSpec => ReviewPromise
<1>1. ReviewInit => ReviewInvariant
  BY ReviewBegins
<1>2. ReviewInvariant /\ [ReviewNext]_reviewVars => ReviewInvariant'
  BY ReviewSteps
<1>3. ReviewSpec => []ReviewInvariant
  BY <1>1, <1>2, PTL DEF ReviewSpec
<1>4. ReviewInvariant => ReviewTypeOK /\ NotesAreTheirOwn /\ RefusalsFindTheirDialog
  BY DEF ReviewInvariant
<1>5. ReviewInvariant /\ [ReviewNext]_reviewVars =>
        [decision # NoReview /\ decision.step = "refreshing" /\ decision' = NoReview =>
           history'.list.at >= verdicts[decision.on].at]_reviewVars
  BY OwnDecisionStep
<1>6. ReviewSpec => OwnDecisionsAreShown
  BY <1>3, <1>5, PTL DEF ReviewSpec, OwnDecisionsAreShown
<1>7. ReviewSpec => []ReviewTypeOK /\ []NotesAreTheirOwn /\ []RefusalsFindTheirDialog
  BY <1>3, <1>4, PTL
<1> QED BY <1>6, <1>7 DEF ReviewPromise

-----------------------------------------------------------------------------
(*****************************************************************************)
(* The overview: the score of health and what it is made of                  *)
(* (services/dashboard.ts).                                                  *)
(*****************************************************************************)
DashInvariant == DashTypeOK /\ \A s \in Subsystems : Possible(s, estate[s])

ScoreOf(n, points) == IF n = 0 THEN 0 ELSE (100 * points + n) \div (2 * n)

Points == 2 * Cardinality(ReportedAs("healthy")) + Cardinality(ReportedAs("degraded"))

LEMMA NewViews ==
  ASSUME NEW s, NEW own, NEW v, v = [set |-> s \in own, answers |-> TRUE, parts |-> {}],
         s \in {"applications", "databases"} => s \in own
  PROVE  Possible(s, v)
<1>1. v \in View /\ v.parts = {} /\ v.answers
  BY DEF View
<1>2. v.set <=> s \in own
  OBVIOUS
<1> QED BY <1>1, <1>2 DEF Possible

LEMMA DashStarts == DashInit => DashInvariant
<1> SUFFICES ASSUME DashInit PROVE DashInvariant
  OBVIOUS
<1>1. ASSUME NEW s \in Subsystems PROVE Possible(s, estate[s])
  <2> DEFINE own == {"console_database", "applications", "databases"}
  <2>1. estate[s] = [set |-> s \in own, answers |-> TRUE, parts |-> {}]
    BY DEF DashInit
  <2>2. s \in {"applications", "databases"} => s \in own
    OBVIOUS
  <2> HIDE DEF own
  <2> QED BY <2>1, <2>2, NewViews
<1>2. DashTypeOK
  <2>1. \A s \in Subsystems : estate[s] \in View
    BY <1>1 DEF Possible
  <2> QED BY <2>1 DEF DashTypeOK, DashInit
<1> QED BY <1>1, <1>2 DEF DashInvariant

LEMMA DashSteps == DashInvariant /\ [DashNext]_dashVars => DashInvariant'
<1> SUFFICES ASSUME DashInvariant, [DashNext]_dashVars PROVE DashInvariant'
  OBVIOUS
<1>1. ASSUME NEW s \in Subsystems, NEW view \in Views[s], Changes(s, view) PROVE DashInvariant'
  <2>1. Possible(s, view) /\ view \in View /\ estate' = [estate EXCEPT ![s] = view] /\ estate \in [Subsystems -> View]
    BY <1>1, ViewsAssumption DEF Changes, Possible, DashInvariant, DashTypeOK
  <2>2. estate' \in [Subsystems -> View] /\ \A t \in Subsystems : estate'[t] = IF t = s THEN view ELSE estate[t]
    BY <2>1
  <2> QED BY <2>1, <2>2 DEF DashInvariant, DashTypeOK
<1>2. CASE UNCHANGED dashVars
  BY <1>2 DEF dashVars, DashInvariant, DashTypeOK
<1> QED BY <1>1, <1>2 DEF DashNext

LEMMA SubsystemsAreNine == IsFiniteSet(Subsystems) /\ Cardinality(Subsystems) \in Nat /\ Cardinality(Subsystems) <= 9
<1> DEFINE f == [i \in 1..9 |-> CASE i = 1 -> "console_database" [] i = 2 -> "digitalocean" [] i = 3 -> "proxmox"
                  [] i = 4 -> "applications" [] i = 5 -> "docker" [] i = 6 -> "databases" [] i = 7 -> "redis"
                  [] i = 8 -> "prometheus" [] OTHER -> "alertmanager"]
<1>1. f \in [1..9 -> Subsystems]
  BY DEF Subsystems
<1>2. /\ f[1] = "console_database" /\ f[2] = "digitalocean" /\ f[3] = "proxmox" /\ f[4] = "applications"
      /\ f[5] = "docker" /\ f[6] = "databases" /\ f[7] = "redis" /\ f[8] = "prometheus" /\ f[9] = "alertmanager"
  OBVIOUS
<1> HIDE DEF f
<1>3. \A t \in Subsystems : \E i \in 1..9 : f[i] = t
  BY <1>2 DEF Subsystems
<1>4. f \in Surjection(1..9, Subsystems)
  BY <1>1, <1>3 DEF Surjection
<1>5. IsFiniteSet(1..9) /\ Cardinality(1..9) = 9
  <2>1. PICK n \in Int : n = 9
    OBVIOUS
  <2>2. IsFiniteSet(1..n) /\ Cardinality(1..n) = IF 1 > n THEN 0 ELSE n - 1 + 1
    BY FS_Interval
  <2> QED BY <2>1, <2>2
<1> QED BY <1>4, <1>5, FS_Surjection, FS_CardinalityType

\* Of those that reported some are in order, some degraded, and the rest are down.
LEMMA ReportsCounted ==
  /\ IsFiniteSet(Reported) /\ Cardinality(Reported) \in 0..9
  /\ IsFiniteSet(ReportedAs("healthy")) /\ IsFiniteSet(ReportedAs("degraded"))
  /\ Cardinality(ReportedAs("healthy")) \in Nat /\ Cardinality(ReportedAs("degraded")) \in Nat
  /\ Cardinality(ReportedAs("healthy")) + Cardinality(ReportedAs("degraded")) <= Cardinality(Reported)
  /\ Cardinality(ReportedAs("healthy")) = Cardinality(Reported) => ReportedAs("healthy") = Reported
<1> DEFINE H == ReportedAs("healthy")
           D == ReportedAs("degraded")
<1>1. Reported \subseteq Subsystems /\ H \subseteq Reported /\ D \subseteq Reported /\ H \cap D = {} /\ H \cup D \subseteq Reported
  BY DEF Reported, ReportedAs
<1> HIDE DEF H, D
<1>2. IsFiniteSet(Reported) /\ Cardinality(Reported) \in Nat /\ Cardinality(Reported) <= Cardinality(Subsystems)
  BY <1>1, SubsystemsAreNine, FS_Subset, FS_CardinalityType
<1>3. Cardinality(Reported) \in 0..9
  BY <1>2, SubsystemsAreNine
<1>4. /\ IsFiniteSet(H) /\ IsFiniteSet(D) /\ Cardinality(H) \in Nat /\ Cardinality(D) \in Nat
      /\ Cardinality(H) = Cardinality(Reported) => H = Reported
  BY <1>1, <1>2, FS_Subset, FS_CardinalityType
<1>5. Cardinality(H \cup D) = Cardinality(H) + Cardinality(D) - Cardinality(H \cap D)
  BY <1>4, FS_Union
<1>6. Cardinality(H \cap D) = 0
  BY <1>1, FS_EmptySet
<1>7. Cardinality(H \cup D) <= Cardinality(Reported)
  BY <1>1, <1>2, FS_Subset
<1>8. Cardinality(H) + Cardinality(D) <= Cardinality(Reported)
  BY <1>4, <1>5, <1>6, <1>7
<1> QED BY <1>2, <1>3, <1>4, <1>8 DEF H, D

LEMMA ScoreIsOfPoints == HealthScore = ScoreOf(Cardinality(Reported), Points) /\ Points \in Nat
BY ReportsCounted DEF HealthScore, ScoreOf, Points

\* No rounding makes a full score of less, and none raises the mean of fewer points among more.
LEMMA FullScores ==
  \A n \in 0..9, h, d \in Nat : h + d <= n /\ ScoreOf(n, 2 * h + d) = 100 => h = n
<1> SUFFICES ASSUME NEW n \in 0..9, NEW h \in Nat, NEW d \in Nat, h + d <= n, ScoreOf(n, 2 * h + d) = 100
             PROVE  h = n
  OBVIOUS
<1>1. n # 0 /\ (100 * (2 * h + d) + n) \div (2 * n) = 100
  BY DEF ScoreOf
<1>2. CASE n = 1
  BY <1>1, <1>2
<1>3. CASE n = 2
  BY <1>1, <1>3
<1>4. CASE n = 3
  BY <1>1, <1>4
<1>5. CASE n = 4
  BY <1>1, <1>5
<1>6. CASE n = 5
  BY <1>1, <1>6
<1>7. CASE n = 6
  BY <1>1, <1>7
<1>8. CASE n = 7
  BY <1>1, <1>8
<1>9. CASE n = 8
  BY <1>1, <1>9
<1>10. CASE n = 9
  BY <1>1, <1>10
<1> QED BY <1>1, <1>2, <1>3, <1>4, <1>5, <1>6, <1>7, <1>8, <1>9, <1>10

LEMMA ScoresFall ==
  \A n, m, p, q \in Nat : n <= m /\ q <= p /\ (n # 0 \/ q = 0) => ScoreOf(m, q) <= ScoreOf(n, p)
<1> SUFFICES ASSUME NEW n \in Nat, NEW m \in Nat, NEW p \in Nat, NEW q \in Nat, n <= m, q <= p, n # 0 \/ q = 0
             PROVE  ScoreOf(m, q) <= ScoreOf(n, p)
  OBVIOUS
<1>1. ASSUME NEW k \in Nat, k > 0, NEW r \in Nat
      PROVE  \E x \in Nat : ScoreOf(k, r) = x /\ x * (2 * k) <= 100 * r + k /\ 100 * r + k < (x + 1) * (2 * k)
  <2> DEFINE a == 100 * r + k
             b == 2 * k
  <2>1. a \in Nat /\ b \in Nat /\ b > 0
    BY <1>1
  <2>2. a \div b \in Nat /\ (a \div b) * b <= a /\ a < (a \div b + 1) * b
    <3> HIDE DEF a, b
    <3> QED BY <2>1
  <2> QED BY <2>2, <1>1 DEF ScoreOf
<1>2. CASE n = 0
  <2>1. q = 0 /\ ScoreOf(n, p) = 0
    BY <1>2 DEF ScoreOf
  <2>2. CASE m = 0
    BY <2>1, <2>2 DEF ScoreOf
  <2>3. CASE m > 0
    <3>1. PICK x \in Nat : ScoreOf(m, q) = x /\ x * (2 * m) <= 100 * q + m
      BY <1>1, <2>3
    <3>2. x * (2 * m) <= m
      BY <2>1, <3>1
    <3>3. x = 0
      <4> SUFFICES ASSUME x >= 1 PROVE FALSE
        OBVIOUS
      <4>1. x * (2 * m) >= 2 * m
        OBVIOUS
      <4> QED BY <4>1, <3>2, <2>3
    <3> QED BY <2>1, <3>1, <3>3
  <2> QED BY <2>2, <2>3
<1>3. CASE n > 0
  <2>1. PICK x \in Nat : ScoreOf(n, p) = x /\ 100 * p + n < (x + 1) * (2 * n)
    BY <1>1, <1>3
  <2>2. PICK y \in Nat : ScoreOf(m, q) = y /\ y * (2 * m) <= 100 * q + m
    <3>1. m > 0
      BY <1>3
    <3> QED BY <1>1, <3>1
  <2>3. ~(y >= x + 1)
    <3> SUFFICES ASSUME y >= x + 1 PROVE FALSE
      OBVIOUS
    <3> DEFINE z == 2 * y - 1
    <3>1. z \in Nat
      OBVIOUS
    <3>2. z * m <= 100 * q
      BY <2>2
    <3>3. (x + 1) * (2 * n) <= y * (2 * n)
      OBVIOUS
    <3>4. 100 * p < z * n
      BY <2>1, <3>3
    <3>5. z * n <= z * m
      <4> HIDE DEF z
      <4> QED BY <3>1
    <3>6. z * n \in Nat /\ z * m \in Nat
      BY <3>1
    <3> HIDE DEF z
    <3> QED BY <3>2, <3>4, <3>5, <3>6
  <2> QED BY <2>1, <2>2, <2>3
<1> QED BY <1>2, <1>3

----------------------------------------------------------------------------
HealthStates == {"healthy", "degraded", "down", "unknown"}

LEMMA HealthTyped ==
  ASSUME DashInvariant, NEW s \in Subsystems
  PROVE  /\ Health(s).state \in HealthStates /\ Health(s).configured \in BOOLEAN
         /\ s \in Reported <=> Health(s).configured /\ Health(s).state # "unknown"
<1>1. Health(s).state \in HealthStates /\ Health(s).configured \in BOOLEAN
  BY DEF HealthStates, Health, PingDatabase, ProviderHealth, ApplicationsHealth, DatabasesHealth, Report, Reached, ProxmoxState,
         WatchedState
<1> QED BY <1>1 DEF Reported

\* What is in order can be reached, and none of its parts is known to be otherwise.
LEMMA HealthyIsInOrder ==
  ASSUME DashInvariant, NEW s \in Reported, Health(s).state = "healthy"
  PROVE  estate[s].answers /\ estate[s].parts \subseteq {"healthy", "unknown"}
<1>1. s \in Subsystems /\ Health(s).configured
  BY DEF Reported
<1>2. Possible(s, estate[s])
  BY <1>1 DEF DashInvariant
<1>3. CASE s = "console_database"
  BY <1>2, <1>3 DEF Health, PingDatabase, Report, Possible, PartStates
<1>4. CASE s = "applications"
  BY <1>2, <1>4 DEF Health, ApplicationsHealth, Report, Possible, PartStates, Holds
<1>5. CASE s = "databases"
  BY <1>1, <1>2, <1>5 DEF Health, DatabasesHealth, Report, Possible, PartStates, Holds
<1>6. CASE s = "proxmox"
  BY <1>2, <1>6 DEF Health, ProviderHealth, ProxmoxState, Report, Possible, PartStates, Holds
<1>7. CASE s \in {"prometheus", "docker"}
  BY <1>2, <1>7 DEF Health, ProviderHealth, WatchedState, Report, Possible, PartStates, Holds
<1>8. CASE s \in {"digitalocean", "redis", "alertmanager"}
  BY <1>2, <1>8 DEF Health, ProviderHealth, Reached, Report, Possible, PartStates, Holds
<1> QED BY <1>1, <1>3, <1>4, <1>5, <1>6, <1>7, <1>8 DEF Subsystems

LEMMA FullScoresHold == DashInvariant => FullScoresAreEarned
<1> SUFFICES ASSUME DashInvariant, HealthScore = 100, NEW s \in Subsystems \ Unreported
             PROVE  estate[s].answers /\ estate[s].parts \subseteq {"healthy", "unknown"}
  BY DEF FullScoresAreEarned
<1>1. Cardinality(ReportedAs("healthy")) = Cardinality(Reported)
  <2>1. ScoreOf(Cardinality(Reported), 2 * Cardinality(ReportedAs("healthy")) + Cardinality(ReportedAs("degraded"))) = 100
    BY ScoreIsOfPoints DEF Points
  <2> QED BY <2>1, FullScores, ReportsCounted
<1>2. s \in Reported /\ s \in ReportedAs("healthy")
  BY <1>1, ReportsCounted DEF Unreported
<1>3. Health(s).state = "healthy"
  BY <1>2 DEF ReportedAs
<1> QED BY <1>2, <1>3, HealthyIsInOrder

----------------------------------------------------------------------------
\* What a loss does to the subsystem it is of.
Falls(before, after, was, is) ==
  \/ ~was /\ ~is
  \/ ~was /\ is /\ after = "down"
  \/ was /\ is /\ (after = before \/ after = "down" \/ (before = "healthy" /\ after = "degraded"))

LEMMA LossesFall ==
  ASSUME DashInvariant, NEW s \in Subsystems, s # "console_database", NEW view \in Views[s], Changes(s, view),
         Lost(estate[s], view)
  PROVE  Falls(Health(s).state, Health(s)'.state, s \in Reported, s \in Reported')
<1>1. /\ Possible(s, estate[s]) /\ Possible(s, view) /\ view \in View /\ estate[s] \in View
      /\ estate'[s] = view /\ estate'["console_database"] = estate["console_database"]
  BY ViewsAssumption DEF Changes, DashInvariant, Possible, DashTypeOK, Subsystems
<1>2. /\ estate[s].set /\ estate[s].answers /\ view.set
      /\ ~view.answers \/ ("down" \in view.parts /\ "down" \notin estate[s].parts /\ view.parts \subseteq estate[s].parts \union {"down"})
  BY DEF Lost
<1>3. /\ s \in Reported <=> Health(s).configured /\ Health(s).state # "unknown"
      /\ s \in Reported' <=> Health(s)'.configured /\ Health(s)'.state # "unknown"
  BY DEF Reported
<1>4. CASE s = "applications"
  <2>1. "down" \in view.parts
    BY <1>1, <1>2, <1>4 DEF Possible
  <2>2. CASE ~Asked
    BY <1>1, <1>3, <1>4, <2>2 DEF Health, ApplicationsHealth, Report, Asked, Falls
  <2>3. CASE Asked
    <3>1. Health(s)' = Report("down", TRUE)
      BY <1>1, <1>4, <2>1, <2>3 DEF Health, ApplicationsHealth, Report, Asked, Holds
    <3> QED BY <1>3, <3>1 DEF Report, Falls
  <2> QED BY <2>2, <2>3
<1>5. CASE s = "databases"
  <2>1. "down" \in view.parts /\ "down" \notin estate[s].parts /\ view.parts \subseteq {"healthy", "down"} /\ estate[s].parts \subseteq {"healthy", "down"}
    BY <1>1, <1>2, <1>5 DEF Possible, PartStates
  <2>2. CASE ~Asked
    BY <1>1, <1>3, <1>5, <2>2 DEF Health, DatabasesHealth, Report, Asked, Falls
  <2>3. CASE Asked /\ estate[s].parts = {}
    <3>1. Health(s) = Report("unknown", FALSE)
      BY <1>5, <2>3 DEF Health, DatabasesHealth, Report, Asked
    <3>2. "healthy" \notin view.parts
      BY <1>2, <1>1, <1>5, <2>1, <2>3 DEF Possible
    <3>3. Health(s)' = Report("down", TRUE)
      BY <1>1, <1>5, <2>1, <2>3, <3>2 DEF Health, DatabasesHealth, Report, Asked, Holds
    <3> QED BY <1>3, <3>1, <3>3 DEF Report, Falls
  <2>4. CASE Asked /\ estate[s].parts # {}
    <3>1. estate[s].parts = {"healthy"}
      BY <2>1, <2>4
    <3>2. Health(s) = Report("healthy", TRUE)
      BY <1>5, <2>4, <3>1 DEF Health, DatabasesHealth, Report, Asked
    <3>3. Health(s)' = Report("down", TRUE) \/ Health(s)' = Report("degraded", TRUE)
      BY <1>1, <1>5, <2>1, <2>4 DEF Health, DatabasesHealth, Report, Asked, Holds
    <3> QED BY <1>3, <3>2, <3>3 DEF Report, Falls
  <2> QED BY <2>2, <2>3, <2>4
<1>6. CASE s = "proxmox"
  <2>1. Health(s) = Report(ProxmoxState, TRUE) /\ Health(s)' = Report(ProxmoxState', TRUE)
    BY <1>1, <1>2, <1>6 DEF Health, ProviderHealth
  <2>2. ProxmoxState \in {"healthy", "degraded", "down"} /\ ProxmoxState' \in {"degraded", "down"}
    BY <1>1, <1>2, <1>6 DEF ProxmoxState, Holds
  <2>3. ProxmoxState = "down" => ProxmoxState' = "down"
    BY <1>1, <1>2, <1>6 DEF ProxmoxState, Holds
  <2> QED BY <1>3, <2>1, <2>2, <2>3 DEF Report, Falls
<1>7. CASE s \in {"prometheus", "docker"}
  <2>1. Health(s) = Report(WatchedState(s), TRUE) /\ Health(s)' = Report(WatchedState(s)', TRUE)
    BY <1>1, <1>2, <1>7 DEF Health, ProviderHealth
  <2>2. WatchedState(s) \in {"healthy", "degraded"} /\ WatchedState(s)' \in {"degraded", "down"}
    BY <1>1, <1>2, <1>7 DEF WatchedState, Holds
  <2> QED BY <1>3, <2>1, <2>2 DEF Report, Falls
<1>8. CASE s \in {"digitalocean", "redis", "alertmanager"}
  <2>1. view.parts = {}
    BY <1>1, <1>8 DEF Possible, PartStates
  <2>2. Health(s) = Report("healthy", TRUE) /\ Health(s)' = Report("down", TRUE)
    BY <1>1, <1>2, <1>8, <2>1 DEF Health, ProviderHealth, Reached
  <2> QED BY <1>3, <2>2 DEF Report, Falls
<1> QED BY <1>4, <1>5, <1>6, <1>7, <1>8 DEF Subsystems

LEMMA OthersStay ==
  ASSUME DashInvariant, NEW s \in Subsystems, s # "console_database", NEW view \in Views[s], Changes(s, view),
         NEW t \in Subsystems, t # s
  PROVE  Health(t)' = Health(t)
<1>1. estate'[t] = estate[t] /\ estate'["console_database"] = estate["console_database"]
  BY DEF Changes, DashInvariant, DashTypeOK, Subsystems
<1>2. CASE t = "console_database"
  BY <1>1, <1>2 DEF Health, PingDatabase
<1>3. CASE t = "applications"
  BY <1>1, <1>3 DEF Health, ApplicationsHealth, Asked, Holds
<1>4. CASE t = "databases"
  BY <1>1, <1>4 DEF Health, DatabasesHealth, Asked, Holds
<1>5. CASE t \notin {"console_database", "applications", "databases"}
  <2>1. t = "proxmox" => ProxmoxState' = ProxmoxState
    BY <1>1 DEF ProxmoxState, Holds
  <2>2. WatchedState(t)' = WatchedState(t) /\ Reached(t)' = Reached(t)
    BY <1>1 DEF WatchedState, Reached, Holds
  <2> QED BY <1>1, <1>5, <2>1, <2>2 DEF Health, ProviderHealth
<1> QED BY <1>2, <1>3, <1>4, <1>5

LEMMA PointsFall ==
  ASSUME DashInvariant, NEW s \in Subsystems, s # "console_database", NEW view \in Views[s], Changes(s, view),
         Lost(estate[s], view)
  PROVE  HealthScore' <= HealthScore
<1> DEFINE H == ReportedAs("healthy")
           D == ReportedAs("degraded")
           was == s \in Reported
           is == s \in Reported'
<1>1. \A t \in Subsystems : t # s => (t \in Reported' <=> t \in Reported) /\ (t \in H' <=> t \in H) /\ (t \in D' <=> t \in D)
  BY OthersStay DEF Reported, ReportedAs
<1>2. Falls(Health(s).state, Health(s)'.state, was, is)
  BY LossesFall
<1>3. /\ s \in H <=> was /\ Health(s).state = "healthy"
      /\ s \in D <=> was /\ Health(s).state = "degraded"
      /\ s \in H' <=> is /\ Health(s)'.state = "healthy"
      /\ s \in D' <=> is /\ Health(s)'.state = "degraded"
  BY DEF ReportedAs
<1>4. /\ Reported \subseteq Subsystems /\ Reported' \subseteq Subsystems
      /\ H \subseteq Subsystems /\ H' \subseteq Subsystems /\ D \subseteq Subsystems /\ D' \subseteq Subsystems
  BY DEF Reported, ReportedAs
<1>5. /\ IsFiniteSet(Reported) /\ IsFiniteSet(H) /\ IsFiniteSet(D) /\ IsFiniteSet(Reported') /\ IsFiniteSet(H') /\ IsFiniteSet(D')
      /\ Cardinality(Reported) \in Nat /\ Cardinality(H) \in Nat /\ Cardinality(D) \in Nat
      /\ Cardinality(Reported') \in Nat /\ Cardinality(H') \in Nat /\ Cardinality(D') \in Nat
      /\ Cardinality(H) + Cardinality(D) <= Cardinality(Reported)
  <2>1. (/\ IsFiniteSet(Reported) /\ Cardinality(Reported) \in 0..9
         /\ IsFiniteSet(ReportedAs("healthy")) /\ IsFiniteSet(ReportedAs("degraded"))
         /\ Cardinality(ReportedAs("healthy")) \in Nat /\ Cardinality(ReportedAs("degraded")) \in Nat)'
    BY ReportsCounted, PTL
  <2> QED BY <2>1, ReportsCounted
<1>6. Cardinality(Reported) <= Cardinality(Reported')
  <2>1. Reported \subseteq Reported'
    BY <1>1, <1>2, <1>4 DEF Falls
  <2> QED BY <2>1, <1>5, FS_Subset
<1>7. 2 * Cardinality(H') + Cardinality(D') <= 2 * Cardinality(H) + Cardinality(D)
  <2>1. CASE H' \subseteq H /\ D' \subseteq D
    <3>1. Cardinality(H') <= Cardinality(H) /\ Cardinality(D') <= Cardinality(D)
      BY <2>1, <1>5, FS_Subset
    <3> QED BY <3>1, <1>5
  <2>2. CASE was /\ is /\ Health(s).state = "healthy" /\ Health(s)'.state = "degraded"
    <3>1. s \in H /\ H' = H \ {s} /\ D' = D \union {s}
      BY <1>1, <1>3, <1>4, <2>2
    <3> HIDE DEF H, D
    <3>2. Cardinality(H \ {s}) = Cardinality(H) - 1
      BY <3>1, <1>5, FS_RemoveElement
    <3>3. Cardinality(D \union {s}) <= Cardinality(D) + 1
      <4>1. Cardinality(D \union {s}) = IF s \in D THEN Cardinality(D) ELSE Cardinality(D) + 1
        BY <1>5, FS_AddElement
      <4> QED BY <4>1, <1>5
    <3>4. Cardinality(H') = Cardinality(H) - 1 /\ Cardinality(D') <= Cardinality(D) + 1
      BY <3>1, <3>2, <3>3
    <3> QED BY <3>4, <1>5
  <2>3. (H' \subseteq H /\ D' \subseteq D) \/ (was /\ is /\ Health(s).state = "healthy" /\ Health(s)'.state = "degraded")
    BY <1>1, <1>2, <1>3, <1>4 DEF Falls
  <2> QED BY <2>1, <2>2, <2>3
<1>8. HealthScore = ScoreOf(Cardinality(Reported), Points) /\ HealthScore' = ScoreOf(Cardinality(Reported'), Points')
  <2>1. (HealthScore = ScoreOf(Cardinality(Reported), Points))'
    BY ScoreIsOfPoints, PTL
  <2> QED BY <2>1, ScoreIsOfPoints DEF ScoreOf
<1>9. Points = 2 * Cardinality(H) + Cardinality(D) /\ Points' = 2 * Cardinality(H') + Cardinality(D')
  BY DEF Points
<1> HIDE DEF H, D
<1>10. Points \in Nat /\ Points' \in Nat /\ Points' <= Points /\ (Cardinality(Reported) # 0 \/ Points' = 0)
  BY <1>5, <1>7, <1>9
<1> QED BY <1>5, <1>6, <1>8, <1>10, ScoresFall

LEMMA LossesLower ==
  DashInvariant /\ [DashNext]_dashVars =>
    [\A s \in Subsystems \ {"console_database"} : Lost(estate[s], estate'[s]) => HealthScore' <= HealthScore]_dashVars
<1> SUFFICES ASSUME DashInvariant, NEW t \in Subsystems, NEW view \in Views[t], Changes(t, view),
                    NEW s \in Subsystems \ {"console_database"}, Lost(estate[s], estate'[s])
             PROVE  HealthScore' <= HealthScore
  BY DEF DashNext
<1>1. estate' = [estate EXCEPT ![t] = view] /\ estate \in [Subsystems -> View]
  BY DEF Changes, DashInvariant, DashTypeOK
<1>2. CASE s = t
  BY <1>1, <1>2, PointsFall
<1>3. CASE s # t
  BY <1>1, <1>3 DEF Lost
<1> QED BY <1>2, <1>3

\* For whatever there can be of nine subsystems: a full score is one that everything which reported has
\* earned, and what is lost never raises it, but for the console's own database.
THEOREM DashPromiseHolds == DashSpec => DashPromise
<1>1. DashInvariant => DashTypeOK
  BY DEF DashInvariant
<1>2. LossesLowerTheScore <=>
        [][\A s \in Subsystems \ {"console_database"} : Lost(estate[s], estate'[s]) => HealthScore' <= HealthScore]_dashVars
  BY DEF LossesLowerTheScore
<1> QED BY <1>1, <1>2, DashStarts, DashSteps, FullScoresHold, LossesLower, PTL DEF DashSpec, DashPromise
=============================================================================
