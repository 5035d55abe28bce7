SPECIFICATION MCSpec
CONSTANTS
  alice = alice
  bob = bob
  carol = carol
  Parts = {"deployments", "dashboard", "review"}
  Users = {alice, bob, dave}
  Applications = {"shop-production"}
  Versions = {v1}
  DeploymentIds = {d1, d2}
  Requests = {r1}
  Callbacks = {c1, c2}
  NoUser = NoUser
  NoVersion = NoVersion
  Environment <- MCEnvironment
  Key <- MCKey
  UserEnvironments <- MCUserEnvironments
  Deployers = {alice, bob, dave}
  ProductionDeployers <- MCProductionDeployers
  LostLayers = {}
  MaxInstant = 3
  Views <- MCViews
  Releases = {d1, d2}
  Remarks = {n1}
  NoReview = NoReview
  MaxVerdicts = 4
SYMMETRY Symmetry
CHECK_DEADLOCK FALSE
INVARIANTS
  DeploymentsInvariant
PROPERTIES
  DecidedOnce
  RejectionIsFinal
  ReopenedOnlyByLateUpdate
  ImplementsGate
  DashPromise
  ReviewPromise
