SPECIFICATION MCSpec
CONSTANTS
  alice = alice
  bob = bob
  carol = carol
  Parts = {"deployments"}
  Users = {alice}
  Applications = {"shop-staging"}
  Versions = {v1, v2}
  DeploymentIds = {d1, d2}
  Requests = {r1}
  Callbacks = {c1}
  NoUser = NoUser
  NoVersion = NoVersion
  Environment <- MCEnvironment
  Key <- MCKey
  UserEnvironments <- MCUserEnvironments
  Deployers = {alice}
  ProductionDeployers <- MCProductionDeployers
  LostLayers = {}
  MaxInstant = 2
  Views <- MCViews
  Releases = {d1}
  Remarks = {n1}
  NoReview = NoReview
  MaxVerdicts = 1
SYMMETRY Symmetry
CHECK_DEADLOCK FALSE
INVARIANT RollbackGoesBack
