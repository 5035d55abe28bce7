SPECIFICATION MCSpec
CONSTANTS
  Users = {u1, u2}
  Roles = {"owner", "viewer"}
  Sessions = {s1}
  Requests = {r1, r2}
  Logins = {l1}
  Attempts = {a1, a2, a3}
  MaxFailedAttempts = 4
  Tabs = {r1, r2}
  Posts = {u1, u2}
  MaxFlows = 2
  MaxCodes = 2
  MaxAttempts = 2
  NoTab = NoTab
  Claims <- MCClaims
  SessionIds = {k1, k2}
  Handlers = {r1, r2}
  Ttl = 2
  IdleTimeout = 0
  KeepExpired = 0
  KeepRevoked = 2
  MaxNow = 3
  NoSession = NoSession
SYMMETRY Symmetry
CHECK_DEADLOCK FALSE
INVARIANTS
  AccountsInvariant
  
PROPERTIES
  LastOwnerWasNotAlone
  RolesAreReplaced
  LockPromise
  RowsPromise
