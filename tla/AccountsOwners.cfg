SPECIFICATION Spec
CONSTANTS
  Users = {u1, u2}
  Roles = {"owner", "viewer"}
  Sessions = {s1, s2}
  Requests = {r1, r2}
  Logins = {l1}
CHECK_DEADLOCK FALSE
INVARIANT OwnersRemain
