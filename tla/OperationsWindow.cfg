SPECIFICATION MCSpec
CONSTANTS
  admin = admin
  dev = dev
  droplet = droplet
  database = database
  Users = {admin, dev}
  UserRoles <- MCUserRoles
  Resources = {droplet, database}
  Kind <- MCKind
  Keys = {"power_off_droplet", "activate_database_write_mode"}
  Requests = {r1, r2}
  Retries = 1
  InUse = {"staging", "production"}
  NoEnvironment = NoEnvironment
  NoValue = NoValue
  MaxMoves = 1
  Pages = {"digitalocean", "proxmox", "services"}
  Listed = {"x"}
  ResourceLabel <- MCResourceLabel
  Nothing = Nothing
  MaxRequests = 2
  Rows <- MCRows
  Terms = {"web", "db"}
  PageSizes = {1, 2}
  Unset = Unset
  Settings = {"logs.retention_days", "query.max_rows"}
  Seeded <- MCSeeded
  Reads <- MCReads
  NaN = NaN
  Fallbacks <- MCFallbacks
  SaveCalls = {r1, r2}
  OldestDay = 2
  MaxSettingWrites = 2
  Services = {s1}
  StatusCalls = {r1, r2}
  Missing = Missing
  MaxPulse = 2
  MaxUpsets = 1
  Sources = {"api"}
  Levels = {"error"}
  All = All
  MaxLines = 2
SYMMETRY Symmetry
CHECK_DEADLOCK FALSE
INVARIANT WindowsAreAudited
