SPECIFICATION MCSpec
CONSTANTS
  Ids = {i1, i2}
  Requests = {h1, h2}
  Lookups = {l1}
  Fields = {"url", "username"}
  Required = {"url"}
  SecretFields = {"password"}
  old = old
  Values = {old}
  Absent = Absent
  Fallback <- MCFallback
  CredentialOptional = TRUE
  NoId = NoId
  MaxRequests = 2
  FormTypes <- MCFormTypes
  Conns = {i1, i2}
  NoConn = NoConn
  RowCalls = {h1, h2}
  MaxDialogs = 3
  MaxWrites = 2
SYMMETRY Symmetry
CHECK_DEADLOCK FALSE
INVARIANTS
  CacheInvariant
  
PROPERTIES
  UpdatesKeepTheRest
  
