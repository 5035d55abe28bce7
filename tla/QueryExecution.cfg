SPECIFICATION MCSpec
CONSTANTS
  dba = dba
  dev = dev
  Users = {dba, dev}
  Connections = {"shop-staging", "shop-production"}
  Queries = {q1}
  Activations = {a1}
  WindowIds = {w1}
  NoWindow = NoWindow
  Environment <- MCEnvironment
  UserEnvironments <- MCUserEnvironments
  Permissions <- MCPermissions
  LostLayers = {"pool", "guards"}
  Chunks <- MCChunks
  MaxChunks = 5
  Words <- MCWords
  MaxWords = 5
  Tabs = {t1, t2}
  Texts = {x1, x2}
  NoText = NoText
  Runs = {r1, r2}
  MaxSteps = 5
  MaxAnswersDue = 2
  Columns <- MCColumns
  FirstRows <- MCFirstRows
  Vals = {1, 2}
  Sizes = {2, 3}
  MaxPageRows = 2
  ExactCounts = 2
  MaxMoves = 4
  MaxWrites = 1
  MaxFetches = 1
  Labels = {"a", "b"}
  Filters = {"a"}
  AnyLabel = AnyLabel
  PerPage = 1
  MaxEntries = 3
  MaxPageFetches = 1
  NotRead = NotRead
  ColumnsOf <- MCColumnsOf
  Declarable <- MCDeclarable
  MaxDdl = 3
  MaxAsks = 1
CHECK_DEADLOCK FALSE
INVARIANTS
  QueryInvariant
  
  EditorPromise
  BrowserPromise
  
  HistoryPromise
