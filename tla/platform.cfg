CONSTANTS
  Jobs = {j1, j2}
  Keys = {key1, key2}
  Resolvers = {r1, r2}
  NoResolve = NoResolve
  MaxConcurrent = 2
  MaxLeaks = 1
  Workers = {w1, w2, w3}
  NoLock = NoLock
  LockTtl = 2
  LastMoment = 6
  Items = {i1, i2}
  Viewers = {v1, v2}
  Notices = {n1}
  Unread = Unread
  Sites = {site1, site2}
  People = {ann, bob}
  Metas = {x1}
  Absent = Absent
  MaxLists = 3
  Clients = {c1, c2}
  Writes = {s1, s2, s3}
  MaxSavepoints = 1
  MaxValues = 3
  Ids = {0, 1, 2}
  NoKey = NoKey
  Nodes <- MCNodes
  Trees <- MCTrees
  MaxWrites = 1
  Requests = {q1}
  Filters = {{"item"}}
  MaxRoutes = 2
  MaxGuards = 2
  MaxPerWindow = 1
  TableNames = {"users"}
  ColumnNames = {"age", "name"}
  Definitions <- MCDefinitions
  MaxRecords = 2
  Processes = {"p1", "p2"}
  Order <- MCOrder
  Fields <- MCFields
  Required <- MCRequired
  References <- MCReferences
  Legacy <- MCLegacy
  Attempts = {0, 2}
  Programs = {"a"}
  Parent <- MCParent
  FileNames <- MCNames
  Layouts <- MCLayouts
  FileContents <- MCContents
  Inline <- MCInline
  Drivers = {"pg"}
  Script = "app"
  Overrides = {"none", "relative"}
  MaxEdits = 2
  RowTables = {"notes", "tags"}
  Guarded = {"notes"}
  Owners = {"ann", "bob"}
  Subjects = {"ann", "root", "anon"}
  Allows <- MCAllows
  Denied = {"anon"}
  MaxBuilders = 3
  Adapters = {"memory", "s3"}
  Callers = {"c1", "c2"}
  ObjectNames = {"k"}
  Users = {"ann"}
  Versions = {1}
  Policies <- MCPolicies
  Grids <- MCGrids
  RowKeys = {1, 2}
  MaxAnswers = 2
  MaxColumns = 2
  RowSets <- MCRowSets
  AgeValues = {1, 2}
  Sizes = {0, 1, 2}
  MaxPerPage = 1
  MaxParams = 3
  MaxChecks = 2
  Statements = {"one", "two", "three"}
  Account = {ann, bob}
  Opening = {0, 1}
  Payers = {t1, t2}
  Amounts = {1}
  MostPoints = 2
SPECIFICATION Spec
CHECK_DEADLOCK FALSE
INVARIANTS
  PlatformTypesOK
  StaleMeansRefreshing
  LockExcludes
  ViewersFollow
  SqliteAllOrNothing
  PlansBindValues
  ReadsComplete
  RoutesGuarded
  SaidIsSo
  StartsRight
  GatesHold
  StudioTouchesAddressed
PROPERTIES
  SoleJobKeepsWarming
