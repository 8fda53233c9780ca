SPECIFICATION Spec
CONSTANTS
  m1 = m1
  e1 = e1
  e2 = e2
  e3 = e3
  ann = ann
  bob = bob
  i1 = i1
  i2 = i2
  Actors = {a1, a2}
  Memories = {m1}
  Entities = {e1, e2, e3}
  Names = {ann, bob}
  NameOf <- MCNameOf
  StableId <- MCStableId
  Similar <- MCSimilar
  Facts = {f}
  Important = {e1}
  MinAccess = 1
  MinMention = 2
  Themes = {t}
  MaxRenames = 2
  NoCommunity = NoCommunity
  Workers = {a1, a2}
  Extractions <- MCExtractions
  Legacy = {e1, e2, e3}
  LegacyLong = {e3}
  TopK = 1
  Threshold = 2
  MinReflected = 1
  MinStatements = 1
  NoMemory = NoMemory
  MaxMoves = 2
  MaxAccess = 1
  Clusterers = {a1, a2}
  Known <- MCKnown
  Learned <- MCLearned
  MaxClusterings = 2
  MaxTurns = 2
  Worlds <- MCWorlds
  TypeOf <- MCTypeOf
  Unembedded = {e2, e3}
  RecallK = 1
  NoView = NoView
  MaxRewrites = 1
  Requests = {a1, a2}
  Models = {1, 2}
  DefaultModel = 1
  Secrets = {"k"}
  Servers = {"s"}
  Urls = {"u"}
  AgentIds = {1}
  Blank = ""
  NoRow = NoRow
  OldFile <- MCOldFile
  MaxEdits = 3
  Sessions = {s1}
  Projects = {p1}
  Titles = {n1, n2}
  TaskIds = {t1}
  SessionStatuses = {"pending", "running"}
  Files = {f1}
  AgentNames = {react}
  Writers = {a1, a2}
  None = None
  MaxWrites = 4
  MaxUnread = 1
  McpServers = {x1, x2}
  A2aServers = {y1, y2}
  NoManager = NoManager
  MaxRuns = 2
  UserIds = {u1, u2, u3}
  Identities = {i1, i2}
  UserName <- MCUserName
  Fallbacks <- MCFallbacks
  AdminName = "admin"
  Emails = {"a", "b"}
  Logins = {a1, a2}
  NoIdentity = NoIdentity
  NoUser = NoUser
  MaxLogins = 3
  MaxJobs = 3
  Paths = {"report", "upload"}
  UploadPath = "upload"
  Contents = {k1, k2}
  k1 = k1
  k2 = k2
  Absent = Absent
  NoBox = 0
  NoFile = 0
  MaxBoxes = 2
  MaxFiles = 2
  MaxTouches = 2
SYMMETRY Symmetry
CONSTRAINT ClusteringsFit
INVARIANTS
  CompletedIsTraced InsightSourcesCounted ReflectionsAreEarned
  OneCommunityPerEntity UndisturbedClusteringSettles UndisturbedViewsAgree
  UncontestedEditsStand UnracedColumnsStand
  A2aClientOnlyInRun OfferedToolsAreConnected OneAccountPerIdentity
  JobsCloseWhatTheyOpen ListedFilesAreCurrent RunningSandboxesAreKnown
PROPERTIES LongTermIsKept MergeKeepsTraces
CHECK_DEADLOCK FALSE
