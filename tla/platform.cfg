CONSTANTS
  None = None
  q1 = q1
  t1 = t1
  b1 = b1
  Requests = {q1, q2}
  Tasks = {t1, t2}
  Keys = {k1}
  Bodies = {b1, b2}
  Window = 1
  MaxClock = 3
  Lossy = TRUE
  Lookups = {l1, l2}
  TTL = 2
  Travel = 1
  Life = 3
  MaxChunks = 3
  MaxBlocks = 6
  g1 = g1
  g2 = g2
  g3 = g3
  Billed = {g1, g2, g3}
  ScopesOf <- MCScopesOf
  BudgetTables <- MCBudgetTables
  DayLength = 3
  MonthLength = 6
  CacheFor = 1
  Way = 1
  LastTick = 3
  ToolIndexes = {0, 1}
  c1 = c1
  c2 = c2
  Clients = {c1, c2}
  Rpm <- MCRpm
  RateWindow = 3
  Skew = 1
  Delay = 0
  Horizon = 5
  Usages <- MCUsages
  Price <- MCPrice
  MaxText = 6
  Patchers = {p1, p2, p3}
  OldClients = {o1}
  Fields = {f1, f2}
  Nobody = Nobody
  Agents = {a1, a2}
  Setters = {s1, s2, s3}
  NoAgent = NoAgent
  Ids = {1, 2, 3}
  Micros = {0, 1, 2, 3}
  PerMilli = 2
  PageSize = 1
  Exactness = {FALSE}
  n1 = n1
  Creators = {d1, d2, d3}
  Storers = {s1, s2}
  Names = {n1, n2}
  Scopes = {"project", "platform"}
  Cap = 2
  NoCall = NoCall
  v1 = v1
  Posters = {p1}
  Deleters = {x1, x2}
  Versions = {v1, v2}
  First = First
  NoRun = NoRun
  Users = {u1, u2}
  Creator = u1
  Changes = {x1, x2}
  Stargazers = {u1, u2}
  Toggles = {t1, t2}
  MaxCount = 3
  Prompts = {p1, p2, p3}
  Sessions = {s1, s2}
  NoPrompt = NoPrompt
  Holders = {a1, a2}
  Recycles = {r1, r2}
  PoolSize = 2
  MaxCreated = 3
  Installs = {i1, i2}
  NoDir = NoDir
  Memories = {1, 2, 3}
  MaxItems = 3
  ToolCalls = {"call1", "call2"}
SPECIFICATION MCSpec
INVARIANTS
  TypesOK OneRunPerWindow RepliesMatch TranslationSound ChargedAsSent
  HistorySound ProjectSound EachRowOnce CredentialsSound CancelledForGood
  PackagesSound
PROPERTIES ImplementsOnce CallsEnd RevocationBites AdmissionHolds
CHECK_DEADLOCK FALSE
