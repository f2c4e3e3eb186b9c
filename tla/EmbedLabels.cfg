SPECIFICATION PartsSpec
CONSTANTS
  Payloads <- MCPayloads
  Extractions <- MCExtractions
  LastDay = 4
  Soon = 1
  WindowFrom = 2
  WindowTo = 4
  AmountCap = 1000000
  Mails = {m1, m2}
  Callers = {c1, c2}
  MaxHits = 2
  Window = 2
  MaxKeys = 1
  Lifetime = 2
  LastSecond = 4
  MaxTokens = 1
  MaxPasswords = 3
  Files = {f1, f2}
  Documents = {d1, d2}
  Reports = {rep}
  Days = {monday, tuesday}
  Texts = {"x", "y", "z"}
  Batches = {1, 2}
  TextsOf <- MCTextsOf
  Chain <- MCChain
  Quota = 3
  CacheSize = 2
  PartNames = {"gateway"}
  Urls = {"a", "b"}
  Shown <- MCShown
  Slugless = {"b"}
  Kinds = {"plain", "deep", "pilot", "grants", "tenders"}
  Outcomes <- MCOutcomes
  DeepCap = 3
  WindowCap = 1
  XhrCap = 3
  RenderCap = 1
  TenderCap = 1
  PersistCap = 1
  Calls = {"a", "b", "c", "d"}
  Homes <- MCHomes
  PerPage = 2
  CapUnit = 50
  MaxPlaces = 3
  MaxChanges = 1
  MemoryCap = 2
  Connectors <- MCConnectors
  Order <- MCOrder
  Rows = {1, 2, 3}
  Tenants = {"local", "a"}
  LocalOrg = "local"
  MaxBoots = 2
  MaxClaims = 2
  MaxEdits = 1
  RunsKept = 3
  EmptyRunsFail = 2
  PausedFrom = 3
  AuditRows <- MCAuditRows
  Hosts <- MCHosts
  Starts <- MCStarts
  AuthorizedHosts <- MCAuthorized
  MultiLabelSuffixes <- MCSuffixes
  OwnerPairs <- MCPairs
  SharedTenants <- MCShared
  RequestBudget = 5
  MaxRedirects = 3
  OwnerOf <- MCOwnerOf
  PublicSuffixes <- MCPublic
  Pages = {"x", "y"}
  Threads = {"t1", "t2"}
  LlmCache = 1
  MaxRetries = 1
  MaxAsks = 2
  Workers = {"w1", "w2"}
  LoopIds = {"p", "q"}
  MaxLoops = 3
  Entries = {"o1", "o2", "o3", "o4", "o5"}
  Posting <- MCPosting
  Origin <- MCOrigin
  DayTicks = 2
  SoonTicks = 2
  WeekDays = 1
  MonthDays = 2
  LaneSize = 2
  LastTick = 5
  Viewers = {1, 2}
  Orgs = {"a", "b"}
  Essential = 2
  Charts = 1
  KeptTicks = 1
  LastClock = 2
  Scorable = {"o1", "o2"}
  Contents <- MCContents
  Units = {1, 2}
  MaxUnits = 3
  SectorRows = {"o1", "o2", "o3"}
  ByRules <- MCByRules
  ByVectors <- MCByVectors
  Judgements <- MCJudgements
  Scripts = {1, 2}
  BatchSize = 2
  MaxScripts = 2
INVARIANT LabelsHonest
CHECK_DEADLOCK FALSE
