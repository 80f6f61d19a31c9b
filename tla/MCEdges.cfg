SPECIFICATION EdgesSpec
CONSTANTS
  c1 = c1
  c2 = c2
  c3 = c3
  Calls = {c1, c2, c3}
  Loads <- MCLoads
  Replies <- MCReplies
  MaxSends = 2
  Window = 2
  Margin = 1
  Capacity = 2
  MAX_RETRY_AFTER = 3
  DefaultPause = 1
  Backoff = 1
  Timeout = 0
  Telemetry = 1
  Late = 1
  StartBy = 0
  Passes = {1, 2}
  Receipts = {1, 2}
  PER_TICK = 1
  MaxTimers = 2
  MaxBoots = 2
  Watchers = {"worker", "script"}
  Rows <- MCRows
  Failures = {"tick"}
  MaxTold = 2
  Tokens = {"nvdaB", "nvdaO"}
  Platform <- MCPlatform
  Recorders = {"w1", "w2"}
  Lives <- MCLives
  SIZES = {5, 50}
  Sessions <- MCSessions
  Share = 2
  Fresh = 1
  MaxBad <- MCBad
  MaxChanges = 1
  Runs = {"r1", "r2"}
  Broadcasts = {"r1", "r2"}
  Wheres = {"public", "local", "elsewhere"}
  MaxVersion = 2
  MaxAgents = 1
  Acts = {"a1", "a2"}
  Migrators = {"b1", "b2"}
  Rollers = {"r1", "r2"}
  Journal <- MCJournal
  Forms <- MCForms
  Cap = 3
  MaxPlans = 2
  MaxRuns = 2
  MinBuy = 2
  MaxPerTx = 6
  DailyCap = 8
  VenueMin <- MCVenueMin
  MaxRequotes = 2
  Sizes <- MCSizes
  Tapes <- MCTapes
  Questions <- MCQuestions
  House = {"h"}
  Others = {"j"}
  Limit = 2
  PlanLimit = 1
  PerCycle = 3
  MaxLog = 3
  MaxDuring = 1
  DAY = 2
  TOLERANCE = 1
  DEPEG = 2
  TICK_FRESH = 1
  Feeds <- MCFeeds
  Held <- MCHeld
  MaxClock = 4
  MaxTicks = 3
  MaxCuts = 1
INVARIANTS
  CallsTrue
  OneSigner
  ToldOnce
  TapeTrue
  RegistryTrue
  SiteTrue
  
  ToldTrue
  
  GuardianTrue
PROPERTIES
  FinalKept
CHECK_DEADLOCK FALSE
