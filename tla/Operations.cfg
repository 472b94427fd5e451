SPECIFICATION Operations
CONSTANTS
  Intents <- OneOfEach
  Lots <- ThreeLots
  Owner <- OwnerOf
  Side <- SideOf
  RowsLag = TRUE
  ReportsFilled = TRUE
  MaxFaults = 1
  Lot = 2
  Freeze = 9
  Asks = {2, 4}
  Quantities = {0, 2, 13, 26}
  Targets = {4, 6, 12}
  Cash = {8, 30, 90, 240}
  Caps = {120}
  Bids = {1, 2}
  Bands = {6}
  Brokerage = 2
  Rates <- OneRate
  Gst <- GstRate
  Stamp <- StampRate
  Stt <- SttRate
  Rupee = 3
  MinimumEdge = 2
  Strikes = {1, 2}
  Premiums = {300, 600, 900}
  Scenarios = {600, 1800, 3600}
  Activity = {0, 1, 3}
  Depths = {0, 2}
  FreezeLots = 2
  Ceiling = 700
  Budgets = {700, 3000}
  OrderFee = 2
  Share = 10
  Traders <- TwoTraders
  Confirm = 1
  Fresh = 1
  Pause = 1
  Grace = 1
  MaxDaily = 2
  Kept = 1
  DayLength = 3
  MaxWatch = 4
  MaxMishaps = 1
  Room = 2
  Batch = 2
  MaxRows = 3
  MaxStarts = 2
  MaxErrors = 1
  Newest = 2
  Retained = 1
  MaxDay = 3
  MaxLives = 3
  MaxKills = 1
  Engines = {"CAS", "GAP"}
  AuctionEngine = "CAS"
  Results <- SomeResults
  EntryLots = 2
  ChildFee = 1
  Spreads = {1, 3}
  Minimum = 2
  PerEngine = 2
  Overall = 3
  RankingAge = 1
  MaxClosed = 3
  MaxInstant = 1
  Indices = {"BANK"}
  OfNow = {"iv"}
  OfTheDay = {"prior_chain"}
  Lifetime <- LifetimeOf
  Limit <- LimitOf
  Valid = 3
  Timeout = 1
  Backoff = 2
  CalendarAge = 3
  Options = {1, 2}
  ReadRoom = 1
  MaxMoment = 5
  MaxMisses = 1
CHECK_DEADLOCK FALSE
INVARIANTS ClosedIsSettled SizedWithinMeans IncidentsAreHandled
PROPERTIES RulesAreSound LedgerNeverForgets ArbitrationIsSound RecordsAreTrue
