SPECIFICATION Spec
CONSTANTS
  a = a
  b = b
  main = main
  checker = checker
  x = x
  y = y
  z = z
  Contracts = {a, b}
  Bootstrap = {a}
  QueueSize = 2
  WireSize = 1
  MaxConns = 2
  MaxFrames = 3
  MaxWishes = 2
  MaxCrashes = 2
  Windows <- TwoWindows
  Child = 2
  Sizes = {1, 3}
  MaxOrders = 4
  MaxTime = 3
  Procs = {main, checker}
  Trader = main
  MaxAge = 2
  MaxTokens = 3
  MaxFaults = 1
  Tasks = {x, y, z}
  Priorities = {0, 2}
  MaxReads = 4
  Kinds = {"session", "profit"}
  MaxFailures = 2
  Asks = {2, 4}
  Bankrolls = {10, 12}
  Fee = 1
  Target = 5
  Delay = 1
  Patience = 1
  Hold = 2
  QuoteAge = 1
  MaxEpisodes = 2
  MaxSource = 2
  MaxRuns = 3
CHECK_DEADLOCK FALSE
INVARIANTS TypesOK EntriesLeaveRoom
PROPERTIES FeedIsFollowed ProbeIsRepaired SupersededIsDropped TurnIsPassed AuthorityIsSound PaperIsExact
