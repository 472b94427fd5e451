SPECIFICATION SessionSpec
CONSTANTS
  l1 = l1
  l2 = l2
  NoLife = NoLife
  Lives = {l1, l2}
  Depth = 2
  Child = 2
  Price = 1
  Costs = {1}
  Credits = {0, 2}
  Exercise = 1
  CashLevels = {2}
  Capital = 2
  Reinvest = TRUE
  Limit = 2
  DebitCap = 3
  MaxBooks = 2
  MaxFaults = 2
  Call = Call
  TickSize = 1
  Asks = {1, 2}
  Levels = {1, 3}
  Needed = 3
  MaxAge = 4
  Uncertainties = {0}
  MaxUncertainty = 1
  MaxTime = 4
  MaxFrames = 6
  MaxConns = 2
  MaxCrashes = 1
  Values = {1, 2}
  Accepted = 1
  Kept = 2
  Options = {1}
  Between = {1}
  Forecasts = {1, 2}
  QuoteAge = 1
  Warm = 2
  Recent = 1
  Bucket = 3
  Deadline = 2
  Margin = 1
CHECK_DEADLOCK FALSE
SYMMETRY LivesSymmetry
INVARIANTS TypeOK ClosedIsOver PurchasesWithinBounds
PROPERTIES CapitalIsGuarded SignalIsSound InputsAreCurrent
