SPECIFICATION FairSpec
CONSTANTS
  l1 = l1
  NoLife = NoLife
  Lives = {l1}
  Depth = 2
  Child = 1
  Price = 1
  Costs = {1}
  Credits = {1}
  Exercise = 1
  CashLevels = {2}
  Capital = 2
  Reinvest = FALSE
  Limit = 2
  DebitCap = 2
  MaxBooks = 2
  MaxFaults = 2
PROPERTIES PositionsEnd
