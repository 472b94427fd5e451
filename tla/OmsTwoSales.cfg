SPECIFICATION Spec
CONSTANTS
  b1 = b1
  b2 = b2
  s1 = s1
  s2 = s2
  Intents <- TwoSales
  Lots <- TwoSalesLots
  Owner <- TwoSalesOwner
  Side <- TwoSalesSide
  RowsLag = FALSE
  ReportsFilled = TRUE
  MaxFaults = 0
INVARIANT NoOversell
PROPERTY ImplementsExposure
SYMMETRY SalesSymmetry
