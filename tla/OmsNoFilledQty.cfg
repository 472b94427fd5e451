SPECIFICATION Spec
CONSTANTS
  b1 = b1
  b2 = b2
  s1 = s1
  s2 = s2
  Intents <- RoundTrip
  Lots <- RoundTripLots
  Owner <- RoundTripOwner
  Side <- RoundTripSide
  RowsLag = FALSE
  ReportsFilled = FALSE
  MaxFaults = 1
INVARIANT ClosedIsSettled
