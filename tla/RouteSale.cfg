SPECIFICATION Spec
CONSTANTS
  p1 = p1
  p2 = p2
  p3 = p3
  s1 = s1
  s2 = s2
  e1 = e1
  NoOrder = NoOrder
  Probes <- OneProbe
  Sales <- TwoSales
  Exits <- OneExit
  Cost <- UnitCost
  MaxAttempts = 2
  DebitCap = 2
  MaxEpochs = 2
  MaxIncidents = 2
INVARIANTS VerifiedIsCurrent ProbeNotShort
