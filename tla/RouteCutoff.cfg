SPECIFICATION Spec
CONSTANTS
  p1 = p1
  p2 = p2
  p3 = p3
  s1 = s1
  s2 = s2
  e1 = e1
  NoOrder = NoOrder
  Probes <- OneProbe
  Sales <- Nothing
  Exits <- Nothing
  Cost <- UnitCost
  MaxAttempts = 1
  DebitCap = 1
  MaxEpochs = 1
  MaxIncidents = 1
PROPERTY NoProbeAfterCutoff
