SPECIFICATION FairSpec
CONSTANTS
  p1 = p1
  p2 = p2
  p3 = p3
  s1 = s1
  s2 = s2
  e1 = e1
  NoOrder = NoOrder
  Probes <- TwoProbes
  Sales <- Nothing
  Exits <- Nothing
  Cost <- SteepCost
  MaxAttempts = 1
  DebitCap = 3
  MaxEpochs = 2
  MaxIncidents = 2
INVARIANT TypeOK
PROPERTIES ProbesAreSafe AllowanceIsUsed
