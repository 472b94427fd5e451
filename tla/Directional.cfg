SPECIFICATION FairSpec
CONSTANTS
  m1 = m1
  m2 = m2
  reb = reb
  old = old
  sec = sec
  s1 = s1
  s2 = s2
  None = None
  Keys <- AllKeys
  Kind <- Kinds
  Family <- Families
  Bucket <- Buckets
  ExitAt <- Exits
  Configs <- AllConfigs
  Carried = old
  MaxLives = 2
  Lots = {1}
  Child = 1
  NetLevels = {0, 2}
  Arm = 2
  Stop = 0
  Cooldown = 2
  MaxTime = 4
  MaxFaults = 1
INVARIANTS TypeOK OneEntryPerFamily FloorBinds
PROPERTIES EntryOnTime ReconnectConsumes PositionsEnd
