SPECIFICATION FairSpec
CONSTANTS
  t1 = t1
  t2 = t2
  Task <- MCTask
  Loader = loader
  Locator = locator
  Configs <- MCConfigs
  MaxRetries = 3
INVARIANTS TypeOK DisconnectIsFinal ReportedIffUnanswered TwiceOnlyAfterLoss
PROPERTY PoolDrains
CHECK_DEADLOCK FALSE
