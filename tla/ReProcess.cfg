SPECIFICATION FairSpec
CONSTANTS
  Trigger <- ReTrigger
  Station <- MCStation
  SiteTime <- MCSiteTime
  Batches <- ReBatches
  MaxBaseLineAsTOA = 50
  MinStations = 2
  CredibleStations = 2
  MaxStations = 3
  Mode = "reProcess"
  StartTime = 6300000
  EndTime = 33000000
  ConfigTime = 1
  WaitTime = 90
  HostOffset = 28800
  IdleSleep = 10
  IdleWarnPeriod = 20
  LoadSleep = 60
  WindowMinutes = 20
  RecentSeconds = 300
  SizeModulus = 65536
  Boot = 7200
  TickSeconds = 60
  Horizon = 7260
INVARIANTS NoBatchLost WindowsCover NothingLeftPending
PROPERTY Termination
CHECK_DEADLOCK FALSE
