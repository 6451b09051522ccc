SPECIFICATION Spec
CONSTANTS
  Trigger <- FiveTrigger
  Station <- FiveStations
  SiteTime <- FiveSiteTime
  Batches <- FiveBatches
  MaxBaseLineAsTOA = 50
  MinStations = 5
  CredibleStations = 6
  MaxStations = 8
  Mode = "realTime"
  StartTime = 0
  EndTime = 0
  ConfigTime = 1
  WaitTime = 90
  HostOffset = 28800
  IdleSleep = 10
  IdleWarnPeriod = 20
  LoadSleep = 60
  WindowMinutes = 20
  RecentSeconds = 300
  SizeModulus = 65536
  Boot = 0
  TickSeconds = 60
  Horizon = 180
INVARIANT UsedOnce
