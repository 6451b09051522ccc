SPECIFICATION FairSpec
CONSTANTS
  Trigger <- PairTrigger
  Station <- MCStation
  SiteTime <- MCSiteTime
  Batches <- PairBatches
  MaxBaseLineAsTOA = 50
  MinStations = 2
  CredibleStations = 2
  MaxStations = 3
  Mode = "realTime"
  StartTime = 0
  EndTime = 0
  ConfigTime = 1
  WaitTime = 30
  HostOffset = 28800
  IdleSleep = 30
  IdleWarnPeriod = 60
  LoadSleep = 60
  WindowMinutes = 20
  RecentSeconds = 300
  SizeModulus = 65536
  Boot = 0
  TickSeconds = 30
  Horizon = 150
PROPERTIES WarningTruthful LeavesWhileFed
