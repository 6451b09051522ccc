SPECIFICATION Spec
CONSTANTS
  Trigger <- AllTrigger
  Station <- MCStation
  SiteTime <- MCSiteTime
  Deques <- MCDeques
  Delays <- MCDelays
  Gains <- MCGains
  Hash <- MCHash
  MaxBaseLineAsTOA = 50
  MinStations = 5
  CredibleStations = 6
  MaxStations = 8
INVARIANTS TypeOK FinalIsCurrent CredibleUnlessFew EraseInRange LaterOnesStay
  EveryCombinationOnce SolverOnlyReads SameMinute ResultTime PeakOfEarliest
PROPERTIES RefinesLocateChoice
CHECK_DEADLOCK FALSE
