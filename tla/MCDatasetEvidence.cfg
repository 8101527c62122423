CONSTANTS
  none = none
  sc = sc
  sm = sm
  ss = ss
  None = none
  Models <- MCModels
  Catalog <- MCCatalog
  Km = 10
  NoDestinationPct = 80
  SwapPct = 90
  Power <- MCPower
  TaperDivisor = 3
  Setup = 6
  Stations <- MCStations
  Site <- MCSite
  Interface <- MCInterface
  Family <- MCFamily
  MaxWait = 30
  ServiceTime <- MCServiceTime
  Trips <- MCTrips
  Trip <- MCTrip
  TripNumber <- MCTripNumber
  Assigned <- MCAssigned
  OldSite <- MCOldSite
  StagedSoc <- MCStagedSoc
  Middle = 1
  FartherBy = 5
  MinimumSafe = 15
  UsablePct = 90
  HeavyPct = 120
  MaxGroup = 2
  StationNumber <- MCNumber
  Worlds <- MCWorlds
  OldVehicles <- MCOldVehicles
  OldBattery <- MCOldBattery
  NearTie = 3
  TieGoal <- MCTieGoal
  Target <- MCTarget
  MaxCrashes = 0
SPECIFICATION Spec
INVARIANT EvidenceOfTrip
CHECK_DEADLOCK FALSE
