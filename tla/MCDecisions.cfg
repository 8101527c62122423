CONSTANTS
  none = none
  s1 = s1
  s2 = s2
  None = none
  Models <- MCModels
  Catalog <- MCCatalog
  Km = 1
  NoDestinationPct = 75
  SwapPct = 90
  Power <- MCPower
  TaperDivisor = 2
  Setup = 1
  Stations <- MCStations
  Site <- MCSite
  Interface <- Plug
  Family <- SwapFamily
  MaxWait = 90
  Contexts <- MCContexts
  Networks <- MCNetworks
  Operations <- MCOperations
  Delays = {none, 2}
  Assessments <- MCAssessments
  Steps = 2
  MissingQueueWait = 90
  Number <- MCNumber
  Journeys <- MCJourneys
  Points <- MCPoints
  Adherence <- MCAdherence
  PointLimit = 13
  PersonalLimit = 3
  ActiveLimit = 2
  DriverLimit = 1
SPECIFICATION Spec
INVARIANT ReachableNow
INVARIANT EnergyBalanced
INVARIANT ArrivesWithReserve
INVARIANT ChargeNeverHurts
INVARIANT BoundedDetour
CHECK_DEADLOCK FALSE
