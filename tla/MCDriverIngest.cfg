SPECIFICATION Spec
CONSTANTS
  Ids <- MCIds
  Places <- MCPlaces
  Observations <- MCObservations
  NoObs = NoObs
  Distance <- MCDistance
  WarmUp = 2
  MaxBuffer = 3
  MaxDedup = 10
  GapThreshold = 2
  Window = 2
  MaxContext = 2
  StationaryDistance = 1
  StationaryThreshold = 1
  ElapsedThreshold = 1
  MoveThreshold = 2
  Ingesters = {i1, i2}
  Resetters = {r1}
  MaxRetries = 2
  MaxIngests = 2
  MaxResets = 1
  MaxFaults = 1
INVARIANTS AckedKept ResetIsolates CountedOnce BufferOrdered EnoughContext
PROPERTIES ImplementsRegister LocationAdvances EveryRequestAnswered
CHECK_DEADLOCK FALSE
