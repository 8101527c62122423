SPECIFICATION RecommendationSpec
CONSTANTS
  Keys = {1, 2}
  Times = {1, 2}
  Bodies <- MCBodies
  NoSnap = NoSnap
  Readers = {r1}
  Stations = {s1}
  StationKey <- MCStationKey
  QueueKey <- MCQueueKey
  Feasible <- MCFeasible
  MaxWait = 1
  NoPair = NoPair
  Batches <- MCBatches
  MaxRequests = 1
INVARIANTS RankedEligible ConfirmedEligible ViewsAdvance
PROPERTIES ConflictIsReal
CHECK_DEADLOCK FALSE
