SPECIFICATION SimSpec
CONSTANTS
  Keys = {1, 2}
  Times = {1, 2}
  Bodies <- MCBodies
  NoSnap = NoSnap
  Writers = {w1, w2}
  Readers = {r1}
  Batches <- MCBatches
  MaxIngests = 3
  MaxResolves = 1
  MaxFaults = 1
  QueueKey = 1
  StationKey = 2
  Slots = 1
  Posted <- MCPosted
  NoLoop = NoLoop
INVARIANTS NoLockCycle AnswersTrue ViewIsPinned ViewsCoherent
PROPERTIES CacheNeverOlder ImplementsStore
SYMMETRY MCSymmetry
CHECK_DEADLOCK FALSE
