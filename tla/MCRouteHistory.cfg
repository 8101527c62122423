SPECIFICATION HistorySpec
CONSTANTS
  Routes = {"r1", "r2"}
  Geometries = {"g1", "g2"}
  Starts = {"s1", "s2"}
  None = None
  Requests <- MCRequests
  Legacy <- MCLegacy
  NoRow = NoRow
  Trips = {"t1", "t2"}
  Detectors = {1, 2}
  Workers = {w1, w2, w3}
  MaxRequests = 3
  MaxFaults = 1
INVARIANTS RouteAnswersHold TripAnswersHold
PROPERTIES ImplementsEvidence
SYMMETRY MCSymmetry
CHECK_DEADLOCK FALSE
