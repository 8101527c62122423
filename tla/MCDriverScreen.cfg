SPECIFICATION Spec
CONSTANTS
  Stations = {s1}
  Dests = {b}
  NoStation = NoStation
  NoDest = NoDest
  NoTrip = NoTrip
  NoPlan = NoPlan
  NoStages = NoStages
  NoRoute = NoRoute
  Slots = {p1, p2, p3}
SYMMETRY Symmetry
INVARIANTS LockedOnPlan EstimatesCurrent
PROPERTIES OnlyChoiceLocks LateAnswersInert
CONSTRAINT FewStale
