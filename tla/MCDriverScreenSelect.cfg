SPECIFICATION Spec
CONSTANTS
  Stations = {s1, s2}
  Dests = {b}
  NoStation = NoStation
  NoDest = NoDest
  NoTrip = NoTrip
  NoPlan = NoPlan
  NoStages = NoStages
  NoRoute = NoRoute
  Slots = {p1, p2}
INVARIANTS SelectionPreserved
