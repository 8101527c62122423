---------------------------- MODULE MCDataset ----------------------------
(***************************************************************************)
(* Three motorcycles, two of which version 1.1 believes to swap; one can.  *)
(* Ten trips past a charging station, a mixed one and a swap station: two  *)
(* that are ranked and one that needs nothing, in the first two slices of  *)
(* ten minutes, and one for each scenario that is staged, in the others.   *)
(* Distances are counted in hundreds of metres, energies in units of ten   *)
(* watt-hours.                                                             *)
(***************************************************************************)
EXTENDS DatasetReplay

CONSTANTS none, sc, sm, ss

MCModels == {"fixed", "removable"}
MCCatalog ==
  [x \in MCModels |->
     IF x = "fixed"
     THEN [category |-> "EV_MOTORBIKE", battery |-> 40, usable |-> 36, module |-> none,
           modules |-> 0, swap |-> FALSE, consumption |-> 3]
     ELSE [category |-> "EV_MOTORBIKE", battery |-> 60, usable |-> 54, module |-> 30,
           modules |-> 2, swap |-> TRUE, consumption |-> 3]]
MCPower == [m \in MCModels |-> 1]
MCServiceTime == [v \in {"CHARGING", "BATTERY_SWAP"} |-> IF v = "CHARGING" THEN 20 ELSE 5]
MCStations == {sc, sm, ss}
MCNumber == [s \in MCStations |-> CASE s = sc -> 1 [] s = sm -> 2 [] s = ss -> 3]
MCSite ==
  [s \in MCStations |->
     [slots |-> [v \in {"CHARGING", "BATTERY_SWAP"} |->
                   IF v = "CHARGING" THEN CASE s = sc -> 2 [] s = sm -> 1 [] OTHER -> 0
                   ELSE IF s = sc THEN 0 ELSE 2],
      vehicles |-> {"EV_MOTORBIKE"}, connectors |-> {"MOTORCYCLE"},
      families |-> IF s = sc THEN {} ELSE {"LFP"}]]
MCInterface == [x \in MCModels |-> "MOTORCYCLE"]
MCFamily == [x \in MCModels |-> IF x = "fixed" THEN none ELSE "LFP"]

MCOldSite == [s \in MCStations |-> [connectors |-> {"AC"}, batteries |-> IF s = sc THEN {} ELSE {"SWAP_A"}]]

MCAssigned == [v \in {"v1", "v2", "v3"} |->
                 IF v = "v1" THEN [model |-> "removable", installed |-> 4]
                 ELSE [model |-> "fixed", installed |-> none]]
MCOldVehicles == [v \in {"v1", "v2", "v3"} |->
                    [category |-> "EV_MOTORBIKE", swap |-> v # "v3", connector |-> "AC",
                     battery |-> "SWAP_A", capacity |-> Whole(IF v = "v1" THEN 50 ELSE 36),
                     consumption |-> 3]]

MCStaged == {"LONG_QUEUE", "QUEUE_REALTIME_CHANGE", "STATION_STATUS_CHANGE", "FARTHER_BUT_FASTER",
             "NEAREST_FULL", "STATION_OFFLINE", "NO_AVAILABLE_STATION"}
(* What trips start with in version 1.0.                                   *)
MCStart == [x \in MCStaged \cup {"NEAR_TIE_STATIONS", "HEAVY_TRAFFIC", "NORMAL"} |->
                   CASE x = "NEAR_TIE_STATIONS" -> 60 [] x = "HEAVY_TRAFFIC" -> 66
                     [] x = "NORMAL" -> 100 [] OTHER -> 35]
MCStagedSoc == [x \in MCStaged \cup {"NEAR_TIE_STATIONS", "HEAVY_TRAFFIC"} |->
                  CASE x = "NEAR_TIE_STATIONS" -> 60 [] x = "HEAVY_TRAFFIC" -> 66 [] OTHER -> 30]

Road(m, s) == [distance |-> m, duration |-> s]
Roads(c, m, s, cd, md, sd) ==
  [p \in (MCStations \X {"destination"}) \cup ({"origin"} \X MCStations) |->
     CASE p = <<"origin", sc>> -> c [] p = <<"origin", sm>> -> m [] p = <<"origin", ss>> -> s
       [] p[1] = sc -> cd [] p[1] = sm -> md [] OTHER -> sd]
Snap(d, t, left, roads, in) ==
  [travelled |-> d, time |-> t, left |-> left, network |-> roads, delay |-> <<in, 100>>]

(* One snapshot of a trip that a scenario is staged for.                   *)
MixedFirst == Roads(Road(6, 9), Road(4, 6), Road(12, 14), Road(60, 65), Road(60, 66), Road(58, 60))
SwapFirst == Roads(Road(9, 12), Road(13, 16), Road(5, 7), Road(60, 65), Road(60, 62), Road(58, 60))
ChargingFirst == Roads(Road(3, 5), Road(8, 9), Road(5, 7), Road(60, 65), Road(60, 66), Road(58, 60))
Staging(vehicle, scenario, time, roads) ==
  [vehicle |-> vehicle, planned |-> 100, scenario |-> scenario, split |-> "test",
   snapshots |-> << Snap(10, time, 90, roads, 100) >>]

(* On the first trip the swap station leads the mixed one by more than a   *)
(* tie; early on there is no way to it.                                    *)
MCTrip ==
  [t \in {"t1", "t2", "t3", "t4", "t5", "t6", "t7", "t8", "t9", "t10"} |->
    CASE t = "t1" ->
      [vehicle |-> "v1", planned |-> 120, scenario |-> "NEAR_TIE_STATIONS", split |-> "train",
       snapshots |-> <<
         Snap(40, 1, 30, Roads(Road(6, 9), Road(4, 6), none, Road(70, 75), Road(80, 90), Road(70, 80)), 100),
         Snap(80, 2, 10, Roads(Road(3, 5), Road(6, 7), Road(3, 4), Road(40, 44), Road(40, 12), Road(35, 10)), 100) >>]
      [] t = "t2" ->
      [vehicle |-> "v2", planned |-> 70, scenario |-> "HEAVY_TRAFFIC", split |-> "test",
       snapshots |-> <<
         Snap(10, 1, 80, Roads(Road(20, 30), Road(70, 90), Road(9, 12), Road(50, 60), Road(9, 9), Road(60, 60)), 120),
         Snap(50, 2, 30, Roads(Road(8, 9), Road(12, 20), Road(10, 15), Road(20, 22), Road(12, 14), Road(20, 24)), 100) >>]
      [] t = "t3" ->
      [vehicle |-> "v1", planned |-> 40, scenario |-> "NORMAL", split |-> "train",
       snapshots |-> <<
         Snap(10, 1, 40, Roads(Road(1, 1), Road(2, 2), Road(3, 3), Road(30, 30), Road(30, 30), Road(30, 30)), 100) >>]
      [] t = "t4" -> Staging("v1", "LONG_QUEUE", 3, MixedFirst)
      [] t = "t5" -> Staging("v3", "QUEUE_REALTIME_CHANGE", 4, ChargingFirst)
      [] t = "t6" -> Staging("v1", "STATION_STATUS_CHANGE", 4, SwapFirst)
      [] t = "t7" -> Staging("v1", "FARTHER_BUT_FASTER", 7, SwapFirst)
      [] t = "t8" -> Staging("v2", "NEAREST_FULL", 6, MixedFirst)
      [] t = "t9" -> Staging("v3", "STATION_OFFLINE", 3, ChargingFirst)
      [] OTHER -> Staging("v2", "NO_AVAILABLE_STATION", 6, SwapFirst)]
MCTrips == DOMAIN MCTrip
MCTripNumber ==
  [t \in MCTrips |-> CHOOSE i \in 1..10 :
     t = <<"t1", "t2", "t3", "t4", "t5", "t6", "t7", "t8", "t9", "t10">>[i]]

MCOldBattery ==
  [k \in {<<a[1], a[2]>> : a \in AutoEvents} |->
     Discharged(k[1], k[2], MCOldVehicles, MCStart[Trip[k[1]].scenario])]

-----------------------------------------------------------------------------
State(status, occupied, batteries, queue) ==
  [status |-> status, occupied |-> occupied, batteries |-> batteries, queue |-> queue]
(* The slices in which scenarios are staged are quiet before that.         *)
Slices(c1, c2, m1, m2, s1, s2) ==
  [k \in MCStations \X (1..7) |->
     CASE k = <<sc, 1>> -> c1 [] k = <<sc, 2>> -> c2 [] k = <<sm, 1>> -> m1
       [] k = <<sm, 2>> -> m2 [] k = <<ss, 1>> -> s1 [] k = <<ss, 2>> -> s2
       [] OTHER -> State("OPEN", 1, IF k[1] = sc THEN 0 ELSE 4, 0)]
Closed == State("OFFLINE", 0, 0, 0)
Shift(b) == [k \in MCStations \X (1..7) |-> IF k[1] # sm THEN 0 ELSE IF k[2] < 3 THEN b ELSE -1]
World(rows, b, times) ==
  [rows |-> rows, bias |-> Shift(b), sampled |-> MCStations \X times]

(* The first is patched by 05b, the second is tied already; full, closed   *)
(* and crowded stations, the bias either way.                              *)
MCWorlds ==
  { World(Slices(State("OPEN", 1, 0, 0), State("OPEN", 0, 0, 0), State("OPEN", 2, 2, 2),
               State("OPEN", 1, 2, 0), State("OPEN", 0, 4, 0), State("OPEN", 1, 4, 0)), 0, {1, 5}),
    World(Slices(Closed, State("OPEN", 2, 0, 3), State("OPEN", 3, 0, 1),
               State("OPEN", 2, 2, 0), Closed, State("OPEN", 1, 2, 1)), 1, {2, 4, 6}),
    World(Slices(State("OPEN", 1, 0, 2), State("OPEN", 2, 0, 12), State("OPEN", 3, 2, 3),
               State("OPEN", 0, 1, 0), State("OPEN", 2, 4, 3), State("OPEN", 1, 4, 0)), -1, {1, 3}),
    World(Slices(State("OPEN", 0, 0, 0), State("OPEN", 1, 0, 0), State("OPEN", 1, 0, 1),
               State("OPEN", 2, 1, 3), Closed, State("OPEN", 1, 3, 1)), 1, {}) }

MCTieGoal == Q(3, 2)
MCTarget == <<ss, 2>>
=============================================================================
