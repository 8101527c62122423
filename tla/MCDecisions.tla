---------------------------- MODULE MCDecisions ----------------------------
(***************************************************************************)
(* A car and two motorcycles of the official catalog - one with a fixed    *)
(* battery, one with up to two removable modules - between two stations    *)
(* and a destination.  Distances are counted in kilometres, times in       *)
(* minutes, energies in units of ten watt-hours, of which every figure of  *)
(* the three models is a whole number (and the fractions stay within the   *)
(* integers of TLC); power is of the order of the configured one.          *)
(* A context differs from a plain one in at most two values besides        *)
(* vehicle, charge, trip and choice, so that pairs of unusual values meet. *)
(***************************************************************************)
EXTENDS Decisions, VehicleCatalog, Familiarity

CONSTANTS none, s1, s2

MCModels == {"VF_7_PLUS", "EVO200", "FELIZ_II"}
MCCatalog ==
  [m \in MCModels |->
     [Canonical[m] EXCEPT !.battery = @ \div 10, !.usable = @ \div 10, !.consumption = @ \div 10,
                          !.module = IF @ = None THEN @ ELSE @ \div 10]]
MCPower == [m \in MCModels |-> ChargePower(10, 1, 7)[m]]
MCStations == {s1, s2}
MCNumber == [s \in MCStations |-> IF s = s1 THEN 1 ELSE 2]

(* The second station has no swap bays and takes no cars.                  *)
MCSite ==
  [s \in MCStations |->
     [slots |-> [v \in {"CHARGING", "BATTERY_SWAP"} |->
                   IF s = s2 /\ v = "BATTERY_SWAP" THEN 0 ELSE 2],
      vehicles |-> IF s = s1 THEN {"EV_CAR", "EV_MOTORBIKE"} ELSE {"EV_MOTORBIKE"},
      connectors |-> {"VINFAST_MOTORCYCLE_CHARGING"} \cup (IF s = s1 THEN {"CCS2_TYPE2"} ELSE {}),
      families |-> IF s = s1 THEN {"VINFAST_SWAP_LFP_1_5_KWH"} ELSE {}]]

Plain == [vehicle |-> [model |-> "VF_7_PLUS", installed |-> none], soc |-> 50, energy |-> none,
          range |-> none, trip |-> none, planned |-> none, travelled |-> none,
          reserve |-> none, consumption |-> none, minSafe |-> none, service |-> none]
Vehicles ==
  {[model |-> "VF_7_PLUS", installed |-> none], [model |-> "EVO200", installed |-> none]}
  \cup {[model |-> "FELIZ_II", installed |-> i] : i \in {none, 0, 1, 2, 3, 4, 6}}

Socs == {none, 10, 25, 50, 100}
Basic == {[Plain EXCEPT !.vehicle = v, !.soc = soc, !.trip = t, !.service = s] :
            v \in Vehicles, soc \in Socs, t \in {none, 30, 45},
            s \in {none, "ANY", "CHARGING", "BATTERY_SWAP"}}
Settled == {b \in Basic : b.soc \in {25, 50} /\ b.service \in {none, "ANY"}
                          /\ b.vehicle.installed \in {none, 2, 3}}
MCContexts ==
  Basic
  \cup {[b EXCEPT !.energy = e, !.range = r] :
          b \in Settled, e \in {none, 0, 90, 270}, r \in {none, 0, 40}}
  \cup {[b EXCEPT !.reserve = p, !.consumption = k] :
          b \in {x \in Settled : x.trip # 45}, p \in {none, 12}, k \in {none, 5}}
  \cup {[b EXCEPT !.planned = 40, !.travelled = d, !.minSafe = l] :
          b \in {x \in Settled : x.trip = none}, d \in {none, 15, 60}, l \in {none, 30}}

Road(m, s) == [distance |-> m, duration |-> s]

(* The destination beyond the stations; the first station off the way; no  *)
(* way onward from the second; no way to the destination.                  *)
MCNetworks ==
  LET road(o1, o2, d, a, b) ==
        [p \in {"origin", "destination", s1, s2} \X {"origin", "destination", s1, s2} |->
           CASE p = <<"origin", s1>> -> o1
             [] p = <<"origin", s2>> -> o2
             [] p = <<"origin", "destination">> -> d
             [] p \in {<<s1, "destination">>, <<"destination", s1>>} -> a
             [] p \in {<<s2, "destination">>, <<"destination", s2>>} -> b
             [] OTHER -> none]
  IN { road(Road(10, 20), Road(15, 32), Road(28, 60), Road(20, 44), Road(15, 30)),
       road(Road(0, 0), Road(45, 90), Road(12, 24), Road(12, 24), none),
       road(Road(4, 4), none, none, none, Road(3, 6)) }

Open(free, batteries, wait) ==
  [status |-> "OPEN", slots |-> [v \in {"CHARGING", "BATTERY_SWAP"} |-> free],
   batteries |-> batteries, wait |-> [v \in {"CHARGING", "BATTERY_SWAP"} |-> wait],
   serviceTime |-> 9]
MCOperations ==
  { [s \in MCStations |-> Open(2, 1, 0)],
    [s \in MCStations |-> IF s = s1 THEN Open(1, 0, none) ELSE Open(1, 0, 60)],
    [s \in MCStations |-> IF s = s1 THEN Open(0, 2, 0) ELSE Open(2, 2, 99)],
    [s \in MCStations |-> [Open(2, 2, 0) EXCEPT !.status = IF s = s1 THEN "OFFLINE" ELSE @]] }

-----------------------------------------------------------------------------
(* Histories: driver 1 on the proposed road, on a road half along it, on   *)
(* another road, at another time of day, after now, before the lookback    *)
(* and with an unknown road; two other drivers, one of them twice.         *)
MCPoints == [along |-> 2, half |-> 2, away |-> 3]
MCAdherence ==
  [p \in (DOMAIN MCPoints) \X (DOMAIN MCPoints) |->
     IF p[1] = p[2] THEN Whole(1) ELSE IF "half" \in {p[1], p[2]} THEN Q(1, 2) ELSE Zero]
Driven(driver, trip, completed, road) ==
  [driver |-> driver, trip |-> trip, completed |-> completed, started |-> completed - 20, road |-> road]
MCJourneys ==
  { Driven(1, 1, 1940, "along"), Driven(1, 2, 1900, "half"), Driven(1, 3, 1930, "away"),
    Driven(1, 4, 2400, "along"), Driven(1, 5, 3400, "along"), Driven(1, 6, 480, "away"),
    Driven(1, 7, 1950, none),
    Driven(2, 1, 1920, "half"), Driven(2, 2, 1940, "away"), Driven(3, 1, 1940, "along") }
MCNow == 3380               \* 08:20, the third day
MCPolicy(drivers) == [support |-> Q(1, 10), mean |-> Q(1, 2), strength |-> Zero,
                      drivers |-> drivers, prior |-> Whole(1), lookback |-> 2880]
Assessed(history, drivers, route) ==
  AssessMany(MCPolicy(drivers), history, 1, MCNow, <<route, none>>)[1]

(* Every assessment from these histories keeps its contract, tells of      *)
(* others only together and never lets them change what it says of the     *)
(* driver; one more comparable trip on the proposed road never makes the   *)
(* road look stranger (route_familiarity/service.py _evaluate).            *)
ASSUME AssessmentsAssumption ==
  \A history \in SUBSET Journeys, route \in {"along", "away", none}, drivers \in 1..2 :
    LET a == Assessed(history, drivers, route)
        alone == Assessed({t \in history : t.driver = 1}, drivers, route)
    IN  /\ Contract(a)
        /\ Anonymous(MCPolicy(drivers), history, 1, a, alone)
        /\ \A t \in Journeys \ history :
             t.driver = 1 /\ t.road = route /\ Comparable(t, MCNow, 2880) =>
               Leq(Strangeness(Assessed(history \cup {t}, drivers, route)), Strangeness(a))

(* An assessment in steps of a half, as these are.                         *)
Graded(a) ==
  [personal |-> IF a.personal = None THEN none ELSE Nearest(Times(Whole(2), a.personal)),
   confidence |-> Nearest(Times(Whole(2), a.confidence)),
   community |-> IF a.community = None THEN none ELSE Nearest(Times(Whole(2), a.community)),
   communityConfidence |-> Nearest(Times(Whole(2), a.communityConfidence))]

(* A driver without a history, one who drove elsewhere while another drove *)
(* half the route, and the limit of what many trips elsewhere can say.     *)
MCAssessments ==
  { Graded(Assessed({}, 1, "along")),
    Graded(Assessed({t \in Journeys : t.completed \in {1920, 1930}}, 1, "along")),
    [personal |-> 0, confidence |-> 2, community |-> 0, communityConfidence |-> 2] }
=============================================================================
