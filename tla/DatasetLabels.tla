---------------------------- MODULE DatasetLabels ----------------------------
(***************************************************************************)
(* The labels of the dataset: demand rows (generators 06 and 07), candidate*)
(* rows, ranking and recommendation (05, 06 and 07), and the two patches   *)
(* of a finished ranking (05b, 05c).  Every operator maps tables to a      *)
(* table; which stage reads and writes which is DatasetBuild.              *)
(*                                                                         *)
(* A trip drives a vehicle past its snapshots, each [travelled, time, left,*)
(* network, delay]: the distance driven, the key of the ten-minute state   *)
(* row, the minutes to the planned end, the legs between the places around *)
(* it, and the traffic in percent on the legs to and from a station.       *)
(* Events are <<trip, snapshot number, kind>>.                             *)
(***************************************************************************)
EXTENDS StationTables, Sequences, TLC

CONSTANTS
  Trips, Trip,           \* [vehicle, planned, scenario, split, snapshots]
  TripNumber,            \* the order of trip identifiers
  OldSite,               \* [connectors, batteries] in the words of 1.1
  Assigned,              \* what 06 makes of a vehicle: [model, installed]
  MinimumSafe,           \* minimum_safe_soc_pct
  UsablePct,             \* USABLE_RATIO
  HeavyPct,              \* consumption of a HEAVY_TRAFFIC trip
  MaxGroup,              \* MAX_RANK_CANDIDATES
  StationNumber          \* order of station identifiers

(* A trip only drives on, and from any station there is a way to reach      *)
(* there is one to its destination.                                        *)
Moment ==
  [travelled : Nat, time : Nat, left : Int, delay : [{1, 2} -> Nat],
   network : [({"origin"} \X Stations) \cup (Stations \X {"destination"}) -> Leg \cup {None}]]

OnTheWay(moments) ==
  /\ \A i, j \in DOMAIN moments : i < j => moments[i].travelled <= moments[j].travelled
  /\ \A i \in DOMAIN moments : \A s \in Stations :
       moments[i].network["origin", s] # None => moments[i].network[s, "destination"] # None

ASSUME TripsAssumption ==
  /\ IsFiniteSet(Trips)
  /\ \A t \in Trips :
       /\ Trip[t].planned \in Nat /\ Trip[t].snapshots \in Seq(Moment) /\ OnTheWay(Trip[t].snapshots)
       /\ Assigned[Trip[t].vehicle] \in Vehicle /\ Assigned[Trip[t].vehicle].installed # 0

ASSUME RankingAssumption ==
  /\ UsablePct \in Nat \ {0} /\ HeavyPct \in Nat /\ MaxGroup \in Nat /\ MaxGroup >= 2
  /\ StationNumber \in [Stations -> Nat]
  /\ \A s, z \in Stations : StationNumber[s] = StationNumber[z] => s = z
  /\ None # "no column" /\ None \notin Leg

(* What the labels and the backend compare with; a station lists no        *)
(* removable battery that is none.                                         *)
ASSUME LimitsAssumption ==
  /\ MaxWait \in Nat /\ MinimumSafe \in Nat
  /\ \A s \in Stations : None \notin Site[s].families

Kinds == {"AUTO"} \cup Services \cup {"ANY"}
Snapshots(t) == DOMAIN Trip[t].snapshots
SnapshotOf(e) == Trip[e[1]].snapshots[e[2]]
AutoEvents == UNION {{<<t, i, "AUTO">> : i \in Snapshots(t)} : t \in Trips}

(* Events are numbered in the order of the tables: once over the snapshots *)
(* alone, since 06 over all rows, a snapshot's own row before the requests.*)
KindNumber(k) == CASE k = "AUTO" -> 1 [] k = "CHARGING" -> 2 [] k = "BATTERY_SWAP" -> 3 [] OTHER -> 4

Earlier(a, e) ==
  \/ TripNumber[a[1]] < TripNumber[e[1]]
  \/ a[1] = e[1] /\ (a[2] < e[2] \/ (a[2] = e[2] /\ KindNumber(a[3]) < KindNumber(e[3])))

EventId(events, e) == 1 + Cardinality({a \in events : Earlier(a, e)})

-----------------------------------------------------------------------------
(* Vehicles.  Before 06 every motorcycle could swap, after it the model    *)
(* decides; the usable capacity is a share of what is installed.           *)
Patched(vehicle) ==
  LET c == Catalog[Assigned[vehicle].model]
  IN [category |-> c.category, swap |-> c.swap,
      capacity |-> Percent(UsablePct,
                     IF c.module # None /\ Assigned[vehicle].installed # None
                     THEN Q(c.module * Assigned[vehicle].installed, 2) ELSE Whole(c.battery)),
      consumption |-> c.consumption]

(* The charge and the range at a snapshot of a trip that started with so   *)
(* much, rounded as 04 writes them.                                        *)
Discharged(t, i, vehicles, initial) ==
  LET v == vehicles[Trip[t].vehicle]
      driven == Percent(IF Trip[t].scenario = "HEAVY_TRAFFIC" THEN HeavyPct ELSE 100,
                        Q(Trip[t].snapshots[i].travelled * v.consumption, Km))
      used == Over(Times(Whole(100), driven), v.capacity)
      soc == Greater(Zero, Minus(Whole(initial), used))
  IN [soc |-> Nearest(soc),
      range |-> Nearest(Over(Times(Percent(1, Times(soc, v.capacity)), Whole(Km)),
                             Whole(v.consumption)))]

-----------------------------------------------------------------------------
(* Demand rows.  auto_detect_service: need, service and reason.            *)
AllowedServices(v) == {"CHARGING"} \cup (IF v.swap THEN {"BATTERY_SWAP"} ELSE {})

RemainingKm(t, i) == Most2(0, Trip[t].planned - Trip[t].snapshots[i].travelled)
ReserveBuffer(remaining) == Greater(Whole(Km), Percent(15, Whole(remaining)))

MutatedNeed(row, remaining) ==
  LET low == row.soc < MinimumSafe + 5
      short == row.range < remaining
  IN  IF low /\ short THEN "LOW_SOC_AND_INSUFFICIENT_RANGE"
      ELSE IF low THEN "LOW_SOC" ELSE IF short THEN "INSUFFICIENT_RANGE" ELSE "SUFFICIENT_SOC_RANGE"

Need(row, remaining) ==
  LET low == row.soc <= MinimumSafe + 5
      short == Less(Whole(row.range), Plus(Whole(remaining), ReserveBuffer(remaining)))
  IN  IF low /\ short THEN "LOW_SOC_AND_INSUFFICIENT_RANGE"
      ELSE IF low THEN "LOW_SOC" ELSE IF short THEN "INSUFFICIENT_RANGE" ELSE "SUFFICIENT_SOC_RANGE"

(* The service of an AUTO row: 06 sends a vehicle that can swap to swap,   *)
(* 07 leaves the choice open.                                              *)
Forced(v, need) == IF ~need THEN "NONE" ELSE IF v.swap THEN "BATTERY_SWAP" ELSE "CHARGING"
Resolved(v, need) == IF need /\ ~v.swap THEN "CHARGING" ELSE None

RequestValid(v, kind) == kind = "ANY" \/ kind \in AllowedServices(v)

(* Rows of demand_labels.csv: what every row says of its snapshot, and the *)
(* rows 06 and 07 add it to, one detected and one for every request.       *)
Telemetry(e, vehicles, battery) ==
  [soc |-> battery[<<e[1], e[2]>>].soc, range |-> battery[<<e[1], e[2]>>].range,
   remaining |-> RemainingKm(e[1], e[2]), vehicle |-> vehicles[Trip[e[1]].vehicle],
   split |-> Trip[e[1]].split]

Extended(row, columns) ==
  [c \in DOMAIN row \cup DOMAIN columns |-> IF c \in DOMAIN row THEN row[c] ELSE columns[c]]

Detected(e, battery) == Need(battery[<<e[1], e[2]>>], RemainingKm(e[1], e[2]))

Auto06(e, why, service, vehicles, battery) ==
  Extended([source |-> "AUTO_DETECTED", need |-> why # "SUFFICIENT_SOC_RANGE", reason |-> why,
            requested |-> service, service |-> service, resolved |-> "no column", valid |-> None],
           Telemetry(e, vehicles, battery))

DetectedRow06(e, why, vehicles, battery) ==
  Auto06(e, why, Forced(vehicles[Trip[e[1]].vehicle], why # "SUFFICIENT_SOC_RANGE"), vehicles, battery)

AutoRow06(e, vehicles, battery) == DetectedRow06(e, Detected(e, battery), vehicles, battery)

Auto07(e, why, service, vehicles, battery) ==
  Extended([source |-> "AUTO_DETECTED", need |-> why # "SUFFICIENT_SOC_RANGE", reason |-> why,
            requested |-> None, service |-> service, resolved |-> service, valid |-> None],
           Telemetry(e, vehicles, battery))

DetectedRow07(e, why, vehicles, battery) ==
  Auto07(e, why, Resolved(vehicles[Trip[e[1]].vehicle], why # "SUFFICIENT_SOC_RANGE"), vehicles, battery)

AutoRow07(e, vehicles, battery) == DetectedRow07(e, Detected(e, battery), vehicles, battery)

Judged(valid) == IF valid THEN "VALID_REQUEST" ELSE "UNSUPPORTED_SERVICE"

RequestRow06(e, vehicles, battery) ==
  LET valid == RequestValid(vehicles[Trip[e[1]].vehicle], e[3])
  IN Extended([source |-> "DRIVER_REQUEST", need |-> TRUE, reason |-> Judged(valid), requested |-> e[3],
               service |-> IF e[3] = "ANY" THEN "CHARGING" ELSE e[3],
               resolved |-> "no column", valid |-> valid],
              Telemetry(e, vehicles, battery))

RequestRow07(e, vehicles, battery) ==
  LET valid == RequestValid(vehicles[Trip[e[1]].vehicle], e[3])
  IN Extended([source |-> "DRIVER_REQUEST", need |-> TRUE, reason |-> Judged(valid), requested |-> e[3],
               service |-> e[3],
               resolved |-> IF e[3] = "CHARGING" \/ (e[3] = "BATTERY_SWAP" /\ valid) THEN e[3] ELSE None,
               valid |-> valid],
              Telemetry(e, vehicles, battery))

(* A swap vehicle also asks for ANY.                                       *)
DemandEvents(vehicles) ==
  {e \in {<<a[1], a[2], k>> : a \in AutoEvents, k \in Kinds} :
     e[3] = "ANY" => vehicles[Trip[e[1]].vehicle].swap}

DemandTable06(vehicles, battery) ==
  [e \in DemandEvents(vehicles) |->
     IF e[3] = "AUTO" THEN AutoRow06(e, vehicles, battery) ELSE RequestRow06(e, vehicles, battery)]

DemandTable07(vehicles, battery) ==
  [e \in DemandEvents(vehicles) |->
     IF e[3] = "AUTO" THEN AutoRow07(e, vehicles, battery) ELSE RequestRow07(e, vehicles, battery)]

(* The rows a need is learnt from: 06 took all of them, 07 takes what was  *)
(* detected, not what drivers asked for.                                   *)
TrainingTable06(demand) ==
  [e \in DOMAIN demand |->
     [need |-> demand[e].need, split |-> demand[e].split, vehicle |-> demand[e].vehicle]]

TrainingTable07(demand) ==
  LET rows == TrainingTable06(demand)
  IN  [e \in {x \in DOMAIN demand : demand[x].source = "AUTO_DETECTED"} |-> rows[e]]

-----------------------------------------------------------------------------
(* Candidate rows.  What the state row of the event's ten minutes says.    *)
Unknown == [status |-> "UNKNOWN", slots |-> 0, batteries |-> 0, capacity |-> 0,
            length |-> 0, wait |-> None]

Observed(status, queue, s, time, v) ==
  IF <<s, time>> \notin DOMAIN status THEN Unknown
  ELSE LET row == status[s, time] IN
    [status |-> row.status, slots |-> row.free[v],
     batteries |-> IF v = "BATTERY_SWAP" THEN row.batteries ELSE 0,
     capacity |-> IF v = "BATTERY_SWAP" THEN Least2(row.free[v], row.batteries) ELSE row.free[v],
     length |-> queue[s, time].length[v], wait |-> queue[s, time].wait[v]]

(* compatible of 05 (and of 04), by what version 1.1 says of plugs and      *)
(* batteries; service_compatible of 06 and 07, by model and normalized     *)
(* stations.                                                               *)
Compatible05(v, s, service) ==
  /\ service \in AllowedServices(v) /\ Slots(s)[service] > 0
  /\ v.category \in Site[s].vehicles /\ v.connector \in OldSite[s].connectors
  /\ service = "BATTERY_SWAP" => v.battery \in OldSite[s].batteries

ServiceCompatible(vehicle, s, service, normalized) ==
  LET model == Assigned[vehicle].model IN
  /\ service \in AllowedServices(Patched(vehicle)) /\ Slots(s)[service] > 0
  /\ Catalog[model].category \in Site[s].vehicles
  /\ normalized /\ Interface[model] \in Site[s].connectors
  /\ service = "BATTERY_SWAP" => Family[model] # None /\ Family[model] \in Site[s].families

SocFeasible(leg, range) == leg # None /\ Leq(Plus(Whole(leg.distance), Q(Km, 2)), Whole(range))

(* The reason of a row, in the order of the scripts: 05 asked for the      *)
(* vehicle before the road.                                                *)
Reason(version, leg, compatible, o, service, range) ==
  LET road == IF leg = None THEN "UNREACHABLE" ELSE "-"
      plug == IF compatible THEN "-" ELSE "INCOMPATIBLE"
      first == IF version = "05" THEN IF plug # "-" THEN plug ELSE road
               ELSE IF road # "-" THEN road ELSE plug
  IN  IF first # "-" THEN first
      ELSE IF o.status # "OPEN" THEN "OFFLINE"
      ELSE IF service = "BATTERY_SWAP" /\ o.slots > 0 /\ o.batteries <= 0 THEN "NO_SWAP_BATTERY"
      ELSE IF o.capacity <= 0 THEN "FULL"
      ELSE IF o.wait = None \/ Less(Whole(MaxWait), o.wait) THEN "EXCESSIVE_QUEUE"
      ELSE IF ~SocFeasible(leg, range) THEN "INSUFFICIENT_SOC_TO_REACH"
      ELSE "ELIGIBLE"

CandidateRow(version, e, s, service, compatible, range, status, queue) ==
  LET o == Observed(status, queue, s, SnapshotOf(e).time, service)
      leg == SnapshotOf(e).network["origin", s]
  IN [reason |-> Reason(version, leg, compatible, o, service, range), leg |-> leg, state |-> o]

(* 06 evaluates the service it forced, 07 both where the row is undecided. *)
Needing(demand) == {e \in DOMAIN demand : demand[e].source = "AUTO_DETECTED" /\ demand[e].need}

Rows(version, keys, demand, normalized, status, queue) ==
  [k \in keys |->
     CandidateRow(version, k[1], k[2], k[3],
                  ServiceCompatible(Trip[k[1][1]].vehicle, k[2], k[3], normalized),
                  demand[k[1]].range, status, queue)]

CandidateTable06(demand, normalized, status, queue) ==
  Rows("06", {k \in Needing(demand) \X Stations \X Services : k[3] = demand[k[1]].requested},
       demand, normalized, status, queue)

CandidateTable07(demand, normalized, status, queue) ==
  LET services(row) == IF row.resolved # None THEN {row.resolved} ELSE AllowedServices(row.vehicle)
  IN  Rows("07", {k \in Needing(demand) \X Stations \X Services : k[3] \in services(demand[k[1]])},
           demand, normalized, status, queue)

(* 05: one service an event, and rows for events without a need as well.   *)
CandidateTable05(demand, status, queue) ==
  LET row(e, s) == CandidateRow("05", e, s, demand[e].service,
                                Compatible05(demand[e].vehicle, s, demand[e].service),
                                demand[e].range, status, queue)
      blank == [reason |-> "NO_SERVICE_NEEDED", leg |-> None, state |-> Unknown]
  IN [k \in {x \in (DOMAIN demand) \X Stations \X (Services \cup {"NONE"}) : x[3] = demand[x[1]].service} |->
        IF demand[k[1]].need THEN row(k[1], k[2]) ELSE blank]

Eligible(candidates, e) == {k \in DOMAIN candidates : k[1] = e /\ candidates[k].reason = "ELIGIBLE"}
Listed(candidates) == {k[1] : k \in DOMAIN candidates}

-----------------------------------------------------------------------------
(* Ranking.  The nearest MaxGroup eligible rows whose journey is complete, *)
(* by the documented cost, which prices minutes, detour and free capacity. *)
Nearer(candidates, k, l) ==
  LET a == candidates[k].leg.distance
      b == candidates[l].leg.distance
  IN  a < b \/ (a = b /\ (StationNumber[k[2]] < StationNumber[l[2]]
                          \/ (k[2] = l[2] /\ k[3] = "CHARGING" /\ l[3] # "CHARGING")))

Group(candidates, e) ==
  LET rows == Eligible(candidates, e)
  IN  {k \in rows : Cardinality({l \in rows : Nearer(candidates, l, k)}) < MaxGroup}

Complete(e, s) == SnapshotOf(e).network[s, "destination"] # None

(* Minutes on the road in the traffic of the moment, and the cost of a stop*)
(* that is served in so many.                                              *)
OnTheRoad(e, s) ==
  Plus(Percent(SnapshotOf(e).delay[1], Whole(SnapshotOf(e).network["origin", s].duration)),
       Percent(SnapshotOf(e).delay[2], Whole(SnapshotOf(e).network[s, "destination"].duration)))

CostAt(e, s, minutes, capacity, wait) ==
  LET in == SnapshotOf(e).network["origin", s]
      out == SnapshotOf(e).network[s, "destination"]
      later == Most2(0, in.duration + out.duration - Most2(0, SnapshotOf(e).left))
      further == Most2(0, in.distance + out.distance - RemainingKm(e[1], e[2]))
  IN  Minus(Plus(Plus(Plus(OnTheRoad(e, s), Whole(minutes)), wait),
                 Plus(Q(later, 4), Q(2 * further, Km))),
            Percent(35, Whole(Least2(capacity, 6))))

CostOf(e, s, service, capacity, wait) == CostAt(e, s, ServiceTime[service], capacity, wait)

(* Rows of one event in the order of cost, then station.                   *)
Cheaper(costs, k, l) ==
  \/ Less(costs[k], costs[l])
  \/ ~Less(costs[l], costs[k]) /\ (StationNumber[k[2]] < StationNumber[l[2]]
                                   \/ (k[2] = l[2] /\ k[3] = "CHARGING" /\ l[3] # "CHARGING"))

Ranked(costs) ==
  [k \in DOMAIN costs |->
     [cost |-> costs[k],
      rank |-> 1 + Cardinality({l \in DOMAIN costs : l[1] = k[1] /\ Cheaper(costs, l, k)})]]

RankingRows(candidates, ranked) ==
  [k \in DOMAIN ranked |->
     [cost |-> ranked[k].cost, rank |-> ranked[k].rank,
      wait |-> candidates[k].state.wait, capacity |-> candidates[k].state.capacity,
      ltr |-> Cardinality(Eligible(candidates, k[1])) >= 2]]

RankingTable(candidates) ==
  LET keys == {k \in UNION {Group(candidates, e) : e \in Listed(candidates)} : Complete(k[1], k[2])}
      cost(k) == CostOf(k[1], k[2], k[3], candidates[k].state.capacity, candidates[k].state.wait)
  IN  RankingRows(candidates, Ranked([k \in keys |-> cost(k)]))

Best(ranking, e) == {k \in DOMAIN ranking : k[1] = e /\ ranking[k].rank = 1}

Recommendations(events, ranking) ==
  [e \in events |-> IF Best(ranking, e) = {} THEN None ELSE (CHOOSE k \in Best(ranking, e) : TRUE)[2]]

-----------------------------------------------------------------------------
(* The two patches.  A row of the ranking with another wait and capacity.  *)
Repriced(ranking, k, wait, capacity) ==
  [ranking EXCEPT ![k].wait = wait, ![k].capacity = capacity,
                  ![k].cost = CostOf(k[1], k[2], k[3], capacity, wait)]

Reranked(ranking, events) ==
  LET order == Ranked([k \in DOMAIN ranking |-> ranking[k].cost])
  IN [k \in DOMAIN ranking |->
        IF k[1] \in events THEN [ranking[k] EXCEPT !.rank = order[k].rank] ELSE ranking[k]]

(* 05c: every candidate that references the target state row takes its     *)
(* slots, batteries and queue, and the events concerned are ranked again.  *)
Affected(candidates, target) ==
  {k \in DOMAIN candidates : k[2] = target[1] /\ SnapshotOf(k[1]).time = target[2]}

MutatedSynced(candidates, target, status, queue) == candidates

Synced(candidates, target, status, queue) ==
  [k \in DOMAIN candidates |->
     IF k \in Affected(candidates, target) /\ k[3] # "NONE"
     THEN [candidates[k] EXCEPT !.state = [Observed(status, queue, target[1], target[2], k[3])
                                             EXCEPT !.status = candidates[k].state.status]]
     ELSE candidates[k]]

SyncedRanking(ranking, candidates, target) ==
  LET touched == Affected(candidates, target) \cap DOMAIN ranking
      row(k) == IF k \in touched
                THEN Repriced(ranking, k, candidates[k].state.wait, candidates[k].state.capacity)[k]
                ELSE ranking[k]
  IN Reranked([k \in DOMAIN ranking |-> row(k)], {k[1] : k \in touched})
=============================================================================
