---------------------------- MODULE DatasetChecks ----------------------------
(***************************************************************************)
(* The validator of the dataset (dataset_v1/validation/validate_dataset.py)*)
(* as predicates over the tables: each operator is a group of its checks   *)
(* that can come out differently for different tables.  Counts of the one  *)
(* published fleet, the road network, GPS and map-matching files, which no *)
(* stage modelled here writes, are left out.                               *)
(***************************************************************************)
EXTENDS DatasetScenarios

-----------------------------------------------------------------------------
(* Sections 4 to 6: what a demand row may say, by its source.              *)
AutoChecks(row) ==
  IF ~row.need THEN row.resolved = None
  ELSE row.resolved = IF row.vehicle.swap THEN None ELSE "CHARGING"

DriverChecks(row) ==
  CASE row.requested = "ANY"      -> row.service = "ANY" /\ row.resolved = None /\ row.valid
    [] row.requested = "CHARGING" -> row.valid /\ row.resolved = "CHARGING"
    [] OTHER -> /\ row.valid <=> row.vehicle.swap
                /\ row.resolved = IF row.valid THEN "BATTERY_SWAP" ELSE None

(* Every snapshot has its own row and its requests: two, or three where    *)
(* the vehicle can swap.                                                   *)
DemandChecks(demand) ==
  /\ AutoEvents \subseteq DOMAIN demand
  /\ \A e \in DOMAIN demand :
       /\ demand[e].resolved # "no column"
       /\ IF demand[e].source = "AUTO_DETECTED" THEN AutoChecks(demand[e]) ELSE DriverChecks(demand[e])
  /\ \A a \in AutoEvents :
       {e \in DOMAIN demand : e[1] = a[1] /\ e[2] = a[2] /\ e[3] # "AUTO"}
         = {<<a[1], a[2], k>> : k \in {"CHARGING", "BATTERY_SWAP"}
                                      \cup (IF demand[a].vehicle.swap THEN {"ANY"} ELSE {})}

(* Section 2: a battery only runs down along a trip.                       *)
BatteryChecks(battery) ==
  /\ \A k \in DOMAIN battery : battery[k].soc \in 0..100
  /\ \A k, l \in DOMAIN battery : k[1] = l[1] /\ k[2] < l[2] => battery[l].soc <= battery[k].soc

(* Section 7: a need is learnt from detected needs alone, each of them, and *)
(* most of them are needs.                                                 *)
Mostly(held, events) ==
  Cardinality({e \in events : ~held[e]}) < Cardinality({e \in events : held[e]})

TrainingChecks(training, demand) ==
  /\ DOMAIN training = {e \in DOMAIN demand : demand[e].source = "AUTO_DETECTED"}
  /\ Mostly([e \in DOMAIN training |-> training[e].need], DOMAIN training)

-----------------------------------------------------------------------------
(* Section 9.                                                              *)
Reasons == {"ELIGIBLE", "INCOMPATIBLE", "OFFLINE", "FULL", "UNREACHABLE",
            "INSUFFICIENT_SOC_TO_REACH", "NO_SWAP_BATTERY", "EXCESSIVE_QUEUE"}

Undecided(demand) ==
  {e \in DOMAIN demand : /\ demand[e].source = "AUTO_DETECTED"
                         /\ demand[e].need /\ demand[e].resolved = None}

CandidateChecks(candidates, ranking, demand) ==
  /\ Listed(candidates) \subseteq DOMAIN demand
  /\ \A e \in Undecided(demand) \cap Listed(candidates) :
       {k[3] : k \in {c \in DOMAIN candidates : c[1] = e}} = Services
  /\ \A k \in DOMAIN candidates :
       /\ candidates[k].reason \in Reasons
       /\ candidates[k].reason = "ELIGIBLE" /\ k[3] = "BATTERY_SWAP" => demand[k[1]].vehicle.swap
  /\ \A k \in DOMAIN ranking : k \in DOMAIN candidates /\ candidates[k].reason = "ELIGIBLE"

(* Section 10.                                                             *)
Ranks(ranking, e) == {k \in DOMAIN ranking : k[1] = e}

RankingChecks(ranking) ==
  /\ \A k \in DOMAIN ranking :
       /\ Cardinality(Ranks(ranking, k[1])) <= MaxGroup
       /\ ranking[k].ltr <=> Cardinality(Ranks(ranking, k[1])) >= 2
       /\ ranking[k].cost = CostOf(k[1], k[2], k[3], ranking[k].capacity, ranking[k].wait)
  /\ \A e \in {k[1] : k \in DOMAIN ranking} :
       /\ {ranking[k].rank : k \in Ranks(ranking, e)} = 1..Cardinality(Ranks(ranking, e))
       /\ \A k, l \in Ranks(ranking, e) :
            ranking[k].rank < ranking[l].rank => Leq(ranking[k].cost, ranking[l].cost)

(* As many events are recommended a station as have an eligible one, and   *)
(* the recommended one is among them; where the service is decided, it     *)
(* only has to be listed.                                                  *)
RecommendationChecks(recommendations, candidates, demand) ==
  /\ Cardinality({e \in DOMAIN recommendations : recommendations[e] # None})
       = Cardinality({e \in Listed(candidates) : Eligible(candidates, e) # {}})
  /\ \A e \in DOMAIN recommendations :
       recommendations[e] # None =>
         \E k \in DOMAIN candidates :
           /\ k[1] = e /\ k[2] = recommendations[e]
           /\ IF demand[e].service \in Services THEN k[3] = demand[e].service
              ELSE candidates[k].reason = "ELIGIBLE"

-----------------------------------------------------------------------------
(* Section 16: every state of a station has been broadcast.                *)
EventChecks(events, status, queue) ==
  DOMAIN status \subseteq DOMAIN events.status /\ DOMAIN queue \subseteq DOMAIN events.queue

StateChecks(status, queue) ==
  \A k \in DOMAIN status : CapacityChecks(k[1], status[k]) /\ QueueChecks(status[k], queue[k])

-----------------------------------------------------------------------------
(* Section 17: the assertions on the scenarios that stages 04 to 05b write *)
(* a row for.  The validator takes the event of a row by its identifier,   *)
(* which 06 may have given to another since, and of two candidate rows of  *)
(* a station the first, charging.                                          *)
Example17(r, demand) == CHOOSE e \in DOMAIN demand : EventId(DOMAIN demand, e) = r.event

At17(candidates, e, s) == {k \in DOMAIN candidates : k[1] = e /\ k[2] = s}
FirstIn(matching, rows) ==
  rows # {} /\ \A k \in rows \ matching : k[3] # "CHARGING" /\ rows # {k}

FullFirst(candidates, rows) ==
  FirstIn({k \in rows : candidates[k].reason = "FULL" /\ candidates[k].state.capacity = 0}, rows)
OfflineFirst(candidates, rows) ==
  FirstIn({k \in rows : candidates[k].reason = "OFFLINE" /\ candidates[k].state.status # "OPEN"}, rows)

(* The wait of the service asked for, where none is that of the swap.      *)
LongWait(candidates, rows, service) ==
  LET of(v) == {k \in rows : k[3] = v}
      asked == IF service \in Services \cup {"ANY"} THEN of(service)
               ELSE IF of("BATTERY_SWAP") # {} THEN of("BATTERY_SWAP") ELSE of("CHARGING")
  IN  \E k \in asked : candidates[k].state.wait # None /\ Leq(Whole(30), candidates[k].state.wait)

(* Each of the two stations is ranked once, and eligible for every service.*)
FartherFaster(candidates, ranking, e, near, far) ==
  LET of(s) == {k \in DOMAIN ranking : k[1] = e /\ k[2] = s}
      eta(k) == Eta(e, k[2], k[3], ranking[k].wait)
  IN  /\ Cardinality(of(near)) = 1 /\ Cardinality(of(far)) = 1
      /\ Distance(e, far) - Distance(e, near) >= FartherBy
      /\ \A k \in of(near), l \in of(far) : Leq(Whole(10), Minus(eta(k), eta(l)))
      /\ \A k \in DOMAIN candidates :
           k[1] = e /\ k[2] \in {near, far} => candidates[k].reason = "ELIGIBLE"

TiedFirst(ranking, e) ==
  \E k, l \in {x \in DOMAIN ranking : x[1] = e} :
    ranking[k].rank = 1 /\ ranking[l].rank = 2 /\ Leq(Minus(ranking[l].cost, ranking[k].cost), Whole(3))

(* Two states ten minutes apart, both broadcast, that must differ.         *)
Broadcast(r, rows, events) ==
  {<<r.station, r.time>>, <<r.station, r.time + 1>>} \subseteq DOMAIN rows \cap DOMAIN events
QueueChanged(r, rows, events, service) ==
  /\ service \in Services /\ Broadcast(r, rows, events)
  /\ Far(rows[r.station, r.time].wait[service], rows[r.station, r.time + 1].wait[service])
StatusChanged(r, rows, events) ==
  /\ Broadcast(r, rows, events)
  /\ rows[r.station, r.time].status # rows[r.station, r.time + 1].status

Asserted(name, r, disk) ==
  LET e == Example17(r, disk.demand)
      rows == At17(disk.candidates, e, r.station)
      service == IF disk.demand[e].service \in {"NONE", None} THEN "CHARGING" ELSE disk.demand[e].service
  IN CASE name = "LONG_QUEUE" -> LongWait(disk.candidates, rows, disk.demand[e].service)
       [] name = "NEAREST_FULL" -> FullFirst(disk.candidates, rows)
       [] name = "STATION_OFFLINE" -> OfflineFirst(disk.candidates, rows)
       [] name = "FARTHER_BUT_FASTER" ->
            r.other # None /\ FartherFaster(disk.candidates, disk.ranking, e, r.station, r.other)
       [] name = "NEAR_TIE_STATIONS" -> TiedFirst(disk.ranking, e)
       [] name = "NO_AVAILABLE_STATION" -> Eligible(disk.candidates, e) = {}
       [] name = "QUEUE_REALTIME_CHANGE" ->
            QueueChanged(r, disk.queue.rows, disk.events.queue, service)
       [] OTHER -> StatusChanged(r, disk.status.rows, disk.events.status)

(* validator_status of the scenarios that have an example.                 *)
Upheld(disk) ==
  {name \in DOMAIN disk.scenario.rows :
     disk.scenario.rows[name].passed /\ Asserted(name, disk.scenario.rows[name], disk)}

-----------------------------------------------------------------------------
(* Files the validator opens, and columns without which it stops.  A file  *)
(* that is not there has no rows.                                          *)
Readable(disk) ==
  /\ disk.catalog /\ DOMAIN disk.esr # {} /\ DOMAIN disk.need # {}
  /\ disk.status.split /\ disk.queue.split

(* All sections but that of the scenarios, which cannot count: from 06 on  *)
(* it looks at other events than the scenarios were found at.              *)
Accepted(disk) ==
  /\ Readable(disk)
  /\ DemandChecks(disk.demand) /\ BatteryChecks(disk.battery)
  /\ DOMAIN disk.esr = DOMAIN disk.demand
  /\ \A e \in DOMAIN disk.esr : disk.esr[e].resolved # "no column"
  /\ \A e \in DOMAIN disk.features : disk.features[e].resolved # "no column"
  /\ TrainingChecks(disk.need, disk.demand)
  /\ disk.normalized
  /\ CandidateChecks(disk.candidates, disk.ranking, disk.demand)
  /\ RankingChecks(disk.ranking)
  /\ RecommendationChecks(disk.recommendations, disk.candidates, disk.demand)
  /\ disk.scenario.name = "NEED_ENERGY_BOTH_ALLOWED"
  /\ StateChecks(disk.status.rows, disk.queue.rows)
  /\ EventChecks(disk.events, disk.status.rows, disk.queue.rows)
=============================================================================
