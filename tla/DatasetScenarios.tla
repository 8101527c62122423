-------------------------- MODULE DatasetScenarios --------------------------
(***************************************************************************)
(* The scenarios of the dataset: every trip plays one, and stage 04 makes  *)
(* it come true by staging the state of stations at the moment that stands *)
(* for the trip; stage 04b looks over all events of a scenario for one     *)
(* that shows it; stage 05, which splits the state by service, stages once *)
(* more what the split could lose.  Stagings are applied one after the     *)
(* other: a later one may undo an earlier.                                 *)
(***************************************************************************)
EXTENDS DatasetLabels, SequencesExt

CONSTANTS
  StagedSoc,             \* FORCE_SERVICE_SCENARIOS and the charge 04 gives them
  Middle,                \* the snapshot that stands for a trip if it can
  FartherBy              \* FARTHER_MIN_DISTANCE_DELTA_M

ASSUME StagedAssumption == StagedSoc \in [DOMAIN StagedSoc -> 0..100]

Sorted(S, before(_, _)) ==
  [i \in 1..Cardinality(S) |-> CHOOSE x \in S : Cardinality({y \in S : before(y, x)}) = i - 1]

TripsInOrder(trips) == Sorted(trips, LAMBDA t, u : TripNumber[t] < TripNumber[u])

Distance(e, s) == SnapshotOf(e).network["origin", s].distance

InOrder(e, stations) ==
  Sorted(stations, LAMBDA s, z : \/ Distance(e, s) < Distance(e, z)
                                 \/ Distance(e, s) = Distance(e, z) /\ StationNumber[s] < StationNumber[z])

-----------------------------------------------------------------------------
(* Stage 04: trips of a scenario that needs a service start nearly empty;  *)
(* a need is detected at every snapshot.                                   *)
Battery04(vehicles, old) ==
  [k \in DOMAIN old |->
     IF Trip[k[1]].scenario \in DOMAIN StagedSoc
     THEN Discharged(k[1], k[2], vehicles, StagedSoc[Trip[k[1]].scenario]) ELSE old[k]]

(* A vehicle of version 1.1 that can swap has a battery to swap: the second *)
(* thing 04 asks for before it forces a swap changes nothing.              *)
Demand04(vehicles, battery) == [a \in AutoEvents |-> AutoRow06(a, vehicles, battery)]

(* The event of a trip nearest to its middle, one in need if there is any. *)
Central(events) ==
  LET off(e) == IF e[2] < Middle THEN Middle - e[2] ELSE e[2] - Middle
  IN  CHOOSE e \in events : \A f \in events : off(e) < off(f) \/ (off(e) = off(f) /\ e[2] <= f[2])

NeedOf(demand, t) == {e \in AutoEvents : e[1] = t /\ demand[e].need}

Representative(demand, t) ==
  Central(IF NeedOf(demand, t) # {} THEN NeedOf(demand, t) ELSE {e \in AutoEvents : e[1] = t})

Reachable(demand, e) ==
  {s \in Stations : /\ demand[e].need
                    /\ Compatible05(demand[e].vehicle, s, demand[e].service)
                    /\ SnapshotOf(e).network["origin", s] # None}

(* Two stations of a list, the earlier first, that differ least.           *)
Least(differ) ==
  LET before(p, q) == \/ differ[p] < differ[q]
                      \/ differ[p] = differ[q] /\ (p[1] < q[1] \/ (p[1] = q[1] /\ p[2] <= q[2]))
  IN  CHOOSE p \in DOMAIN differ : \A q \in DOMAIN differ : before(p, q)

PairsIn(near) == {p \in (DOMAIN near) \X (DOMAIN near) : p[1] < p[2]}

CloseBy(e, near) ==
  LET gap(p) == Distance(e, near[p[2]]) - Distance(e, near[p[1]])
  IN  [p \in {q \in PairsIn(near) : gap(q) > 0} |-> gap(p)]

SameTime(e, near) ==
  LET way(s) == SnapshotOf(e).network["origin", s].duration
                + SnapshotOf(e).network[s, "destination"].duration
      apart(p) == Most2(way(near[p[1]]) - way(near[p[2]]), way(near[p[2]]) - way(near[p[1]]))
  IN  [p \in {q \in PairsIn(near) : \A i \in {1, 2} : Complete(e, near[q[i]])} |-> apart(p)]

(* A staging turns one row of one station into an open, full, offline or   *)
(* crowded one.                                                            *)
Turn(to, s, time) == [station |-> s, time |-> time, to |-> to, available |-> 1, wait |-> 45]
Open(s, time, available, wait) ==
  [station |-> s, time |-> time, to |-> "OPEN", available |-> available, wait |-> wait]

Become(row, p) ==
  CASE p.to = "OPEN"    -> Opened(p.station, row, p.available, p.wait)
    [] p.to = "FULL"    -> Filled(p.station, row)
    [] p.to = "OFFLINE" -> Offline(row)
    [] OTHER -> [Queued(p.station, row, p.available, p.wait)
                   EXCEPT !.batteries = Restocked(p.station, @)]

(* Only the nearest eight, or ten, are considered.                         *)
First(near, n) == SubSeq(near, 1, Least2(n, Len(near)))

OpenBoth(near, differ, available, wait, time) ==
  IF DOMAIN differ = {} THEN <<>>
  ELSE LET p == Least(differ)
       IN <<Open(near[p[1]], time, available, wait), Open(near[p[2]], time, available, 0)>>

(* near: the stations the event could go to, the nearest first.            *)
Scene(scenario, e, near, time) ==
  IF near = <<>> THEN <<>> ELSE
  CASE scenario = "NEAREST_FULL"    -> <<Turn("FULL", near[1], time)>>
    [] scenario = "STATION_OFFLINE" -> <<Turn("OFFLINE", near[1], time)>>
    [] scenario = "LONG_QUEUE"      -> <<Turn("CROWDED", near[1], time)>>
    [] scenario = "FARTHER_BUT_FASTER" -> OpenBoth(near, CloseBy(e, First(near, 8)), 1, 60, time)
    [] scenario = "NEAR_TIE_STATIONS"  -> OpenBoth(near, SameTime(e, First(near, 10)), 2, 0, time)
    [] scenario = "NO_AVAILABLE_STATION" ->
         [i \in DOMAIN near |-> Turn(IF i % 2 = 1 THEN "OFFLINE" ELSE "FULL", near[i], time)]
    [] scenario = "QUEUE_REALTIME_CHANGE" ->
         <<Open(near[1], time, 2, 0), Turn("CROWDED", near[1], time + 1)>>
    [] scenario = "STATION_STATUS_CHANGE" ->
         <<Open(near[1], time, 2, 0), Turn("OFFLINE", near[1], time + 1)>>
    [] OTHER -> <<>>

Stagings(demand) ==
  LET scene(t, e) == Scene(Trip[t].scenario, e, InOrder(e, Reachable(demand, e)), SnapshotOf(e).time)
      trips == TripsInOrder(Trips)
  IN  FlattenSeq([i \in DOMAIN trips |-> scene(trips[i], Representative(demand, trips[i]))])

StagedOnce(rows, p) ==
  IF <<p.station, p.time>> \in DOMAIN rows
  THEN [rows EXCEPT ![<<p.station, p.time>>] = Become(@, p)] ELSE rows

(* One after the other; after[i] is what the first i leave.                *)
Staged04(rows, stagings) ==
  LET after[i \in 0..Len(stagings)] ==
        IF i = 0 THEN rows ELSE StagedOnce(after[i - 1], stagings[i])
  IN  after[Len(stagings)]

-----------------------------------------------------------------------------
(* The labels of 04 know no services: candidates carry the state of the    *)
(* whole station, and the ranking is of the nearest compatible stations,   *)
(* usable or not, where a penalty keeps those that are not at the end.     *)
GenericWait(s, row) ==
  IF row.queue > 0 THEN Q(row.queue * GenericTime(s), row.occupied) ELSE Zero

ObservedWhole(rows, s, time, service) ==
  IF <<s, time>> \notin DOMAIN rows THEN Unknown
  ELSE LET row == rows[s, time]
           free == IF row.status = "OPEN" THEN Total(s) - row.occupied ELSE 0
       IN [status |-> row.status, slots |-> free, batteries |-> row.batteries,
           capacity |-> IF service = "BATTERY_SWAP" THEN Least2(free, row.batteries) ELSE free,
           length |-> row.queue, wait |-> GenericWait(s, row)]

CandidateRow04(row, e, s, rows) ==
  LET o == ObservedWhole(rows, s, SnapshotOf(e).time, row.service)
      leg == SnapshotOf(e).network["origin", s]
  IN [reason |-> IF ~row.need THEN "NO_SERVICE_NEEDED"
                 ELSE Reason("05", leg, Compatible05(row.vehicle, s, row.service), o,
                             row.service, row.range),
      leg |-> leg, state |-> o]

CandidateTable04(demand, rows) ==
  [k \in {<<e, s, demand[e].service>> : e \in DOMAIN demand, s \in Stations} |->
     CandidateRow04(demand[k[1]], k[1], k[2], rows)]

Penalty(row) ==
  (IF row.state.status # "OPEN" THEN 10000 ELSE 0) + (IF row.state.capacity <= 0 THEN 5000 ELSE 0)

Pool04(demand, e) ==
  LET near == InOrder(e, {s \in Reachable(demand, e) : Complete(e, s)})
  IN  IF Len(near) < 2 THEN {} ELSE {near[i] : i \in 1..Least2(MaxGroup, Len(near))}

RankingTable04(demand, candidates) ==
  LET cost(k) == Plus(CostAt(k[1], k[2], GenericTime(k[2]), candidates[k].state.capacity,
                             candidates[k].state.wait),
                      Whole(Penalty(candidates[k])
                            + IF SocFeasible(candidates[k].leg, demand[k[1]].range) THEN 0 ELSE 5000))
  IN  RankingRows(candidates,
        Ranked([k \in {x \in DOMAIN candidates : x[2] \in Pool04(demand, x[1])} |-> cost(k)]))

(* The best that is eligible, if any.                                      *)
Recommended04(candidates, ranking) ==
  LET able(e) == {k \in DOMAIN ranking : k[1] = e /\ candidates[k].reason = "ELIGIBLE"}
      best(e) == CHOOSE k \in able(e) : \A l \in able(e) : ranking[k].rank <= ranking[l].rank
  IN  [e \in {k[1] : k \in DOMAIN ranking} |-> IF able(e) = {} THEN None ELSE best(e)[2]]

-----------------------------------------------------------------------------
(* Stage 04b: the stations with which an event shows its scenario.         *)
Nearest04(candidates, keys) ==
  {k[2] : k \in {x \in keys : \A y \in keys : y = x \/ Nearer(candidates, x, y)}}

Placed(candidates, e) ==
  {k \in DOMAIN candidates :
     k[1] = e /\ candidates[k].reason \notin {"INCOMPATIBLE", "UNREACHABLE", "NO_SERVICE_NEEDED"}}

EtaWhole(ranking, k) ==
  Plus(OnTheRoad(k[1], k[2]), Plus(Whole(GenericTime(k[2])), ranking[k].wait))

Far(a, b) == Leq(Whole(20), Minus(a, b)) \/ Leq(Whole(20), Minus(b, a))

Showing(scenario, e, candidates, ranking, rows) ==
  LET own == {k \in DOMAIN candidates : k[1] = e}
      ranked == {k \in DOMAIN ranking : k[1] = e}
      time == SnapshotOf(e).time
      waited(k) == IF candidates[k].state.wait = None THEN Zero ELSE candidates[k].state.wait
      slower == {x \in ranked : \E y \in ranked : /\ Distance(e, x[2]) < Distance(e, y[2])
                                                  /\ Less(EtaWhole(ranking, y), EtaWhole(ranking, x))}
      changing == {s \in Stations : {<<s, time>>, <<s, time + 1>>} \subseteq DOMAIN rows}
  IN CASE scenario = "NEAREST_FULL" ->
            {s \in Nearest04(candidates, Placed(candidates, e)) :
               \E k \in own : k[2] = s /\ candidates[k].reason = "FULL"}
       [] scenario = "STATION_OFFLINE" ->
            Nearest04(candidates, {k \in own : candidates[k].reason = "OFFLINE"})
       [] scenario = "LONG_QUEUE" ->
            {k[2] : k \in {x \in own : /\ Leq(Whole(30), waited(x))
                                       /\ \A y \in own : Leq(waited(y), waited(x))}}
       [] scenario = "FARTHER_BUT_FASTER" ->
            {k[2] : k \in {x \in slower : \A y \in slower : ranking[x].rank <= ranking[y].rank}}
       [] scenario = "QUEUE_REALTIME_CHANGE" ->
            {s \in changing : Far(GenericWait(s, rows[s, time]), GenericWait(s, rows[s, time + 1]))}
       [] scenario = "STATION_STATUS_CHANGE" ->
            {s \in changing : rows[s, time].status # rows[s, time + 1].status}
       [] scenario = "NEAR_TIE_STATIONS" ->
            {k[2] : k \in {x \in ranked : /\ ranking[x].rank = 1
                                         /\ \E y \in ranked : ranking[y].rank = 2
                                              /\ Leq(Minus(ranking[y].cost, ranking[x].cost), Whole(3))}}
       [] OTHER -> IF Eligible(candidates, e) = {} THEN {None} ELSE {}

Shown == {"NEAREST_FULL", "STATION_OFFLINE", "LONG_QUEUE", "FARTHER_BUT_FASTER",
          "QUEUE_REALTIME_CHANGE", "STATION_STATUS_CHANGE", "NEAR_TIE_STATIONS",
          "NO_AVAILABLE_STATION"}

(* The row of a scenario: the first event that shows it, with the first of *)
(* its stations.  The second station that some name is left out: a later   *)
(* stage reads none.                                                       *)
Example(first, stations) ==
  [passed |-> TRUE, trip |-> first[1], event |-> EventId(AutoEvents, first),
   station |-> CHOOSE s \in stations :
                 \A z \in stations : s = z \/ StationNumber[s] < StationNumber[z],
   other |-> None, time |-> SnapshotOf(first).time]

FirstOf(events) == CHOOSE e \in events : \A f \in events : e = f \/ Earlier(e, f)

ExampleOf(stations) ==
  LET showing == {e \in DOMAIN stations : stations[e] # {}}
  IN IF showing = {} THEN [passed |-> FALSE, trip |-> None, event |-> 0, station |-> None,
                           other |-> None, time |-> 0]
     ELSE LET first == FirstOf(showing) IN Example(first, stations[first])

Evidence(scenario, candidates, ranking, rows) ==
  ExampleOf([e \in {a \in AutoEvents : Trip[a[1]].scenario = scenario} |->
               Showing(scenario, e, candidates, ranking, rows)])

-----------------------------------------------------------------------------
(* Stage 05: stagings of one service of one row.  What is not charging is  *)
(* swap, no service at all included.                                       *)
Serve(s, time, service, available, wait) ==
  [station |-> s, time |-> time, available |-> available, wait |-> wait,
   service |-> IF service = "CHARGING" THEN service ELSE "BATTERY_SWAP"]

Serving(tables, p) ==
  LET k == <<p.station, p.time>>
  IN  IF k \notin DOMAIN tables.status THEN tables
      ELSE [status |-> [tables.status EXCEPT
              ![k] = SetStatus(p.station, @, p.service, p.available, p.wait)],
            queue |-> [tables.queue EXCEPT
              ![k] = SetQueue(p.station, @, p.service, p.available, p.wait)]]

Served(tables, servings) ==
  LET after[i \in 0..Len(servings)] ==
        IF i = 0 THEN tables ELSE Serving(after[i - 1], servings[i])
  IN  after[Len(servings)]

EventOf(number) == CHOOSE e \in AutoEvents : EventId(AutoEvents, e) = number

MutatedPreserved(scenarios, demand) == <<>>

Preserved(scenarios, demand) ==
  LET shown(name) == name \in DOMAIN scenarios /\ scenarios[name].passed
      put(r, time, available, wait) ==
        Serve(r.station, time, demand[EventOf(r.event)].service, available, wait)
      long == scenarios["LONG_QUEUE"]
      change == scenarios["QUEUE_REALTIME_CHANGE"]
  IN  (IF shown("LONG_QUEUE") THEN <<put(long, long.time, 1, Whole(45))>> ELSE <<>>)
      \o (IF shown("QUEUE_REALTIME_CHANGE")
          THEN <<put(change, change.time, 2, Zero), put(change, change.time + 1, 1, Whole(45))>>
          ELSE <<>>)

(* The way over a nearer station is made to last at least ten minutes      *)
(* longer than that over a farther one: the least wait that does it.       *)
Eta(e, s, service, wait) == Plus(OnTheRoad(e, s), Plus(Whole(ServiceTime[service]), wait))

WaitFor(e, service, p) ==
  Greater(Whole(20), Plus(Minus(Eta(e, p[2], service, Zero), Eta(e, p[1], service, Zero)), Whole(12)))

(* [<<near, far>> |-> wait], of pairs where the wait need not be too long. *)
FartherPool(e, row) ==
  {s \in Stations : /\ Compatible05(row.vehicle, s, row.service)
                    /\ SocFeasible(SnapshotOf(e).network["origin", s], row.range)
                    /\ Complete(e, s)}

FartherPairs(e, service, pool) ==
  {p \in pool \X pool : /\ Slots(p[1])[service] >= 2
                        /\ Distance(e, p[2]) - Distance(e, p[1]) >= FartherBy}

Short(waits) == [p \in {q \in DOMAIN waits : Leq(waits[q], Whole(80))} |-> waits[p]]

FartherWaits(e, row) ==
  Short([p \in FartherPairs(e, row.service, FartherPool(e, row)) |-> WaitFor(e, row.service, p)])

FartherPair(e, waits) ==
  LET delta(p) == Distance(e, p[2]) - Distance(e, p[1])
  IN  CHOOSE p \in DOMAIN waits : \A q \in DOMAIN waits :
        Less(waits[p], waits[q]) \/ (waits[p] = waits[q] /\ delta(p) <= delta(q))

(* [event, service, near, far, wait] of the trips for which there is one.  *)
SlowWay(e, service, pair, wait) ==
  <<[event |-> e, service |-> service, near |-> pair[1], far |-> pair[2], wait |-> wait]>>

FartherOf(e, service, waits) ==
  IF DOMAIN waits = {} THEN <<>>
  ELSE LET pair == FartherPair(e, waits) IN SlowWay(e, service, pair, waits[pair])

FartherAt(e, row) == FartherOf(e, row.service, FartherWaits(e, row))

FartherIn(demand, events) ==
  IF events = {} THEN <<>> ELSE LET e == Central(events) IN FartherAt(e, demand[e])

Farther(demand) ==
  LET trips == TripsInOrder({t \in Trips : Trip[t].scenario = "FARTHER_BUT_FASTER"})
  IN  FlattenSeq([i \in DOMAIN trips |-> FartherIn(demand, NeedOf(demand, trips[i]))])

Slowed(farther) ==
  LET stage(f) == <<Serve(f.near, SnapshotOf(f.event).time, f.service, 1, f.wait),
                    Serve(f.far, SnapshotOf(f.event).time, f.service, 2, Zero)>>
  IN  FlattenSeq([i \in DOMAIN farther |-> stage(farther[i])])

(* The row of the scenario, from the first trip whose ranking shows it.    *)
MeaningfullyFaster(ranking, f) ==
  LET near == <<f.event, f.near, f.service>>
      far == <<f.event, f.far, f.service>>
      eta(k) == Eta(k[1], k[2], k[3], ranking[k].wait)
  IN  {near, far} \subseteq DOMAIN ranking /\ Leq(Whole(10), Minus(eta(near), eta(far)))

FartherExample(f) ==
  [passed |-> TRUE, trip |-> f.event[1], event |-> EventId(AutoEvents, f.event),
   station |-> f.near, other |-> f.far, time |-> SnapshotOf(f.event).time]

FartherRow(scenarios, ranking, farther) ==
  LET shown == SelectSeq(farther, LAMBDA f : MeaningfullyFaster(ranking, f))
  IN  IF shown = <<>> THEN scenarios
      ELSE [scenarios EXCEPT !["FARTHER_BUT_FASTER"] = FartherExample(Head(shown))]
=============================================================================
