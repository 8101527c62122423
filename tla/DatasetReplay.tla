---------------------------- MODULE DatasetReplay ----------------------------
(***************************************************************************)
(* What is expected of the chain of DatasetBuild, and the two replays of   *)
(* the published labels against the services of the backend:               *)
(* scripts/evaluate_week4.py rebuilds the detected contexts from the trips *)
(* alone, scripts/evaluate_candidate_search.py judges every candidate row  *)
(* again.  Both find rows by event identifier.                             *)
(***************************************************************************)
EXTENDS DatasetBuild

Finished == stage = Done /\ Idle

-----------------------------------------------------------------------------
(* reconstruct_contexts: an event takes four identifiers where the vehicle *)
(* can swap and three where not, its own first.  The reserve it states is  *)
(* the one the detector takes where none is stated.                        *)
Scheduled(a) ==
  LET before == {b \in AutoEvents : Earlier(b, a)}
      swaps == {b \in before : disk.vehicles[Trip[b[1]].vehicle].swap}
  IN  1 + 3 * Cardinality(before) + Cardinality(swaps)

Reconstructed(a) ==
  LET v == Trip[a[1]].vehicle
      remaining == RemainingKm(a[1], a[2])
      soc == disk.battery[a[1], a[2]]
  IN [vehicle |-> Assigned[v], soc |-> soc.soc, range |-> soc.range, energy |-> None,
      trip |-> remaining, reserve |-> None,
      consumption |-> disk.vehicles[v].consumption, minSafe |-> MinimumSafe,
      planned |-> None, travelled |-> None, service |-> None]

(* run_candidate_dataset_replay: the runtime's verdict on one label row.   *)
Replayed(k) ==
  LET row == disk.status.rows[k[2], SnapshotOf(k[1]).time]
      wait == disk.queue.rows[k[2], SnapshotOf(k[1]).time].wait[k[3]]
      op == Operational([status |-> row.status, slots |-> row.free, batteries |-> row.batteries,
                         wait |-> [v \in Services |-> Ceiling(wait)],
                         serviceTime |-> ServiceTime[k[3]]], k[3])
      leg == disk.candidates[k].leg
      compatible == Compatible(Assigned[Trip[k[1][1]].vehicle], [station |-> k[2], service |-> k[3]])
  IN  Eligibility(leg # None, compatible, op, k[3], SocFeasible(leg, disk.demand[k[1]].range))

-----------------------------------------------------------------------------
TypeOK ==
  /\ world \in Worlds /\ stage \in 1..Done /\ stopped \in BOOLEAN
  /\ verdict \in {"none", "PASS", "FAIL"} /\ crashes \in 0..MaxCrashes
  /\ \A i \in DOMAIN pending : pending[i].file \in DOMAIN disk

(* From 05c on, whatever was interrupted and run again, a candidate row    *)
(* says of its station what the tables of its ten minutes say, although    *)
(* the two are computed by different scripts (05c synchronises them,       *)
(* 06 and 07 derive the rows from states they rebuild in memory).          *)
CandidatesMirrorState ==
  Idle /\ stage > 5 =>
    \A k \in DOMAIN disk.candidates :
      k[3] = "NONE" \/ disk.candidates[k].state
                         = Observed(disk.status.rows, disk.queue.rows, k[2], SnapshotOf(k[1]).time, k[3])

(* When the last script has ended the validator finds nothing wrong in the *)
(* sections that count here, with any number of interruptions before.      *)
FinalAccepted == Finished => Accepted(disk)

(* The validator passes no mixture of old and new files: what it passed is *)
(* what an uninterrupted chain leaves behind.                              *)
AcceptedMeansFinal ==
  verdict = "PASS" =>
    \E final \in {LeftBy07(world)} : disk = [final EXCEPT !.checked = Upheld(final)]

(* The published labels say what the services would have said: contexts    *)
(* rebuilt from the trips find their rows, the detected need and its       *)
(* service are those of the detector, and every candidate row is judged    *)
(* as the runtime judges it.                                               *)
LabelsMatchBackend ==
  Finished =>
    /\ \A a \in AutoEvents :
         LET request == EnergyRequest(Reconstructed(a))
         IN  /\ EventId(DOMAIN disk.demand, a) = Scheduled(a)
             /\ request.need = disk.demand[a].need
             /\ request.resolved = disk.demand[a].resolved
    /\ \A k \in DOMAIN disk.candidates : Replayed(k) = disk.candidates[k].reason

(* What a trip was staged for still holds when the last script has ended,  *)
(* although 05 split the state by service, staged single rows once more    *)
(* and lengthened a queue, and although nothing looks at it again: for the *)
(* service the trip was staged for there is the long queue, the change of  *)
(* the queue, the way over the farther station that saves ten minutes; the *)
(* station is full, closed, or closes; and every change is broadcast       *)
(* ("so scenario labels are not decorative", 04).  And before 06 numbers   *)
(* the events anew, every assertion of the validator on a scenario holds.  *)
Service04(t) == IF OldVehicles[Trip[t].vehicle].swap THEN "BATTERY_SWAP" ELSE "CHARGING"

Stands(name, r) ==
  LET v == Service04(r.trip)
      row == disk.status.rows[r.station, r.time]
      wait(s, time) == disk.queue.rows[s, time].wait[v]
      seen(rows) == {<<r.station, r.time>>, <<r.station, r.time + 1>>} \subseteq DOMAIN rows
  IN CASE name = "LONG_QUEUE" -> Leq(Whole(30), wait(r.station, r.time))
       [] name = "QUEUE_REALTIME_CHANGE" ->
            seen(disk.events.queue) /\ Far(wait(r.station, r.time), wait(r.station, r.time + 1))
       [] name = "STATION_STATUS_CHANGE" ->
            seen(disk.events.status) /\ row.status # disk.status.rows[r.station, r.time + 1].status
       [] name = "STATION_OFFLINE" -> row.status # "OPEN"
       [] name = "NEAREST_FULL" -> \A w \in Services : row.free[w] = 0
       [] name = "FARTHER_BUT_FASTER" ->
            r.other # None =>
              \E e \in AutoEvents :
                /\ e[1] = r.trip /\ SnapshotOf(e).time = r.time
                /\ Leq(Whole(10), Minus(Eta(e, r.station, v, wait(r.station, r.time)),
                                        Eta(e, r.other, v, wait(r.other, r.time))))
       [] OTHER -> TRUE

ScenariosStand ==
  \A name \in DOMAIN disk.scenario.rows :
    disk.scenario.rows[name].passed =>
      /\ Finished => Stands(name, disk.scenario.rows[name])
      /\ Idle /\ stage = 6 /\ ~disk.catalog => Asserted(name, disk.scenario.rows[name], disk)

(* The example of a scenario is an event of its example trip: "event IDs   *)
(* updated" (dataset_v1/VERSION.md).                                       *)
EvidenceOfTrip ==
  Finished =>
    \A r \in {x \in DOMAIN disk.scenario.rows : disk.scenario.rows[x].passed} :
      \E e \in DOMAIN disk.demand :
        /\ e[1] = disk.scenario.rows[r].trip
        /\ EventId(DOMAIN disk.demand, e) = disk.scenario.rows[r].event
=============================================================================
