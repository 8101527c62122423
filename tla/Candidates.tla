----------------------------- MODULE Candidates -----------------------------
(***************************************************************************)
(* Candidate search (services/candidate): the services a request may be    *)
(* served by, the legs of the journey over a station                       *)
(* (routing/multi_leg.py), the verdict on every station and service in     *)
(* its fixed order of reasons, and the energy at departure.                *)
(*                                                                         *)
(* A network says what the routing engine answers for two places: a leg    *)
(* [distance, duration], or None when there is no way between them.        *)
(***************************************************************************)
EXTENDS Energy

CONSTANTS
  Stations, Site,        \* the station catalog
  Interface, Family,     \* plug and removable battery of a model
  MaxWait                \* CANDIDATE_MAX_WAIT_MIN, in seconds

Leg == [distance : Nat, duration : Nat]
Row == [status : STRING, slots : [Services -> Nat], batteries : Nat,
        wait : [Services -> Nat \cup {None}], serviceTime : Nat]

EligibilityReasons ==
  {"ELIGIBLE", "INCOMPATIBLE", "OFFLINE", "NO_SWAP_BATTERY", "FULL", "EXCESSIVE_QUEUE", "UNREACHABLE",
   "INSUFFICIENT_SOC_TO_REACH", "REPLENISHMENT_UNAVAILABLE", "INSUFFICIENT_DEPARTURE_ENERGY"}

StationOperationalSnapshot ==
  [status : STRING, slots : Nat, batteries : Nat, capacity : Nat,
   wait : Nat \cup {None}, serviceTime : Nat]

CandidateRouteMetrics ==
  [reachable : {TRUE}, distance : Nat, duration : Nat, onward : Leg \cup {None},
   detourDistance : Nat \cup {None}, detourDuration : Nat \cup {None}]

EvaluatedCandidate ==
  [eligible : BOOLEAN, reason : EligibilityReasons,
   metrics : CandidateRouteMetrics \cup [reachable : {FALSE}],
   op : StationOperationalSnapshot, estimate : ReplenishmentEstimate \cup {None}]

Places == Stations \cup {"origin", "destination"}
Pairs == [station : Stations, service : Services]

ASSUME SiteAssumption ==
  /\ IsFiniteSet(Stations)
  /\ {"origin", "destination"} \cap Stations = {} /\ None \notin Stations
  /\ \A s \in Stations : /\ Site[s].vehicles \subseteq {"EV_CAR", "EV_MOTORBIKE"}
                         /\ Site[s].slots \in [Services -> Nat]

-----------------------------------------------------------------------------
(* determine_evaluable_services: an undecided request evaluates whatever   *)
(* the vehicle can take, expand_candidate_pairs drops the rest.            *)
Evaluable(request) ==
  LET allowed == Allowed(Catalog[request.vehicle.model])
  IN  IF request.resolved # None THEN {request.resolved}
      ELSE IF request.source = "AUTO_DETECTED" THEN (IF request.need THEN allowed ELSE {})
      ELSE IF request.requested = "ANY" THEN allowed
      ELSE {request.requested}

Expanded(request) ==
  {c \in Pairs : c.service \in Evaluable(request) \cap Allowed(Catalog[request.vehicle.model])}

(* check_station_service_compatibility.                                    *)
Compatible(vehicle, c) ==
  LET site == Site[c.station]
  IN  /\ c.service \in Allowed(Catalog[vehicle.model])
      /\ site.slots[c.service] > 0
      /\ Catalog[vehicle.model].category \in site.vehicles
      /\ Interface[vehicle.model] \in site.connectors
      /\ c.service = "BATTERY_SWAP" => Family[vehicle.model] \in site.families

(* operational_snapshot: a swap needs a free bay and a charged battery.    *)
Operational(row, service) ==
  LET free == row.slots[service]
  IN [status |-> row.status,
      slots |-> free,
      batteries |-> IF service = "BATTERY_SWAP" THEN row.batteries ELSE 0,
      capacity |-> IF service = "BATTERY_SWAP" /\ row.batteries < free THEN row.batteries ELSE free,
      wait |-> row.wait[service],
      serviceTime |-> row.serviceTime]

-----------------------------------------------------------------------------
(* compute_station_metrics.  Without a way onward the station remains      *)
(* reachable; without a direct route there is no detour to compare.        *)
NoMetrics == [reachable |-> FALSE]

Detour(via, direct) == IF via > direct THEN via - direct ELSE 0

Metrics(network, from, station, to) ==
  LET leg1 == network[<<from, station>>]
      leg2 == IF to = None THEN None ELSE network[<<station, to>>]
      direct == IF to = None THEN None ELSE network[<<from, to>>]
      compared == leg2 # None /\ direct # None
  IN  IF leg1 = None THEN NoMetrics
      ELSE [reachable |-> TRUE,
            distance |-> leg1.distance, duration |-> leg1.duration,
            onward |-> leg2,
            detourDistance |-> IF compared
                               THEN Detour(leg1.distance + leg2.distance, direct.distance) ELSE None,
            detourDuration |-> IF compared
                               THEN Detour(leg1.duration + leg2.duration, direct.duration) ELSE None]

-----------------------------------------------------------------------------
(* evaluate_candidate_eligibility: the first reason that applies.          *)
Eligibility(reachable, compatible, op, service, feasible) ==
  IF ~reachable THEN "UNREACHABLE"
  ELSE IF ~compatible THEN "INCOMPATIBLE"
  ELSE IF op.status # "OPEN" THEN "OFFLINE"
  ELSE IF service = "BATTERY_SWAP" /\ op.slots > 0 /\ op.batteries = 0 THEN "NO_SWAP_BATTERY"
  ELSE IF op.capacity = 0 THEN "FULL"
  ELSE IF op.wait # None /\ op.wait > MaxWait THEN "EXCESSIVE_QUEUE"
  ELSE IF ~feasible THEN "INSUFFICIENT_SOC_TO_REACH"
  ELSE "ELIGIBLE"

Outcome(estimate) ==
  CASE estimate.status = "AVAILABLE"  -> "ELIGIBLE"
    [] estimate.status = "INFEASIBLE" -> "INSUFFICIENT_DEPARTURE_ENERGY"
    [] OTHER                          -> "REPLENISHMENT_UNAVAILABLE"

Verdict(reason, metrics, op, estimate) ==
  [eligible |-> reason = "ELIGIBLE", reason |-> reason, metrics |-> metrics,
   op |-> op, estimate |-> estimate]

Estimated(metrics, op, estimate) == Verdict(Outcome(estimate), metrics, op, estimate)

(* The evaluation of one pair by search_candidates: when everything else   *)
(* is in order, a destination must be reachable from the station, and an   *)
(* estimate of the battery decides.                                        *)
Evaluated(request, c, to, metrics, op) ==
  LET feasible == metrics.reachable /\ FeasibleTo(metrics.distance, request)
      reason == Eligibility(metrics.reachable, Compatible(request.vehicle, c), op, c.service, feasible)
      onward == IF to = None THEN None ELSE metrics.onward.distance
  IN  IF reason # "ELIGIBLE" THEN Verdict(reason, metrics, op, None)
      ELSE IF to # None /\ metrics.onward = None THEN Verdict("UNREACHABLE", metrics, op, None)
      ELSE Estimated(metrics, op,
                     Estimate(request, c.service, metrics.distance, onward, op.serviceTime))

Evaluate(request, c, network, from, to, row) ==
  Evaluated(request, c, to, Metrics(network, from, c.station, to), Operational(row, c.service))

(* search_candidates over the whole catalog, with its short circuits.      *)
SearchStatus(request) ==
  IF ~request.valid THEN "INVALID_REQUEST"
  ELSE IF request.source = "AUTO_DETECTED" /\ ~request.need THEN "NO_SERVICE_NEEDED"
  ELSE "SUCCESS"

Candidates(request, network, from, to, rows) ==
  [c \in (IF SearchStatus(request) = "SUCCESS" THEN Expanded(request) ELSE {}) |->
     Evaluate(request, c, network, from, to, rows[c.station])]

EligiblePairs(candidates) == {c \in DOMAIN candidates : candidates[c].eligible}
=============================================================================
