------------------------------- MODULE Energy -------------------------------
(***************************************************************************)
(* What the backend believes about the energy of a vehicle: the capability *)
(* of its model (services/demand/capability.py), the detection of a need   *)
(* (demand/auto_detector.py), the driver's own request                     *)
(* (demand/driver_requester.py, demand/service.py), whether a station can  *)
(* be reached (candidate/energy_feasibility.py) and what is in the battery *)
(* after it (energy/replenishment.py).                                     *)
(*                                                                         *)
(* There are no variables.  A distance is counted in the unit to which the *)
(* code rounds it (a metre; Km of them in a kilometre), an energy in       *)
(* watt-hours, which is what it rounds energies to, and estimates are      *)
(* exact fractions: the floating-point error of the code, some 1E-15 of a  *)
(* value, is left out, its rounding of answers to three decimals is not.   *)
(***************************************************************************)
EXTENDS Fractions, FiniteSets

CONSTANTS
  None,                  \* a value the request does not give
  Models, Catalog,       \* CANONICAL_MODEL_CATALOG
  Km,                    \* rounding units in a kilometre (1000 in the code)
  NoDestinationPct,      \* charge_no_destination_soc_pct
  SwapPct,               \* swap_departure_soc_pct
  Power,                 \* watt-hours charged in a second, by model
  TaperDivisor,          \* 1 / charge_taper_power_factor
  Setup                  \* charge_setup_s

Services == {"CHARGING", "BATTERY_SWAP"}

(* A capability: capacities in watt-hours, a module of removable batteries *)
(* or None, and the watt-hours the model consumes in a kilometre.  What is *)
(* usable of a module is a whole number of watt-hours (1380 in the catalog)*)
Capability == [category : {"EV_CAR", "EV_MOTORBIKE"}, battery : Nat \ {0}, usable : Nat \ {0},
               module : (Nat \ {0}) \cup {None}, modules : Nat, swap : BOOLEAN, consumption : Nat \ {0}]

ASSUME CatalogAssumption ==
  /\ Catalog \in [Models -> Capability]
  /\ \A x \in Models :
       /\ Catalog[x].usable <= Catalog[x].battery
       /\ Catalog[x].module # None => (Catalog[x].module * Catalog[x].usable) % Catalog[x].battery = 0
  /\ None \notin Int /\ None \notin Fraction /\ None \notin Services \cup {"ANY"}

ASSUME PolicyAssumption ==
  /\ Km \in Nat \ {0} /\ NoDestinationPct \in 1..100 /\ SwapPct \in 1..100
  /\ Power \in [Models -> Nat \ {0}]
  /\ TaperDivisor \in Nat \ {0} /\ Setup \in Nat

(* What a vehicle may report: the bounds are those of the request models   *)
(* (api/v1/ranking.py RecommendationTelemetry).                            *)
Vehicle == [model : Models, installed : Nat \cup {None}]
Context == [vehicle : Vehicle, soc : 0..100 \cup {None}, energy : Nat \cup {None},
            range : Nat \cup {None}, trip : Nat \cup {None}, planned : Nat \cup {None},
            travelled : Nat \cup {None}, reserve : Nat \cup {None},
            consumption : (Nat \ {0}) \cup {None}, minSafe : 0..100 \cup {None},
            service : Services \cup {"ANY", None}]

Given(value, default) == IF value # None THEN Whole(value) ELSE default

Value == Fraction \cup {None}

(* The contracts of demand/models.py.                                      *)
Sources == {"AUTO_DETECTED", "DRIVER_REQUEST"}
ReasonCode ==
  {"SUFFICIENT_SOC_RANGE", "LOW_SOC", "LOW_SOC_AND_INSUFFICIENT_RANGE",
            "INSUFFICIENT_POST_DESTINATION_RESERVE", "DESTINATION_NOT_REACHABLE",
            "VALID_REQUEST", "UNSUPPORTED_SERVICE", "MISSING_DATA", "INVALID_STATE"}

NeedServiceDecision ==
  [need : BOOLEAN, reason : ReasonCode, warning : {"SAFE", "ADVISORY", "CRITICAL", "UNAVAILABLE"},
   reserve : Value, trip : Value, energy : Value, range : Value]

EnergyServiceRequest ==
  [source : Sources, vehicle : Vehicle, need : BOOLEAN, requested : Services \cup {"ANY", None},
   resolved : Services \cup {None}, valid : BOOLEAN, reason : ReasonCode, soc : Value,
   energy : Value, range : Value, trip : Value, reserve : Value, explicitRange : BOOLEAN,
   consumption : Fraction, usable : Fraction]

-----------------------------------------------------------------------------
(* Capability of a vehicle [model, installed].  Every model can be charged.*)
(* The record of a fleet vehicle states its modules as a decimal: here in  *)
(* halves of a module.                                                     *)

Allowed(c) == {"CHARGING"} \cup (IF c.swap THEN {"BATTERY_SWAP"} ELSE {})

Modular(c, count, used) == Q(c.module * count * c.usable, c.battery * used)

(* _resolve_vehicle_capability: installed modules count if they are a      *)
(* whole number the model takes; otherwise the catalog's capacity stands.  *)
UsableCapacity(vehicle) ==
  LET c == Catalog[vehicle.model]
  IN  IF /\ c.module # None /\ vehicle.installed # None
         /\ vehicle.installed % 2 = 0 /\ vehicle.installed \div 2 \in 1..c.modules
      THEN Modular(c, vehicle.installed, 2)
      ELSE Whole(c.usable)

(* int(float(installed)): what the request says of it.                     *)
InstalledModules(vehicle) ==
  IF vehicle.installed = None THEN None ELSE vehicle.installed \div 2

-----------------------------------------------------------------------------
(* Detection of a need (AutoDemandDetector.evaluate_need).                 *)

(* SafetyReservePolicy: a kilometre, or 15 % of the trip if that is more.  *)
PolicyReserve(trip) ==
  IF trip = None \/ Leq(trip, Zero) THEN Whole(Km)
  ELSE Greater(Whole(Km), Percent(15, trip))

(* The trip that remains: as stated, or what is left of the planned one.   *)
Remaining(ctx) ==
  IF ctx.trip # None THEN Whole(ctx.trip)
  ELSE IF ctx.planned = None THEN None
  ELSE Greater(Zero, Minus(Whole(ctx.planned), Given(ctx.travelled, Zero)))

Reserve(ctx) == Given(ctx.reserve, PolicyReserve(Remaining(ctx)))

Consumption(ctx) ==
  Whole(IF ctx.consumption \in {None, 0} THEN Catalog[ctx.vehicle.model].consumption
        ELSE ctx.consumption)

MutatedInvalidState(ctx, capacity) ==
  \/ ctx.soc < 0 \/ ctx.soc >= 100
  \/ ctx.trip # None /\ ctx.trip < 0
  \/ ctx.consumption # None /\ ctx.consumption <= 0
  \/ ctx.energy # None /\ (ctx.energy < 0 \/ Less(capacity, Whole(ctx.energy)))

InvalidState(ctx, capacity) ==
  \/ ctx.soc < 0 \/ ctx.soc > 100
  \/ ctx.trip # None /\ ctx.trip < 0
  \/ ctx.consumption # None /\ ctx.consumption <= 0
  \/ ctx.energy # None /\ (ctx.energy < 0 \/ Less(capacity, Whole(ctx.energy)))

EnergyLeft(ctx, capacity) == Given(ctx.energy, Percent(ctx.soc, capacity))

RangeLeft(ctx, capacity) ==
  Given(ctx.range, Over(Times(Whole(Km), EnergyLeft(ctx, capacity)), Consumption(ctx)))

(* The charge at which a warning is given: five points above the minimum.  *)
BelowSafe(ctx, capacity) ==
  LET charge == IF ctx.energy # None THEN Over(Times(Whole(100), Whole(ctx.energy)), capacity)
                ELSE Whole(ctx.soc)
  IN  Leq(charge, Plus(Given(ctx.minSafe, Whole(15)), Whole(5)))

InsufficientRange(range, trip, reserve) == trip # None /\ Less(range, Plus(trip, reserve))

Rounded(a) == Whole(Nearest(a))

Unassessed(reason) ==
  [need |-> FALSE, reason |-> reason, warning |-> "UNAVAILABLE",
   reserve |-> None, trip |-> None, energy |-> None, range |-> None]

(* The decision is taken on exact values; the answer reports rounded ones. *)
Assessment(trip, reserve, energy, range, low) ==
  LET short == InsufficientRange(range, trip, reserve)
      unreachable == trip # None /\ Less(range, trip)
  IN [need |-> low \/ short,
      reason |-> IF low /\ short THEN "LOW_SOC_AND_INSUFFICIENT_RANGE"
                 ELSE IF low THEN "LOW_SOC"
                 ELSE IF unreachable THEN "DESTINATION_NOT_REACHABLE"
                 ELSE IF short THEN "INSUFFICIENT_POST_DESTINATION_RESERVE"
                 ELSE "SUFFICIENT_SOC_RANGE",
      warning |-> IF unreachable THEN "CRITICAL"
                  ELSE IF low \/ short THEN "ADVISORY"
                  ELSE IF trip # None THEN "SAFE" ELSE "UNAVAILABLE",
      reserve |-> Rounded(reserve),
      trip |-> IF trip = None THEN None ELSE Rounded(trip),
      energy |-> Rounded(energy),
      range |-> Rounded(range)]

EvaluateNeed(ctx, capacity) ==
  IF ctx.soc = None THEN Unassessed("MISSING_DATA")
  ELSE IF InvalidState(ctx, capacity) THEN Unassessed("INVALID_STATE")
  ELSE Assessment(Remaining(ctx), Reserve(ctx), EnergyLeft(ctx, capacity),
                  RangeLeft(ctx, capacity), BelowSafe(ctx, capacity))

-----------------------------------------------------------------------------
(* The canonical request (EnergyServiceRequest).                           *)

(* resolve_service_type: a choice is never forced on a vehicle that has one*)
AutoService(c, need) == IF need /\ Cardinality(Allowed(c)) = 1 THEN "CHARGING" ELSE None

(* process_request: ANY is valid for every vehicle and resolves to nothing.*)
DriverServiceValid(c, service) == service = "ANY" \/ service \in Allowed(c)
DriverService(c, service) == IF service \in Allowed(c) THEN service ELSE None

(* evaluate_auto_demand and process_driver_request: with a service the     *)
(* driver asks for it, without one the backend detects the need.           *)
Requested(ctx, capacity, state) ==
  LET c == Catalog[ctx.vehicle.model]
      auto == ctx.service = None
      valid == auto \/ DriverServiceValid(c, ctx.service)
      stated(value, otherwise) == IF auto THEN otherwise ELSE Given(value, otherwise)
  IN [source |-> IF auto THEN "AUTO_DETECTED" ELSE "DRIVER_REQUEST",
      vehicle |-> ctx.vehicle,
      need |-> IF auto THEN state.need ELSE TRUE,
      requested |-> ctx.service,
      resolved |-> IF auto THEN AutoService(c, state.need) ELSE DriverService(c, ctx.service),
      valid |-> valid,
      reason |-> IF auto THEN state.reason
                 ELSE IF valid THEN "VALID_REQUEST" ELSE "UNSUPPORTED_SERVICE",
      soc |-> Given(ctx.soc, None),
      energy |-> Given(ctx.energy, state.energy),
      range |-> stated(ctx.range, state.range),
      trip |-> stated(ctx.trip, state.trip),
      reserve |-> stated(ctx.reserve, state.reserve),
      explicitRange |-> ctx.range # None,
      consumption |-> Consumption(ctx),
      usable |-> capacity]

EnergyRequest(ctx) ==
  LET capacity == UsableCapacity(ctx.vehicle)
  IN  Requested(ctx, capacity, EvaluateNeed(ctx, capacity))

(* validate_semantic_invariants: a request is refused by its own model     *)
(* unless what it resolves to is possible and was left to nobody else.     *)
SemanticInvariants(r) ==
  LET allowed == Allowed(Catalog[r.vehicle.model])
  IN  r.resolved # None =>
        /\ r.need /\ r.valid /\ r.requested # "ANY"
        /\ r.source = "AUTO_DETECTED" => Cardinality(allowed) <= 1
        /\ r.resolved \in allowed

-----------------------------------------------------------------------------
(* The battery at a station (energy/replenishment.py), from the canonical  *)
(* request: its energies and distances are fractions or None.              *)

(* check_energy_feasibility_to_station: half a kilometre is kept.          *)
FeasibleTo(distance, request) ==
  /\ request.range # None /\ Less(Zero, request.range)
  /\ Leq(Plus(Whole(distance), Q(Km, 2)), request.range)

(* energy_basis: the capacity of the installed modules, which must be the  *)
(* one the need was judged by, the energy now, and watt-hours per unit of  *)
(* distance: as the two telemetry values imply, unless the range was       *)
(* derived from a consumption.                                             *)
BasisCapacity(vehicle) ==
  LET c == Catalog[vehicle.model]
  IN  IF c.module = None THEN Whole(c.usable) ELSE Modular(c, InstalledModules(vehicle), 1)

Current(request, capacity) ==
  IF request.energy # None THEN request.energy
  ELSE Times(Q(1, 100), Times(request.soc, capacity))

BasisValid(request) ==
  LET c == Catalog[request.vehicle.model]
  IN  /\ c.module # None => InstalledModules(request.vehicle) \in 1..c.modules
      /\ request.usable = BasisCapacity(request.vehicle)
      /\ request.soc # None
      /\ Leq(Current(request, request.usable), request.usable)
      /\ request.range = Zero => Current(request, request.usable) = Zero

PerUnit(request) ==
  IF ~request.explicitRange THEN Over(request.consumption, Whole(Km))
  ELSE IF request.range = Zero THEN Q(Catalog[request.vehicle.model].consumption, Km)
  ELSE Over(Current(request, request.usable), request.range)

-----------------------------------------------------------------------------
(* estimate_replenishment.  onward is the distance left to the destination *)
(* or None.                                                                *)

ReserveAfter(request, onward) ==
  IF request.reserve # None THEN request.reserve
  ELSE PolicyReserve(IF onward = None THEN None ELSE Whole(onward))

MutatedRequired(request, onward) ==
  IF onward = None THEN Percent(NoDestinationPct, request.usable)
  ELSE Times(Whole(onward), PerUnit(request))

(* What must be in the battery when the vehicle leaves the station.        *)
Required(request, onward) ==
  IF onward = None THEN Percent(NoDestinationPct, request.usable)
  ELSE Times(Plus(Whole(onward), ReserveAfter(request, onward)), PerUnit(request))

(* Four fifths of the capacity charge at full power, the rest slower.      *)
ChargingTime(model, arrival, target, capacity) ==
  LET knee == Percent(80, capacity)
      fast == Greater(Zero, Minus(Smaller(target, knee), Smaller(arrival, knee)))
      slow == Minus(Minus(target, arrival), fast)
  IN  IF Leq(target, arrival) THEN Zero
      ELSE Plus(Whole(Setup), Over(Plus(fast, Times(slow, Whole(TaperDivisor))), Whole(Power[model])))

NoEstimate(status, reason) == [status |-> status, reason |-> reason]

NotEstimated ==
  {"BASIS", "CONSUMPTION", "INSUFFICIENT_SOC_TO_REACH", "INSUFFICIENT_DEPARTURE_ENERGY"}

ReplenishmentEstimate ==
  [status : {"INFEASIBLE", "UNAVAILABLE"}, reason : NotEstimated]
  \cup [status : {"AVAILABLE"}, reason : {None},
        arrival : Fraction, departure : Fraction, duration : Fraction]

(* A swap hands out a battery at SwapPct, charging stops at what is needed.*)
Replenished(request, swap, arrival, required, target, onward, swapTime) ==
  IF \/ Less(request.usable, required)
     \/ swap /\ onward # None /\ Less(target, required)
  THEN NoEstimate("INFEASIBLE", "INSUFFICIENT_DEPARTURE_ENERGY")
  ELSE [status |-> "AVAILABLE", reason |-> None,
        arrival |-> arrival, departure |-> target,
        duration |-> IF swap THEN Whole(swapTime)
                     ELSE ChargingTime(request.vehicle.model,
                                       arrival, target, request.usable)]

Arriving(request, distance) ==
  Minus(Current(request, request.usable), Times(Whole(distance), PerUnit(request)))

Estimate(request, service, distance, onward, swapTime) ==
  IF ~BasisValid(request) THEN NoEstimate("UNAVAILABLE", "BASIS")
  ELSE IF PerUnit(request) = Zero THEN NoEstimate("UNAVAILABLE", "CONSUMPTION")
  ELSE IF Less(Arriving(request, distance), Zero)
  THEN NoEstimate("INFEASIBLE", "INSUFFICIENT_SOC_TO_REACH")
  ELSE LET arrival == Arriving(request, distance)
           required == Required(request, onward)
           swap == service = "BATTERY_SWAP"
       IN Replenished(request, swap, arrival, required,
                      IF swap THEN Percent(SwapPct, request.usable) ELSE Greater(arrival, required),
                      onward, swapTime)
=============================================================================
