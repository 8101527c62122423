---------------------------- MODULE DriverScreen ----------------------------
(***************************************************************************)
(* The driver cockpit's controller (static/demo/js/ui/driver_controller.js *)
(* and ui/station_planning.js): what the driver's buttons, the replay's    *)
(* steps and the refresh timer do to the trip, the route, the station plan *)
(* and the recommendation while requests to the backend are under way.     *)
(*                                                                         *)
(* JavaScript runs to completion, so an action reaches from one await to   *)
(* the next.  A request remembers revision counters and is dropped when    *)
(* one of them has moved; the code compares them for equality only, so a   *)
(* request carries the set of counters that have NOT moved since it was    *)
(* sent.  A handler that awaits another one resumes before any other event *)
(* is taken (a microtask).                                                 *)
(*                                                                         *)
(* Positions, distances, drawing and the vehicle's figures are abstracted; *)
(* the backend answers anything it may answer, or fails.                   *)
(***************************************************************************)
EXTENDS Naturals, Sequences, FiniteSets

CONSTANTS
  Stations,
  Dests,      \* destinations of a passenger
  NoStation, NoDest, NoTrip, NoPlan, NoStages, NoRoute,   \* null
  Slots       \* bound: one for every handler that may await something

ASSUME NullAssumption ==
  /\ NoStation \notin Stations \cup Dests
  /\ NoDest \notin Stations \cup Dests
  /\ Stations \cap Dests = {}

ASSUME SlotsAssumption == IsFiniteSet(Slots)

VARIABLES
  state,         \* DriverState
  trip,          \* currentTrip
  customDest,    \* customDestination
  customOrigin,  \* whether customOrigin is known
  pos,           \* whether currentPos is known
  route,         \* fullRouteCoords: where the drawn route leads, and via what
  plan,          \* selectedStationPlan
  locked,        \* _navigationLocked
  selected,      \* _selectedStationId
  stages,        \* navigationStages: the waypoints passed
  energy,        \* the energy context of lastRecommendation
  timer,         \* whether _recommendTimer runs
  isEvaluating,  \* _isEvaluating
  op             \* the handlers that await something

screen == <<state, trip, customDest, route, plan, locked, selected, stages, energy, timer>>
places == <<customOrigin, pos>>
vars == <<screen, places, isEvaluating, op>>
navigation == <<plan, locked, selected, stages>>

(* TO_PICKUP and ON_TRIP, which no handler ever sets, are left out.        *)
States == {"OFFLINE", "AVAILABLE", "TRIP_ASSIGNED", "TRIP_ACTIVE", "TRIP_COMPLETE"}
Modes == {"BEFORE", "AFTER"}
Roles == {"STATION", "PASSENGER"}

(* The revision counters.  "input" is a history: the driver has typed no   *)
(* state of charge and chosen no vehicle since.                            *)
Counters == {"generation", "routeRevision", "_powerRevision", "selectedStationPlan",
             "_drawerRevision", "input"}

Plans == [station : Stations, mode : Modes,
          stops : {<<"STATION">>, <<"STATION", "PASSENGER">>, <<"PASSENGER", "STATION">>}]

Trips == [dest : Dests \cup Stations, passenger : Dests \cup {NoDest}]
Routes == [to : Dests \cup Stations, via : Stations \cup {NoStation}]
Stages == [mode : Modes, passenger : BOOLEAN, station : BOOLEAN]

(* null is no value of its type.                                           *)
ASSUME NoValueAssumption ==
  NoPlan \notin Plans /\ NoTrip \notin Trips /\ NoRoute \notin Routes /\ NoStages \notin Stages

Kinds == {"idle", "assign", "custom", "select", "reroute", "power", "evaluation",
          "diversion", "drawer", "resume"}

(* What the handler that awaits this one does next.                        *)
Continuations == {"none", "probe", "finish", "soc", "drawer", "timer", "complete"}

Idle == [kind |-> "idle", valid |-> {}, dest |-> NoDest, plan |-> NoPlan,
         mode |-> "BEFORE", refresh |-> FALSE, locked |-> FALSE,
         station |-> NoStation, then |-> "none"]

Ops == [kind : Kinds, valid : SUBSET Counters, dest : Dests \cup Stations \cup {NoDest},
        plan : Plans \cup {NoPlan}, mode : Modes, refresh : BOOLEAN, locked : BOOLEAN,
        station : Stations \cup {NoStation}, then : Continuations]

Direct(d) == [to |-> d, via |-> NoStation]

Init ==
  /\ state = "AVAILABLE"
  /\ trip = NoTrip /\ customDest = NoDest /\ customOrigin = FALSE /\ pos = FALSE
  /\ route = NoRoute
  /\ plan = NoPlan /\ locked = FALSE /\ selected = NoStation /\ stages = NoStages
  /\ energy = "none"
  /\ timer = FALSE /\ isEvaluating = FALSE
  /\ op = [s \in Slots |-> Idle]

-----------------------------------------------------------------------------
(* The getters.                                                            *)

passengerDestination ==
  IF customDest # NoDest THEN customDest
  ELSE IF trip # NoTrip THEN trip.passenger ELSE NoDest

planningOrigin == pos \/ customOrigin \/ trip # NoTrip

PassengerPassed == stages # NoStages /\ stages.passenger
StationPassed == stages # NoStages /\ stages.mode = "BEFORE" /\ stages.station

-----------------------------------------------------------------------------
(* Requests and the counters they compare.                                 *)

Evaluations(table) == {s \in Slots : table[s].kind \in {"evaluation", "diversion"}}
Free(n) == Cardinality({s \in Slots : op[s] = Idle}) >= n
FreeSlot == CHOOSE s \in Slots : op[s] = Idle

Settled == \A s \in Slots : op[s].kind # "resume"

(* The counters a request remembers: those that it, or the handler that    *)
(* awaits it, compares.                                                    *)
Remembered(o) ==
  CASE o.kind = "assign" -> {"generation"}
    [] o.kind = "custom" -> {"generation", "routeRevision"}
    [] o.kind = "power" -> {"generation", "_powerRevision"}
    [] o.kind = "reroute" -> {"generation", "routeRevision", "_powerRevision"}
    [] o.kind = "select" -> {"generation", "routeRevision", "_powerRevision"} \cup
                            (IF o.refresh THEN {"selectedStationPlan"} ELSE {})
    [] o.kind = "evaluation" -> {"generation", "routeRevision", "_powerRevision", "input"}
    [] o.kind = "drawer" -> {"generation", "routeRevision", "_powerRevision",
                             "_drawerRevision", "input"}

(* Counters move: the requests that remember them have become stale, and   *)
(* one of another generation has nothing left to compare.                  *)
Bump(counters, table) ==
  [s \in Slots |-> [table[s] EXCEPT
     !.valid = IF "generation" \in counters THEN {} ELSE @ \ counters]]

Send(s, table, o) == [table EXCEPT ![s] = [o EXCEPT !.valid = Remembered(o)]]

Fresh(then) ==
  IF then \in {"soc", "drawer"} THEN {"generation", "_powerRevision"} ELSE {"generation"}

Resumption(then, valid, station) ==
  IF then = "none" THEN Idle
  ELSE [Idle EXCEPT !.kind = "resume", !.then = then, !.valid = valid \cap Fresh(then),
          !.station = station]

(* The handler in slot s returns to the one that awaits it.                *)
Return(s, table) ==
  [table EXCEPT ![s] = Resumption(op[s].then, op[s].valid, op[s].station)]

Current(s, counters) == counters \subseteq op[s].valid

(* A state of charge typed, or a vehicle chosen: the energy context of the *)
(* recommendation is dropped, and if it were not it would be out of date.  *)
WithoutEnergy(e) == "none"
Aged(e) == IF e = "current" THEN "outdated" ELSE e
EnergyOf(s) == IF "input" \in op[s].valid THEN "current" ELSE "outdated"

(* _evaluateAtCurrentPosition, called in slot s: nothing when one is under *)
(* way, and only an evaluation of an unlocked route moves routeRevision.   *)
MayEvaluate == pos' /\ ~isEvaluating

Evaluate(s, table, then) ==
  IF MayEvaluate
  THEN /\ op' = Send(s, IF locked' THEN table ELSE Bump({"routeRevision"}, table),
                     [Idle EXCEPT !.kind = "evaluation", !.locked = locked', !.then = then])
       /\ isEvaluating' = TRUE
  ELSE /\ op' = [table EXCEPT ![s] = Resumption(then, Fresh(then), NoStation)]
       /\ UNCHANGED isEvaluating

(* refreshStationPlans; after says that the list is for the time after the *)
(* destination, which leaves the recommendation alone.                     *)
Listing(s, table, after) ==
  IF after THEN Bump({"_drawerRevision"}, table)
  ELSE Send(s, Bump({"_drawerRevision"}, table), [Idle EXCEPT !.kind = "drawer"])
Listed(e, after) == IF after THEN e ELSE "none"

(* selectStationPlan asks the backend to confirm a station: the passenger  *)
(* already passed is no stop any more.                                     *)
Confirmation(s, table, station, mode, refresh, then) ==
  LET effective == IF PassengerPassed THEN "BEFORE" ELSE mode
      onward == ~PassengerPassed /\ passengerDestination # NoDest
  IN Send(s, Bump({"routeRevision"}, table),
       [Idle EXCEPT !.kind = "select", !.mode = mode, !.refresh = refresh, !.then = then,
          !.station = station,
          !.plan = [station |-> station, mode |-> effective,
                    stops |-> IF effective = "AFTER" THEN <<"PASSENGER", "STATION">>
                              ELSE IF onward THEN <<"STATION", "PASSENGER">>
                              ELSE <<"STATION">>]])

(* _triggerReroute: a plan that is navigated is confirmed again, anything  *)
(* else is routed straight to the destination.                             *)
Reroute(s, table, then) ==
  IF locked /\ plan # NoPlan /\ ~StationPassed
  THEN IF plan.mode = "AFTER" /\ passengerDestination = NoDest
       THEN [table EXCEPT ![s] = Resumption(then, Fresh(then), plan.station)]
       ELSE Confirmation(s, table, plan.station, plan.mode, TRUE, then)
  ELSE Send(s, Bump({"routeRevision"}, table),
            [Idle EXCEPT !.kind = "reroute", !.dest = trip.dest, !.then = then,
               !.station = IF plan = NoPlan THEN NoStation ELSE plan.station])

(* _updateCustomRoute, up to its request.                                  *)
CustomRoute(s, table, d) ==
  Send(s, Bump({"routeRevision", "selectedStationPlan"}, table),
       [Idle EXCEPT !.kind = "custom", !.dest = d])

MutatedNavigationDropped ==
  /\ plan' = NoPlan /\ UNCHANGED locked /\ selected' = NoStation /\ stages' = NoStages
NavigationDropped ==
  /\ plan' = NoPlan /\ locked' = FALSE /\ selected' = NoStation /\ stages' = NoStages

-----------------------------------------------------------------------------
(* The driver's buttons.                                                   *)

(* clearDestination.                                                       *)
Cleared(table) == Bump({"generation", "routeRevision", "selectedStationPlan"}, table)

ClearedScreen ==
  /\ state' = "AVAILABLE" /\ trip' = NoTrip /\ customDest' = NoDest
  /\ route' = NoRoute /\ energy' = "none" /\ timer' = FALSE
  /\ NavigationDropped

ClearDestination ==
  /\ op' = Cleared(op)
  /\ ClearedScreen
  /\ UNCHANGED <<customOrigin, pos, isEvaluating>>

SetOrigin ==
  /\ Free(1)
  /\ customOrigin' = TRUE /\ pos' = TRUE
  /\ IF passengerDestination # NoDest
     THEN /\ op' = CustomRoute(FreeSlot, op, passengerDestination)
          /\ NavigationDropped
          /\ UNCHANGED <<state, trip, customDest, route, energy, timer>>
     ELSE /\ op' = Cleared(op)
          /\ ClearedScreen
  /\ UNCHANGED isEvaluating

(* Without an origin the map asks for one.                                 *)
SetDestination(d) ==
  /\ Free(1)
  /\ customDest' = d
  /\ IF planningOrigin
     THEN /\ op' = CustomRoute(FreeSlot, op, d)
          /\ NavigationDropped
     ELSE /\ stages' = NoStages
          /\ UNCHANGED <<op, plan, locked, selected>>
  /\ UNCHANGED <<state, trip, route, energy, timer, places, isEvaluating>>

(* assignTrip from the card of an available driver.                        *)
Accept ==
  /\ state = "AVAILABLE" /\ Free(1)
  /\ LET table == Bump({"generation", "_powerRevision"}, op) IN
     CASE passengerDestination = NoDest ->
            IF planningOrigin
            THEN /\ op' = Listing(FreeSlot, table, FALSE) /\ energy' = Listed(energy, FALSE)
                 /\ UNCHANGED <<trip, route>>
            ELSE op' = table /\ UNCHANGED <<energy, trip, route>>
       [] passengerDestination # NoDest /\ ~planningOrigin ->
            op' = table /\ UNCHANGED <<energy, trip, route>>
       [] OTHER ->
            /\ trip' = [dest |-> passengerDestination, passenger |-> passengerDestination]
            /\ route' = NoRoute
            /\ op' = Send(FreeSlot, table,
                          [Idle EXCEPT !.kind = "assign", !.dest = passengerDestination])
            /\ UNCHANGED energy
  /\ UNCHANGED <<state, customDest, navigation, timer, places, isEvaluating>>

(* The start button stands on the card of an assigned trip, which a        *)
(* selection also draws for a driver who is offline or has arrived.        *)
StartOffered ==
  \/ state = "TRIP_ASSIGNED"
  \/ state \in {"OFFLINE", "TRIP_COMPLETE"} /\ locked

StartTrip ==
  /\ StartOffered /\ trip # NoTrip /\ Free(1)
  /\ state' = "TRIP_ACTIVE"
  /\ UNCHANGED <<trip, customDest, route, navigation, energy, timer, places>>
  /\ Evaluate(FreeSlot, Bump({"generation", "_powerRevision"}, op), "timer")

CompleteTrip ==
  /\ state = "TRIP_ACTIVE"
  /\ state' = "TRIP_COMPLETE"
  /\ locked' = FALSE /\ selected' = NoStation
  /\ UNCHANGED <<trip, customDest, route, plan, stages, energy, timer, places, isEvaluating, op>>

ReturnToAvailable ==
  /\ StartOffered \/ state = "TRIP_COMPLETE"
  /\ state' = "AVAILABLE" /\ trip' = NoTrip /\ pos' = FALSE
  /\ route' = NoRoute /\ energy' = "none" /\ timer' = FALSE
  /\ NavigationDropped
  /\ op' = Bump({"generation", "_powerRevision", "selectedStationPlan"}, op)
  /\ UNCHANGED <<customDest, customOrigin, isEvaluating>>

GoOffline ==
  /\ state = "AVAILABLE" /\ state' = "OFFLINE"
  /\ UNCHANGED <<trip, customDest, route, navigation, energy, timer, places, isEvaluating, op>>

GoOnline ==
  /\ state = "OFFLINE" /\ state' = "AVAILABLE"
  /\ UNCHANGED <<trip, customDest, route, navigation, energy, timer, places, isEvaluating, op>>

ShowStations(after) ==
  /\ planningOrigin /\ Free(1)
  /\ after => passengerDestination # NoDest /\ ~PassengerPassed
  /\ op' = Listing(FreeSlot, op, after)
  /\ energy' = Listed(energy, after)
  /\ UNCHANGED <<state, trip, customDest, route, navigation, timer, places, isEvaluating>>

SelectStation(station, mode) ==
  /\ planningOrigin /\ Free(1)
  /\ mode = "AFTER" => passengerDestination # NoDest
  /\ op' = Confirmation(FreeSlot, op, station, mode, FALSE, "none")
  /\ UNCHANGED <<screen, places, isEvaluating>>

(* The driver gives the station up; the route is evaluated and checked     *)
(* again, in this order.                                                   *)
UnlockNavigation ==
  /\ state = "TRIP_ACTIVE" /\ locked /\ Free(IF isEvaluating THEN 1 ELSE 2)
  /\ NavigationDropped
  /\ UNCHANGED <<state, trip, customDest, route, energy, timer, places>>
  /\ LET s == FreeSlot
         given == Bump({"selectedStationPlan"}, op)
         probe == Resumption("probe", Fresh("probe"), NoStation)
     IN IF isEvaluating
        THEN op' = [given EXCEPT ![s] = probe] /\ UNCHANGED isEvaluating
        ELSE LET other == CHOOSE r \in Slots \ {s} : op[r] = Idle
             IN Evaluate(s, [given EXCEPT ![other] = probe], "none")

(* setBatterySoc.  The estimates of a selected plan are void until it is   *)
(* confirmed again.  A slider that is still moving triggers nothing.       *)
SetBatterySoc(triggerEvaluation) ==
  /\ StartOffered \/ state = "TRIP_ACTIVE"
  /\ Free(1)
  /\ energy' = Aged(WithoutEnergy(energy))
  /\ LET table == Bump({"_powerRevision", "input"} \cup
                       (IF plan # NoPlan THEN {"selectedStationPlan"} ELSE {}), op)
         evaluated == triggerEvaluation /\ state \in {"TRIP_ASSIGNED", "TRIP_ACTIVE"}
     IN op' = CASE ~evaluated -> table
                [] evaluated /\ plan # NoPlan -> Reroute(FreeSlot, table, "soc")
                [] OTHER -> [table EXCEPT ![FreeSlot] = Resumption("soc", Fresh("soc"), NoStation)]
  /\ UNCHANGED <<state, trip, customDest, route, navigation, timer, places, isEvaluating>>

(* selectVehicleModel.  Another vehicle on a trip plans the rest of it     *)
(* anew, the same one only refreshes the list that is open.                *)
SelectVehicleModel(supported, other, list) ==
  /\ Free(1)
  /\ LET table == Bump({"_powerRevision"} \cup IF supported THEN {"input"} ELSE {}, op)
         cleared == Cleared(table)
         outstanding == IF PassengerPassed THEN NoDest ELSE passengerDestination
     IN CASE ~supported ->
               op' = table /\ UNCHANGED <<screen, places>>
          [] supported /\ other /\ trip # NoTrip ->
               /\ state' = "AVAILABLE" /\ route' = NoRoute /\ timer' = FALSE /\ energy' = "none"
               /\ NavigationDropped
               /\ customOrigin' = TRUE /\ pos' = TRUE
               /\ customDest' = outstanding
               /\ trip' = IF outstanding = NoDest THEN NoTrip
                          ELSE [dest |-> outstanding, passenger |-> outstanding]
               /\ op' = IF outstanding # NoDest THEN CustomRoute(FreeSlot, cleared, outstanding)
                        ELSE Listing(FreeSlot, cleared, FALSE)
          [] OTHER ->
               /\ op' = IF list = "closed" \/ ~planningOrigin THEN table
                        ELSE Listing(FreeSlot, table, list = "after")
               /\ energy' = Listed(Aged(WithoutEnergy(energy)),
                                list # "before" \/ ~planningOrigin)
               /\ UNCHANGED <<state, trip, customDest, route, navigation, timer,
                              customOrigin, pos>>
  /\ UNCHANGED isEvaluating

-----------------------------------------------------------------------------
(* The replay and the refresh timer.                                       *)

(* _onReplayStep, up to the power estimate.  A stale or repeated           *)
(* observation is not measured.  When the replay takes a step, and that it *)
(* takes one at a time, is Replay's concern: nothing here relies on it.    *)
Step(measured) ==
  /\ state = "TRIP_ACTIVE" /\ Free(1)
  /\ pos' = TRUE
  /\ op' = IF measured THEN Send(FreeSlot, op, [Idle EXCEPT !.kind = "power", !.then = "probe"])
           ELSE [op EXCEPT ![FreeSlot] = Resumption("probe", Fresh("probe"), NoStation)]
  /\ UNCHANGED <<screen, customOrigin, isEvaluating>>

(* The accepted estimate changes the state of charge.                      *)
PowerAnswered(s) ==
  /\ op[s].kind = "power"
  /\ \/ op' = Return(s, op)
     \/ /\ Current(s, {"generation", "_powerRevision"})
        /\ op' = Return(s, Bump({"_powerRevision"}, op))
  /\ UNCHANGED <<screen, places, isEvaluating>>

(* The position is off the route for the third time, or it is not.         *)
Probe(s) ==
  /\ op[s].then = "probe"
  /\ op' = IF ~Current(s, {"generation"}) THEN [op EXCEPT ![s] = Idle]
           ELSE [op EXCEPT ![s].then = "finish"]
  /\ UNCHANGED <<screen, places, isEvaluating>>

OffRoute(s) ==
  /\ op[s].then = "probe" /\ Current(s, {"generation"})
  /\ route # NoRoute /\ trip # NoTrip
  /\ op' = Reroute(s, op, "finish")
  /\ UNCHANGED <<screen, places, isEvaluating>>

(* recordWaypointProgress: the stops passed are the first ones of the plan.*)
WaypointProgress ==
  IF plan = NoPlan \/ route = NoRoute \/ StationPassed THEN {stages}
  ELSE LET kept == IF stages # NoStages THEN stages
                   ELSE [mode |-> plan.mode, passenger |-> FALSE, station |-> FALSE]
           passed(n) == {plan.stops[i] : i \in 1..n}
       IN {stages} \cup
          {[kept EXCEPT !.passenger = @ \/ "PASSENGER" \in passed(n),
                        !.station = @ \/ "STATION" \in passed(n)] : n \in 0..Len(plan.stops)}

FinishStep(s) ==
  /\ op[s].then = "finish"
  /\ IF Current(s, {"generation"})
     THEN /\ stages' \in WaypointProgress
          /\ UNCHANGED <<locked, pos>>
          /\ \/ op' = [op EXCEPT ![s] = Idle] /\ UNCHANGED <<state, isEvaluating>>
             \/ Evaluate(s, op, "none") /\ UNCHANGED state
             \/ state' = "TRIP_COMPLETE" /\ Evaluate(s, op, "complete")
     ELSE /\ op' = [op EXCEPT ![s] = Idle]
          /\ UNCHANGED <<state, stages, locked, pos, isEvaluating>>
  /\ UNCHANGED <<trip, customDest, route, plan, selected, energy, timer, customOrigin>>

(* _refreshRecommendation.                                                 *)
Tick ==
  /\ timer /\ Free(1)
  /\ UNCHANGED <<state, trip, customDest, route, navigation, energy, places>>
  /\ IF state = "TRIP_ACTIVE"
     THEN Evaluate(FreeSlot, op, "none") /\ UNCHANGED timer
     ELSE timer' = FALSE /\ UNCHANGED <<op, isEvaluating>>

-----------------------------------------------------------------------------
(* The answers.                                                            *)

(* The only counter an assignment compares.                                *)
MutatedAssignmentWelcome(s) == TRUE
AssignmentWelcome(s) == Current(s, {"generation"})

AssignAnswered(s) ==
  /\ op[s].kind = "assign"
  /\ op' = Return(s, op)
  /\ IF AssignmentWelcome(s)
     THEN state' = "TRIP_ASSIGNED" /\ route' \in {route, Direct(op[s].dest)}
     ELSE UNCHANGED <<state, route>>
  /\ UNCHANGED <<trip, customDest, navigation, energy, timer, places, isEvaluating>>

CustomAnswered(s) ==
  /\ op[s].kind = "custom"
  /\ UNCHANGED <<customDest, navigation, energy, timer, places>>
  /\ \/ /\ Current(s, {"generation", "routeRevision"})
        /\ route' = Direct(op[s].dest)
        /\ trip' = [dest |-> op[s].dest, passenger |-> op[s].dest]
        /\ state' = IF state = "AVAILABLE" THEN "TRIP_ASSIGNED" ELSE state
        /\ IF state = "TRIP_ACTIVE" THEN Evaluate(s, [op EXCEPT ![s] = Idle], "none")
           ELSE op' = Return(s, op) /\ UNCHANGED isEvaluating
     \/ op' = Return(s, op) /\ UNCHANGED <<state, trip, route, isEvaluating>>

RerouteAnswered(s) ==
  /\ op[s].kind = "reroute"
  /\ op' = Return(s, op)
  /\ \/ /\ Current(s, {"generation", "routeRevision", "_powerRevision"})
        /\ route' = Direct(op[s].dest)
     \/ UNCHANGED route
  /\ UNCHANGED <<state, trip, customDest, navigation, energy, timer, places, isEvaluating>>

(* The guard of a confirmed plan.  A confirmation that the driver has not  *)
(* asked for must find the very plan it confirms.                          *)
MutatedPlanWelcome(s) == Current(s, {"generation", "routeRevision", "_powerRevision"})
PlanWelcome(s) ==
  /\ Current(s, {"generation", "routeRevision", "_powerRevision"})
  /\ op[s].refresh => locked /\ Current(s, {"selectedStationPlan"})

SelectAnswered(s) ==
  LET o == op[s]
      fresh == [mode |-> o.mode, passenger |-> FALSE, station |-> FALSE]
      target == IF o.plan.stops = <<"STATION", "PASSENGER">> THEN passengerDestination
                ELSE o.station
  IN /\ o.kind = "select"
     /\ \/ /\ PlanWelcome(s)
           /\ plan' = o.plan /\ locked' = TRUE /\ selected' = o.station
           /\ stages' = IF stages # NoStages /\ (o.refresh \/ PassengerPassed)
                        THEN stages ELSE fresh
           /\ route' = [to |-> target, via |-> o.station]
           /\ trip' = [dest |-> target, passenger |-> passengerDestination]
           /\ state' = IF state = "AVAILABLE" THEN "TRIP_ASSIGNED" ELSE state
           /\ op' = Return(s, Bump({"selectedStationPlan"}, op))
        \/ op' = Return(s, op) /\ UNCHANGED <<navigation, route, trip, state>>
  /\ UNCHANGED <<customDest, energy, timer, places, isEvaluating>>

DrawerAnswered(s) ==
  /\ op[s].kind = "drawer"
  /\ op' = Return(s, op)
  /\ \/ /\ Current(s, {"generation", "routeRevision", "_powerRevision", "_drawerRevision"})
        /\ energy' = EnergyOf(s)
     \/ UNCHANGED energy
  /\ UNCHANGED <<state, trip, customDest, route, navigation, timer, places, isEvaluating>>

(* The guard of an evaluation.                                             *)
MutatedAnswerWelcome(s) == Current(s, {"generation", "routeRevision"})
AnswerWelcome(s) == Current(s, {"generation", "routeRevision", "_powerRevision"})

(* A locked evaluation only asks for the energy context.  An unlocked one  *)
(* that found a station goes on to ask for the diversion to it.            *)
EvaluationAnswered(s) ==
  /\ op[s].kind = "evaluation"
  /\ IF ~AnswerWelcome(s) \/ (~op[s].locked /\ locked)
     THEN op' = Return(s, op) /\ isEvaluating' = FALSE /\ UNCHANGED energy
     ELSE \/ /\ op' = Return(s, op) /\ isEvaluating' = FALSE
             /\ energy' \in {EnergyOf(s), "none"}
          \/ /\ ~op[s].locked
             /\ op' = [op EXCEPT ![s].kind = "diversion"]
             /\ energy' = EnergyOf(s)
             /\ UNCHANGED isEvaluating
  /\ UNCHANGED <<state, trip, customDest, route, navigation, timer, places>>

DiversionAnswered(s) ==
  /\ op[s].kind = "diversion"
  /\ op' = Return(s, op) /\ isEvaluating' = FALSE
  /\ UNCHANGED <<screen, places>>

-----------------------------------------------------------------------------
(* The handlers that were awaiting another one.                            *)

(* The rest of setBatterySoc: the selected station must still be navigated.*)
SocConfirmed(s) ==
  /\ op[s].then = "soc"
  /\ UNCHANGED <<screen, places>>
  /\ IF /\ Current(s, {"generation", "_powerRevision"})
        /\ op[s].station # NoStation => locked /\ plan.station = op[s].station
     THEN Evaluate(s, op, "drawer")
     ELSE op' = [op EXCEPT ![s] = Idle] /\ UNCHANGED isEvaluating

SocEvaluated(s, list) ==
  /\ op[s].then = "drawer"
  /\ LET ended == [op EXCEPT ![s] = Idle]
         listed == list # "closed" /\ Current(s, {"generation", "_powerRevision"})
     IN /\ op' = IF listed THEN Listing(s, ended, list = "after") ELSE ended
        /\ energy' = Listed(energy, ~listed \/ list = "after")
  /\ UNCHANGED <<state, trip, customDest, route, navigation, timer, places, isEvaluating>>

(* startTrip starts the timer, the replay's arrival unlocks the route.  The *)
(* playTrip at the end of startTrip is left to Replay: on this screen it   *)
(* changes nothing while the replay has a track.                           *)
TripStarted(s) ==
  /\ op[s].then = "timer"
  /\ timer' = (timer \/ Current(s, {"generation"}))
  /\ op' = [op EXCEPT ![s] = Idle]
  /\ UNCHANGED <<state, trip, customDest, route, navigation, energy, places, isEvaluating>>

TripCompleted(s) ==
  /\ op[s].then = "complete"
  /\ locked' = (locked /\ ~Current(s, {"generation"}))
  /\ selected' = IF Current(s, {"generation"}) THEN NoStation ELSE selected
  /\ op' = [op EXCEPT ![s] = Idle]
  /\ UNCHANGED <<state, trip, customDest, route, plan, stages, energy, timer, places, isEvaluating>>

-----------------------------------------------------------------------------

Lists == {"closed", "before", "after"}

Driver ==
  \/ SetOrigin \/ (\E d \in Dests : SetDestination(d)) \/ ClearDestination
  \/ Accept \/ StartTrip \/ CompleteTrip \/ ReturnToAvailable \/ GoOffline \/ GoOnline
  \/ \E after \in BOOLEAN : ShowStations(after)
  \/ \E station \in Stations, mode \in Modes : SelectStation(station, mode)
  \/ UnlockNavigation
  \/ \E trigger \in BOOLEAN : SetBatterySoc(trigger)
  \/ \E supported, other \in BOOLEAN, list \in Lists : SelectVehicleModel(supported, other, list)

Answer(s) ==
  \/ PowerAnswered(s) \/ AssignAnswered(s) \/ CustomAnswered(s) \/ RerouteAnswered(s)
  \/ SelectAnswered(s) \/ DrawerAnswered(s) \/ EvaluationAnswered(s) \/ DiversionAnswered(s)

Resume(s) ==
  /\ op[s].kind = "resume"
  /\ \/ Probe(s) \/ OffRoute(s) \/ FinishStep(s) \/ SocConfirmed(s)
     \/ (\E list \in Lists : SocEvaluated(s, list)) \/ TripStarted(s) \/ TripCompleted(s)

Next ==
  \/ /\ Settled
     /\ \/ Driver \/ Tick \/ (\E measured \in BOOLEAN : Step(measured))
        \/ \E s \in Slots : Answer(s)
  \/ \E s \in Slots : Resume(s)

Spec == Init /\ [][Next]_vars

-----------------------------------------------------------------------------
(* Properties.                                                             *)

(* Every variable keeps its type, one evaluation is under way when the     *)
(* flag (_isEvaluating) says so and none otherwise, and a trip that is     *)
(* assigned or active exists.                                              *)
TypeOK ==
  /\ state \in States
  /\ trip \in Trips \cup {NoTrip} /\ route \in Routes \cup {NoRoute}
  /\ stages \in Stages \cup {NoStages}
  /\ customDest \in Dests \cup {NoDest}
  /\ plan \in Plans \cup {NoPlan} /\ selected \in Stations \cup {NoStation}
  /\ energy \in {"none", "current", "outdated"}
  /\ customOrigin \in BOOLEAN /\ pos \in BOOLEAN /\ locked \in BOOLEAN
  /\ timer \in BOOLEAN /\ isEvaluating \in BOOLEAN
  /\ op \in [Slots -> Ops]
  /\ Cardinality(Evaluations(op)) = IF isEvaluating THEN 1 ELSE 0
  /\ state \in {"TRIP_ASSIGNED", "TRIP_ACTIVE"} => trip # NoTrip

(* While the navigation is locked (_navigationLocked) there is a plan, it  *)
(* is the plan of the station shown as selected, and there is a trip with  *)
(* stages to count its stops: whatever button, answer or step of the       *)
(* replay came in between.                                                 *)
LockedOnPlan ==
  locked => /\ plan # NoPlan /\ selected = plan.station
            /\ stages # NoStages /\ trip # NoTrip

(* The energy context shown with a recommendation was never computed       *)
(* before the last state of charge the driver typed or vehicle the driver  *)
(* chose, however late the answer (setBatterySoc, selectVehicleModel).     *)
EstimatesCurrent == energy # "outdated"

(* Only the answer to a station the driver chose locks the navigation: a   *)
(* confirmation sent by a reroute or by a new state of charge, arriving    *)
(* after the driver has given the station up, locks nothing.               *)
OnlyChoiceLocks ==
  [][~locked /\ locked' =>
       \E s \in Slots : /\ op[s].kind = "select" /\ ~op[s].refresh
                        /\ op'[s].kind # "select"]_vars

(* An answer to a request of an earlier generation (before a start, a      *)
(* return, a cleared destination or another assignment) changes nothing    *)
(* that the driver sees.                                                   *)
LateAnswersInert ==
  [][\A s \in Slots :
       /\ op[s].kind # "idle" /\ op'[s].kind # op[s].kind
       /\ ~Current(s, {"generation"})
       => UNCHANGED screen]_vars

(* As long as a station is selected and not yet passed, the route that is  *)
(* driven leads over it (tests/frontend/test_navigation_revision.mjs).     *)
SelectionPreserved ==
  locked /\ ~stages.station => route # NoRoute /\ route.via = plan.station

=============================================================================
