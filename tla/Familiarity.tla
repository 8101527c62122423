---------------------------- MODULE Familiarity ----------------------------
(***************************************************************************)
(* How familiar a proposed route is to a driver, and how much other        *)
(* drivers use it (services/route_familiarity/service.py), from the        *)
(* completed trips on record (repository.py, its two bounded queries) of   *)
(* the same time of day (temporal.py).                                     *)
(*                                                                         *)
(* An instant is counted in minutes on the clock of Vietnam, and drivers   *)
(* and trips are numbers in the order of their identifiers.  What share of *)
(* a proposed route lies along the road of a trip is the answer of the     *)
(* route matcher, here a parameter.  A community cohort is at most         *)
(* ActiveLimit * DriverLimit trips, so the limits of the code on the rows  *)
(* of both queries together (606 and 500) never bind.  Left out are what   *)
(* only the map of the cockpit shows (distances, cells), a penalty that    *)
(* the ranking computes anew, and the budget of the route matcher.         *)
(***************************************************************************)
EXTENDS Energy
LOCAL INSTANCE Folds

CONSTANTS
  Journeys,              \* completed trips that may be on record
  Adherence,             \* Adherence[road, route]: share of the route along it
  Points,                \* coordinates of a road or route
  PointLimit,            \* coordinates compared for one request (100000)
  PersonalLimit,         \* own trips looked at (50)
  ActiveLimit,           \* other drivers looked at (100)
  DriverLimit            \* trips looked at of each of them (5)

Fractional == {a \in Fraction : Leq(Zero, a) /\ Leq(a, Whole(1))}

Trip == [driver : Nat, trip : Nat, completed : Nat, started : Nat \cup {None},
         road : DOMAIN Points \cup {None}]

ASSUME FamiliarityAssumption ==
  /\ Journeys \subseteq Trip
  /\ \A s, t \in Journeys : s.driver = t.driver /\ s.trip = t.trip => s = t
  /\ Points \in [DOMAIN Points -> Nat]
  /\ Adherence \in [(DOMAIN Points) \X (DOMAIN Points) -> Fractional]
  /\ {PointLimit, PersonalLimit, ActiveLimit, DriverLimit} \subseteq Nat \ {0}

-----------------------------------------------------------------------------
(* get_vietnam_time_window: the peaks of Hanoi.                            *)
TimeWindow(instant) ==
  LET minute == instant % 1440
  IN  IF minute \in 420..539 THEN "MORNING_PEAK"
      ELSE IF minute \in 1020..1169 THEN "EVENING_PEAK"
      ELSE "OFF_PEAK"

InLookback(trip, now, lookback) == now - lookback <= trip.completed /\ trip.completed < now

(* ORDER BY completed_at DESC, trip_id DESC.                               *)
Later(s, t) == s.completed > t.completed \/ (s.completed = t.completed /\ s.trip > t.trip)
Position(t, trips) == 1 + Cardinality({s \in trips : Later(s, t)})

(* PERSONAL_ROUTES_QUERY: one more than will be used tells that there are. *)
PersonalRoutes(trips, driver, now, lookback) ==
  LET own == {t \in trips : t.driver = driver /\ InLookback(t, now, lookback)}
  IN  {t \in own : Position(t, own) <= PersonalLimit + 1}

(* COMMUNITY_ROUTES_QUERY: of the drivers active last, the last trips.     *)
CommunityRoutes(trips, driver, now, lookback) ==
  LET others == {t \in trips : t.driver # driver /\ InLookback(t, now, lookback)}
      newest == {t \in others : \A s \in others : s.driver = t.driver => ~Later(s, t)}
      ahead(s, t) == s.completed > t.completed \/ (s.completed = t.completed /\ s.driver < t.driver)
      activeRank(d) == LET last == CHOOSE t \in newest : t.driver = d
                       IN  1 + Cardinality({s \in newest : ahead(s, last)})
      driverRank(t) == Position(t, {s \in others : s.driver = t.driver})
  IN  {row \in {[trip |-> t, active |-> activeRank(t.driver), rank |-> driverRank(t)] : t \in others} :
         row.active <= ActiveLimit + 1 /\ row.rank <= DriverLimit + 1}

-----------------------------------------------------------------------------
NotAssessed(reason) ==
  [status |-> "UNAVAILABLE", reason |-> reason, personal |-> None, supporting |-> None, own |-> None,
   community |-> None, trips |-> None, drivers |-> None, confidence |-> Zero, communityConfidence |-> Zero,
   cohort |-> None, truncated |-> FALSE]

(* A trip of the same time of day of which the road and the start are      *)
(* known (a history kept from before those were recorded has neither).     *)
Legacy(trip) == trip.road = None \/ trip.started = None
Comparable(trip, now, lookback) ==
  /\ InLookback(trip, now, lookback)
  /\ ~Legacy(trip) /\ trip.started <= trip.completed
  /\ TimeWindow(trip.started) = TimeWindow(now)

Mean(f) ==
  Over(MapThenFoldSet(Plus, Zero, LAMBDA x : f[x], LAMBDA X : CHOOSE x \in X : TRUE, DOMAIN f),
       Whole(Cardinality(DOMAIN f)))

(* How far a figure from n trips or drivers is to be trusted.              *)
Trust(n, prior) == IF n = 0 THEN Zero ELSE Over(Whole(n), Plus(Whole(n), prior))

(* The assessment of one route, from the trips of the driver and those of  *)
(* others; what others do is told only if enough of them support it.       *)
Assess(policy, own, others, route, legacy, truncated) ==
  LET share(S) == [t \in S |-> Adherence[<<t.road, route>>]]
      supports(t) == Leq(policy.support, Adherence[<<t.road, route>>])
      of(d) == {t \in others : t.driver = d}
      average(d) == Mean(share(of(d)))
      cohort == {t.driver : t \in others}
      supporters == {t.driver : t \in {s \in others : supports(s)}}
      visible == Cardinality(supporters) >= policy.drivers
      told(value) == IF visible THEN value ELSE None
      among == Plus(Whole(Cardinality(cohort)), policy.strength)
  IN [status |-> IF own = {} /\ legacy THEN "UNAVAILABLE"
                 ELSE IF own # {} \/ visible THEN "AVAILABLE" ELSE "NO_HISTORY",
      reason |-> IF own = {} /\ legacy THEN "HISTORY_GEOMETRY_OR_START_UNAVAILABLE" ELSE None,
      personal |-> IF own = {} THEN None ELSE Mean(share(own)),
      supporting |-> Cardinality({t \in own : supports(t)}),
      own |-> Cardinality(own),
      community |-> told(Over(Plus(MapThenFoldSet(Plus, Zero, average,
                                                  LAMBDA X : CHOOSE d \in X : TRUE, cohort),
                                   Times(policy.mean, policy.strength)), among)),
      trips |-> told(Cardinality({t \in others : supports(t)})),
      drivers |-> told(Cardinality(supporters)),
      confidence |-> Trust(Cardinality(own), policy.prior),
      communityConfidence |-> IF visible THEN Trust(Cardinality(cohort), policy.prior) ELSE Zero,
      cohort |-> told(Cardinality(cohort)),
      truncated |-> truncated \/ legacy]

(* assess_many and _evaluate: the route proposed to each candidate, None   *)
(* where there is no geometry, against one reading of the history.  A road *)
(* proposed to two candidates is counted twice in the work.                *)
AssessMany(policy, history, driver, now, routes) ==
  LET rows == PersonalRoutes(history, driver, now, policy.lookback)
      found == CommunityRoutes(history, driver, now, policy.lookback)
      kept == {row \in found : row.active <= ActiveLimit /\ row.rank <= DriverLimit}
      personal == {t \in rows : Position(t, rows) <= PersonalLimit}
      own == {t \in personal : Comparable(t, now, policy.lookback)}
      others == {t \in {row.trip : row \in kept} : Comparable(t, now, policy.lookback)}
      truncated == kept # found \/ personal # rows
      legacy == \E t \in personal : Legacy(t)
      valid == {c \in DOMAIN routes : routes[c] # None}
      sum(points(_), S) == MapThenFoldSet(Plus, Zero, points, LAMBDA X : CHOOSE x \in X : TRUE, S)
      work == Plus(sum(LAMBDA t : Whole(Points[t.road]), own \cup others),
                   sum(LAMBDA c : Whole(Points[routes[c]]), valid))
  IN  [c \in DOMAIN routes |->
         IF valid # {} /\ Less(Whole(PointLimit), work) THEN NotAssessed("SIMILARITY_WORK_LIMIT")
         ELSE IF c \notin valid THEN NotAssessed("ROUTE_GEOMETRY_UNAVAILABLE")
         ELSE Assess(policy, own, others, routes[c], legacy, truncated)]

-----------------------------------------------------------------------------
(* What must be true of assessments a, of a route from a history.          *)

(* The contract of an assessment: every share is one, a figure about       *)
(* others is there with all the others, and none is trusted without it.    *)
Contract(a) ==
  /\ {a.personal, a.community} \subseteq Fractional \cup {None}
  /\ {a.confidence, a.communityConfidence} \subseteq Fractional
  /\ a.personal = None => a.confidence = Zero
  /\ \A f \in {a.trips, a.drivers, a.cohort} : f = None <=> a.community = None
  /\ a.community = None => a.communityConfidence = Zero
  /\ a.community # None => a.drivers <= a.cohort /\ a.drivers <= a.trips

(* What the driver is told of others shows no fewer than policy.drivers of *)
(* them, and no figure about the driver depends on their trips (a and b    *)
(* are from histories with the same trips of the driver).                  *)
Anonymous(policy, history, driver, a, b) ==
  /\ a.community # None => Cardinality({t.driver : t \in history} \ {driver}) >= policy.drivers
  /\ "SIMILARITY_WORK_LIMIT" \notin {a.reason, b.reason} =>
       /\ a.personal = b.personal /\ a.confidence = b.confidence
       /\ a.own = b.own /\ a.supporting = b.supporting

(* The distance from the familiar that the ranking charges for.            *)
Strangeness(a) ==
  IF a.personal = None THEN Zero ELSE Times(Minus(Whole(1), a.personal), a.confidence)
=============================================================================
