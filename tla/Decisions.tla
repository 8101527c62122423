----------------------------- MODULE Decisions -----------------------------
(***************************************************************************)
(* One recommendation from the telemetry to the ranked stations            *)
(* (api/v1/ranking.py recommend, ranking/orchestration.py _search,         *)
(* ranking/context.py, ranking/service.py): the energy request, the drive  *)
(* to the destination that comes first in an AFTER_DESTINATION plan, the   *)
(* candidate search with the energy that is left, and the ranking by       *)
(* completion time with a bounded penalty for unfamiliar roads.            *)
(*                                                                         *)
(* The station state is the one view the search is pinned to; what may     *)
(* change between search and ranking is the subject of Recommendation.     *)
(***************************************************************************)
EXTENDS Candidates, Sequences

CONSTANTS
  Contexts,              \* telemetry a client may send
  Networks,              \* what routing may answer
  Operations,            \* operational state of the stations
  Delays,                \* delay factor of the traffic segment, or None
  Assessments,           \* what a familiarity evaluation may say of a route
  Steps,                 \* steps in which adherence and confidence are counted
  MissingQueueWait,      \* RankingPolicy.missing_queue_wait_s
  Number                 \* order of station identifiers

Grades == 0..Steps
FamiliarityAssessment == [personal : Grades \cup {None}, confidence : Grades,
                          community : Grades \cup {None}, communityConfidence : Grades]

(* What the request models and the routing client let through              *)
(* (api/v1/ranking.py, ranking/models.py, ranking/context.py).             *)
ASSUME InputAssumption ==
  /\ Contexts \subseteq Context
  /\ Networks \subseteq [Places \X Places -> Leg \cup {None}]
  /\ Operations \subseteq [Stations -> Row]
  /\ Delays \subseteq Nat \cup {None}

ASSUME RankingAssumption ==
  /\ Steps \in Nat \ {0}
  /\ Assessments \subseteq FamiliarityAssessment
  /\ MissingQueueWait \in Nat
  /\ Number \in [Stations -> Nat]
  /\ \A s, t \in Stations : Number[s] = Number[t] => s = t

Modes == {"NO_DESTINATION", "BEFORE_DESTINATION", "AFTER_DESTINATION"}
Far == 1000000           \* more than any time or distance of the instance

VARIABLES
  pc, reply,
  ctx, mode, network, rows,   \* the request and the world it meets
  live,                                \* energy_context: the request as detected
  request,                             \* the request that is searched for
  prefix,                              \* the leg driven before the search, or None
  candidates, assessed, delay, ranked

vars == <<pc, reply, ctx, mode, network, rows,
          live, request, prefix, candidates, assessed, delay, ranked>>

input == <<ctx, mode, network, rows>>

Init ==
  /\ pc = "demand" /\ reply = "NONE"
  /\ ctx \in Contexts /\ mode \in Modes
  /\ network \in Networks /\ rows \in Operations
  /\ live = None /\ request = None /\ prefix = None
  /\ candidates = <<>> /\ assessed = <<>> /\ delay = None /\ ranked = <<>>

Reject(status) == pc' = "done" /\ reply' = status
Goto(label) == pc' = label /\ UNCHANGED reply

-----------------------------------------------------------------------------
Unusable(r) == ~r.valid \/ r.reason \in {"MISSING_DATA", "INVALID_STATE"}

(* The energy request.  A request that needs a station needs a position,   *)
(* which the shared trace of the driver may fail to give.                  *)
Demand ==
  /\ pc = "demand"
  /\ live' = EnergyRequest(ctx)
  /\ request' = live'
  /\ \/ live'.need /\ ~Unusable(live') /\ Reject("LOCATION_UNAVAILABLE")
     \/ Goto(IF mode = "AFTER_DESTINATION" THEN "drive" ELSE "search")
  /\ UNCHANGED <<input, prefix, candidates, assessed, delay, ranked>>

-----------------------------------------------------------------------------
(* The destination must be in reach with the reserve of the trip.          *)
ReachesDestination(r, leg) ==
  /\ leg # None /\ r.range # None
  /\ Leq(Plus(Whole(leg.distance), IF r.reserve # None THEN r.reserve ELSE Zero), r.range)

MutatedArrived(r, leg) ==
  [r EXCEPT !.energy = Greater(Zero, Minus(Current(r, r.usable),
                                           Times(Whole(leg.distance), PerUnit(r)))),
            !.trip = Zero]

MutatedStillCharged(r, leg) == [r EXCEPT !.range = Minus(@, Whole(leg.distance)), !.trip = Zero]

(* The request as it is at the destination, where the search starts.       *)
Arrived(r, leg) ==
  LET left == Greater(Zero, Minus(Current(r, r.usable), Times(Whole(leg.distance), PerUnit(r))))
  IN [r EXCEPT !.energy = left,
               !.soc = Over(Times(Whole(100), left), r.usable),
               !.range = Minus(@, Whole(leg.distance)),
               !.trip = Zero]

Drive ==
  /\ pc = "drive"
  /\ LET leg == network[<<"origin", "destination">>] IN
     IF ~ReachesDestination(request, leg)
     THEN Reject("DESTINATION_ENERGY_INFEASIBLE") /\ UNCHANGED <<request, prefix>>
     ELSE IF ~BasisValid(request) \/ PerUnit(request) = Zero
     THEN Reject("REPLENISHMENT_UNAVAILABLE") /\ UNCHANGED <<request, prefix>>
     ELSE /\ prefix' = leg
          /\ request' = Arrived(request, leg)
          /\ Goto("search")
  /\ UNCHANGED <<input, live, candidates, assessed, delay, ranked>>

-----------------------------------------------------------------------------
From == IF mode = "AFTER_DESTINATION" THEN "destination" ELSE "origin"
To == IF mode = "BEFORE_DESTINATION" THEN "destination" ELSE None

Negative(v) == v # None /\ Less(v, Zero)

Refused(r) ==
  \/ \E v \in {r.soc, r.energy, r.range, r.trip, r.reserve} : Negative(v)
  \/ r.soc # None /\ Less(Whole(100), r.soc)
  \/ Unusable(r)

(* _search refuses what it cannot search for; the search itself tells a    *)
(* vehicle without a need from one that finds no candidate.                *)
Search ==
  /\ pc = "search"
  /\ IF Refused(request)
     THEN Reject("INVALID_ENERGY_REQUEST") /\ UNCHANGED candidates
     ELSE /\ candidates' = Candidates(request, network, From, To, rows)
          /\ Goto("rank")
  /\ UNCHANGED <<input, live, request, prefix, assessed, delay, ranked>>

-----------------------------------------------------------------------------
(* build_features: the traffic at the start of the journey delays the      *)
(* first leg; nobody's report of a queue is a long one.                    *)
Delayed(seconds, factor) == Whole(seconds * (IF factor = None THEN 1 ELSE factor))

Travel(verdict, factor) ==
  IF prefix = None THEN Delayed(verdict.metrics.duration, factor)
  ELSE Plus(Delayed(prefix.duration, factor), Whole(verdict.metrics.duration))

Start(verdict, factor) ==
  Plus(Travel(verdict, factor), Given(verdict.op.wait, Whole(MissingQueueWait)))

(* total: the journey to its end, or to the end of the service.            *)
Total(verdict, factor) ==
  Plus(Plus(Start(verdict, factor), verdict.estimate.duration),
       IF verdict.metrics.onward # None THEN Whole(verdict.metrics.onward.duration) ELSE Zero)

Least(S) == CHOOSE a \in S : \A b \in S : Leq(a, b)
Most(S) == CHOOSE a \in S : \A b \in S : Leq(b, a)

MutatedReference(totals) == Greater(Whole(1), Most(totals))

(* The time the weights 80:10:10 refer to.                                 *)
Reference(totals) == Greater(Whole(1), Least(totals))

Share(adherence, confidence) ==
  IF adherence = None THEN Zero ELSE Q((Steps - adherence) * confidence, 10 * Steps * Steps)

Penalty(a, reference) ==
  Times(Plus(Share(a.personal, a.confidence), Share(a.community, a.communityConfidence)),
        Times(Q(10, 8), reference))

Milliseconds(a) == Nearest(Times(Whole(1000), a))
OrFar(v) == IF v = None THEN Far ELSE v

Cost(c, reference, assessment, factor) ==
  Plus(Total(candidates[c], factor), Penalty(assessment, reference))

(* The sort key of rank_features, but for the age of the snapshot.         *)
Key(c, reference, assessment, factor) ==
  LET v == candidates[c] IN
  << Milliseconds(Cost(c, reference, assessment, factor)),
     Milliseconds(Start(v, factor)),
     OrFar(v.metrics.detourDuration), OrFar(v.metrics.detourDistance),
     -v.op.capacity, Number[c.station], IF c.service = "BATTERY_SWAP" THEN 0 ELSE 1 >>

Before(k, l) == \E i \in DOMAIN k : k[i] < l[i] /\ \A j \in 1..(i - 1) : k[j] = l[j]

(* sorted(features, key=order): the i-th has i - 1 before it.              *)
Sorted(S, keys) ==
  [i \in 1..Cardinality(S) |->
     CHOOSE c \in S : Cardinality({d \in S : Before(keys[d], keys[c])}) = i - 1]

Totals(factor) == {Total(candidates[c], factor) : c \in EligiblePairs(candidates)}

Ranking(factor, a) ==
  IF EligiblePairs(candidates) = {} THEN <<>>
  ELSE LET reference == Reference(Totals(factor))
       IN  Sorted(EligiblePairs(candidates),
                  [c \in EligiblePairs(candidates) |-> Key(c, reference, a[c], factor)])

Rank ==
  /\ pc = "rank"
  /\ \E factor \in Delays, a \in [EligiblePairs(candidates) -> Assessments] :
       delay' = factor /\ assessed' = a /\ ranked' = Ranking(factor, a)
  /\ Reject(IF ranked' = <<>> THEN "NO_ELIGIBLE_CANDIDATES" ELSE "RANKED_ELIGIBLE_CANDIDATES")
  /\ UNCHANGED <<input, live, request, prefix, candidates>>

Next == Demand \/ Drive \/ Search \/ Rank

Spec == Init /\ [][Next]_vars

-----------------------------------------------------------------------------
(* Properties.                                                             *)

(* Every contract of the answer is kept: a request satisfies the           *)
(* invariants of its model, and what an estimate says of the battery lies  *)
(* between empty and full (the bounds of ReplenishmentEstimate, which      *)
(* would refuse it): the service takes nothing out of it.                  *)
TypeOK ==
  /\ pc \in {"demand", "drive", "search", "rank", "done"}
  /\ live \in EnergyServiceRequest \cup {None} /\ request \in EnergyServiceRequest \cup {None}
  /\ live # None => SemanticInvariants(live)
  /\ request # None => SemanticInvariants(request)
  /\ DOMAIN candidates \subseteq Pairs
  /\ \A c \in DOMAIN candidates : candidates[c] \in EvaluatedCandidate
  /\ \A c \in EligiblePairs(candidates) :
       LET e == candidates[c].estimate
       IN  /\ e.status = "AVAILABLE"
           /\ Leq(Zero, e.arrival) /\ Leq(e.departure, request.usable)
           /\ c.service = "CHARGING" => Leq(e.arrival, e.departure)

(* The way to a candidate: the leg to the destination, if it is driven     *)
(* first, and the leg to the station.                                      *)
Way(c) == (IF prefix = None THEN 0 ELSE prefix.distance) + candidates[c].metrics.distance
Half == Q(1, 2)

(* A candidate can be driven to on what is in the battery now: the way     *)
(* stays within the range the telemetry gives, half a kilometre kept,      *)
(* although every stage compares a range rounded at detection and          *)
(* shortened on the way (energy_feasibility.py): half a unit of rounding   *)
(* is all that is lost.                                                    *)
ReachableNow ==
  \A c \in EligiblePairs(candidates) :
    Leq(Plus(Q(Km, 2), Whole(Way(c))),
        Plus(RangeLeft(ctx, UsableCapacity(ctx.vehicle)), Half))

(* The energy adds up over the stages (api/v1/ranking.py recommend,        *)
(* replenishment.py energy_basis): what an estimate finds in the battery   *)
(* at a station is what the telemetry gives less what the whole way takes  *)
(* at the consumption of the request, to half a watt-hour of rounding:     *)
(* nothing is forgotten at the destination nor taken off twice.            *)
EnergyBalanced ==
  \A c \in EligiblePairs(candidates) :
    LET had == EnergyLeft(ctx, UsableCapacity(ctx.vehicle))
        accounted == Plus(candidates[c].estimate.arrival, Times(Whole(Way(c)), PerUnit(live)))
    IN  Leq(had, Plus(accounted, Half)) /\ Leq(accounted, Plus(had, Half))

(* A station on the way lets the vehicle reach its destination and keep    *)
(* the reserve that was stated or that the policy asks of the trip, to     *)
(* half a unit of rounding (replenishment.py estimate_replenishment).      *)
(* Where no way follows, in the other modes, it leaves with the charge     *)
(* configured for its service.  No more is promised: the charge at         *)
(* departure may still be below the one LOW_SOC warns at.                  *)
ArrivesWithReserve ==
  \A c \in EligiblePairs(candidates) :
    LET departure == candidates[c].estimate.departure
        onward == candidates[c].metrics.onward
        configured == IF c.service = "CHARGING" THEN NoDestinationPct ELSE SwapPct
    IN  IF To = None
        THEN Leq(Percent(configured, live.usable), departure)
        ELSE Leq(Times(Plus(Whole(onward.distance), Reserve(ctx)), PerUnit(live)),
                 Plus(departure, Times(Half, PerUnit(live))))

(* The whole decision for a request in the same world: the pairs it may be *)
(* offered, with the estimate of each.                                     *)
Offers(r) ==
  LET leg == network[<<"origin", "destination">>]
      driven == mode = "AFTER_DESTINATION"
      possible == ~driven \/ (ReachesDestination(r, leg) /\ BasisValid(r) /\ PerUnit(r) # Zero)
      q == IF driven THEN Arrived(r, leg) ELSE r
  IN IF ~possible \/ Refused(q) THEN <<>> ELSE Candidates(q, network, From, To, rows)

Charges == {telemetry.soc : telemetry \in Contexts} \ {None}

NoWorse(offers) ==
  \A c \in EligiblePairs(candidates) :
    /\ c \in EligiblePairs(offers)
    /\ Leq(offers[c].estimate.duration, candidates[c].estimate.duration)

(* More charge never takes a station away from the driver, nor makes the   *)
(* service there longer: where only the state of charge differs, whatever  *)
(* is offered at the lower one is offered at the higher one.               *)
ChargeNeverHurts ==
  pc = "rank" /\ ctx.soc # None /\ ctx.energy = None /\ ctx.range = None =>
    \A more \in Charges :
      more > ctx.soc /\ more <= 100 =>
        LET better == EnergyRequest([ctx EXCEPT !.soc = more])
        IN  better.need => NoWorse(Offers(better))

(* Familiarity is bounded: the recommended journey takes at most a quarter *)
(* more than the fastest one (and a millisecond of rounding), whatever the *)
(* assessments say.                                                        *)
BoundedDetour ==
  ranked # <<>> =>
    Leq(Total(candidates[ranked[1]], delay),
        Plus(Plus(Least(Totals(delay)), Q(1, 1000)),
             Times(Q(1, 4), Greater(Whole(1), Least(Totals(delay))))))
=============================================================================
