---------------------------- MODULE DriverTrace ----------------------------
(***************************************************************************)
(* The trace state of one driver: the value kept under the Redis key       *)
(* driver_state:<driver> and the pure operations on it (class              *)
(* DriverTraceState, services/realtime/state.py, and the trigger policy).  *)
(* There are no variables here: DriverRegister and DriverIngest apply      *)
(* these operators to a stored trace.                                      *)
(*                                                                         *)
(* Timestamps are positive numbers and 0 stands for None.  A place is an   *)
(* abstract position; Distance stands for the haversine formula.  Counters *)
(* that no decision reads (observations_since_match, total_match_calls)    *)
(* and the wording of trigger reasons are left out.                        *)
(***************************************************************************)
EXTENDS Integers, Sequences, FiniteSets

CONSTANTS
  Ids, Places,          \* observation identifiers and positions
  Observations,         \* the GPS observations clients may send
  NoObs,                \* "no matched state"
  Distance,             \* Distance[p, q]: metres between two places
  WarmUp,               \* observations needed before matching (3 in the code)
  MaxBuffer,            \* MAX_OBSERVATIONS_PER_DRIVER
  MaxDedup,             \* MAX_DEDUP_ENTRIES
  GapThreshold,         \* DEFAULT_GAP_THRESHOLD_SECONDS
  Window, MaxContext,   \* DEFAULT_CONTEXT_WINDOW_SECONDS, ..._MAX_CONTEXT_POINTS
  StationaryDistance, StationaryThreshold,
  ElapsedThreshold, MoveThreshold    \* HybridTrigger(elapsed, distance)

(* What a driver sends: identifier, time and place (speed, heading and     *)
(* accuracy are kept beside them and decide nothing here).                 *)
GPSObservation == [id : Ids, ts : Nat \ {0}, place : Places]

ASSUME ObservationsAssumption ==
  /\ Observations \subseteq GPSObservation
  /\ NoObs \notin Observations

ASSUME DistanceAssumption == Distance \in [Places \X Places -> Nat]

ASSUME ThresholdsAssumption ==
  /\ WarmUp \in Nat /\ MaxDedup \in Nat /\ GapThreshold \in Nat /\ Window \in Nat
  /\ MaxBuffer \in Nat \ {0} /\ MaxContext \in Nat \ {0}
  /\ StationaryDistance \in Nat /\ StationaryThreshold \in Nat
  /\ ElapsedThreshold \in Nat /\ MoveThreshold \in Nat

-----------------------------------------------------------------------------
Statuses == {"WARMING_UP", "GPS_ACCEPTED", "MATCHED", "NO_MATCH", "ENGINE_UNAVAILABLE"}

Trace == [gen        : Nat \ {0},
          obs        : Seq(Observations),
          matchTime  : Nat,
          matched    : Observations \cup {NoObs},
          movement   : Nat,
          lastTs     : Nat,
          stationary : Nat,
          received   : Nat,
          seen       : SUBSET Observations,
          status     : Statuses]

(* DriverTraceState(driver_id): what a missing key is read as.             *)
Fresh(g) == [gen |-> g, obs |-> <<>>, matchTime |-> 0, matched |-> NoObs,
             movement |-> 0, lastTs |-> 0, stationary |-> 0, received |-> 0,
             seen |-> {}, status |-> "WARMING_UP"]

Newest(t) == t.obs[Len(t.obs)]

(* The newest buffered observation carries the last timestamp.             *)
NewestIsLast(t) == t.obs # <<>> => Newest(t).ts = t.lastTs

-----------------------------------------------------------------------------
(* Accepting an observation.  An operator named Mutated... is a variant    *)
(* with a plausible bug: it shows that a property depends on the operator  *)
(* that follows it.                                                        *)

MutatedStale(t, o) == t.matchTime # 0 /\ o.ts < t.matchTime

(* The observation is older than the newest accepted one (equal is kept).  *)
Stale(t, o) == t.lastTs # 0 /\ o.ts < t.lastTs

(* seen_observation_ids and seen_payloads are one set of observations: an  *)
(* identifier and the payload it was first seen with.                      *)
Duplicate(t, o)   == \E s \in t.seen : s.id = o.id
Conflicting(t, o) == \E s \in t.seen : s.id = o.id /\ s # o

MutatedAfterGap(t, o) ==
  IF t.lastTs # 0 /\ o.ts - t.lastTs > GapThreshold
  THEN [t EXCEPT !.matchTime = 0, !.matched = NoObs, !.stationary = 0]
  ELSE t

(* A gap clears the window and the match but keeps movement_since_match.   *)
AfterGap(t, o) ==
  IF t.lastTs # 0 /\ o.ts - t.lastTs > GapThreshold
  THEN [t EXCEPT !.obs = <<>>, !.matchTime = 0, !.matched = NoObs, !.stationary = 0]
  ELSE t

Moved(t, o) ==
  IF t.obs = <<>> THEN t
  ELSE LET d == Distance[Newest(t).place, o.place]
       IN  [t EXCEPT !.movement = @ + d,
                     !.stationary = IF d < StationaryDistance THEN @ + 1 ELSE 0]

(* deque(maxlen=MAX_OBSERVATIONS_PER_DRIVER).append                        *)
Push(buffer, o) == Append(IF Len(buffer) = MaxBuffer THEN Tail(buffer) ELSE buffer, o)

(* _cleanup_dedup: over the limit, set.pop() drops arbitrary identifiers   *)
(* until half of the limit is left.                                        *)
CleanedUp(seen) ==
  IF Cardinality(seen) > MaxDedup
  THEN {kept \in SUBSET seen : Cardinality(kept) = MaxDedup \div 2}
  ELSE {seen}

MutatedAddResults(t, o) ==
  LET u == Moved(AfterGap(t, o), o)
  IN  {[u EXCEPT !.obs = Push(u.obs, o), !.seen = kept, !.lastTs = o.ts, !.received = @ + 1]
         : kept \in CleanedUp(u.seen \cup {o})}

(* The traces add_observation may leave (several only when cleanup runs).  *)
AddResults(t, o) ==
  IF Duplicate(t, o) THEN {t}
  ELSE LET u == Moved(AfterGap(t, o), o)
       IN  {[u EXCEPT !.obs = Push(u.obs, o), !.seen = kept,
                      !.lastTs = o.ts, !.received = @ + 1]
              : kept \in CleanedUp(u.seen \cup {o})}

-----------------------------------------------------------------------------
(* Deciding whether to match, and matching.                                *)

WarmingUp(t) == Len(t.obs) < WarmUp

StationarySuppressed(t) == t.stationary >= StationaryThreshold /\ t.matched # NoObs

(* HybridTrigger: time since the last match, or movement since it.         *)
Triggered(t, o) ==
  \/ t.matchTime # 0 /\ o.ts - t.matchTime >= ElapsedThreshold
  \/ t.movement >= MoveThreshold

(* get_context, as the positions of its observations in the buffer: the    *)
(* last MaxContext of those inside the window.                             *)
Recent(t)  == {i \in DOMAIN t.obs : t.obs[i].ts >= t.lastTs - Window}
Context(t) == {i \in Recent(t) : Cardinality({j \in Recent(t) : j > i}) < MaxContext}

MutatedLatest(t) == t.obs[CHOOSE i \in Context(t) : \A j \in Context(t) : i <= j]

(* The observation a match is read off: the last one of the context.       *)
Latest(t) == t.obs[CHOOSE i \in Context(t) : \A j \in Context(t) : j <= i]

WithStatus(t, s) == [t EXCEPT !.status = s]

(* reset_after_match, with the status the endpoint sets beside it.         *)
WithMatch(t, o) == [t EXCEPT !.matchTime = t.lastTs, !.movement = 0,
                             !.matched = o, !.status = "MATCHED"]

-----------------------------------------------------------------------------
(* The time of the location a request of time "when" starts from: that of  *)
(* the match, or else of the newest raw observation, never of the future;  *)
(* 0 if there is none (services/realtime/location.py).                     *)
LocatedTime(t, when) ==
  IF t.matched # NoObs /\ t.matchTime # 0 /\ t.matchTime <= when THEN t.matchTime
  ELSE IF t.obs # <<>> /\ Newest(t).ts <= when THEN Newest(t).ts
  ELSE 0
=============================================================================
