--------------------------- MODULE Recommendation ---------------------------
(***************************************************************************)
(* Recommendation and station plan (services/ranking/orchestration.py,     *)
(* ranking/service.py, ranking/context.py, candidate/eligibility.py,       *)
(* api/v1/ranking.py) over a snapshot store that keeps moving.             *)
(*                                                                         *)
(* A request pins a view, searches candidates, saves the search as its     *)
(* evidence, pins a second view for ranking, and gives up the search if a  *)
(* candidate has been invalidated in between.  A plan confirms the chosen  *)
(* pair in a third view, of the wall clock.  The store is StateStore, which *)
(* Snapshots implements.                                                   *)
(***************************************************************************)
EXTENDS StateStore

CONSTANTS
  Stations, StationKey, QueueKey,  \* the catalog and its snapshot keys
  Feasible,        \* pairs reachable, compatible and within the energy
  MaxWait,         \* CANDIDATE_MAX_WAIT_MIN (90 in the code)
  NoPair,          \* nothing selected: a recommendation, not a plan
  MaxRequests      \* bound: requests in a behaviour

Services == {"CHARGING", "BATTERY_SWAP"}
Pairs == [station : Stations, service : Services]

ASSUME RecommendationAssumption ==
  /\ Feasible \subseteq Pairs /\ NoPair \notin Pairs
  /\ StationKey \in [Stations -> Keys] /\ QueueKey \in [Stations -> Keys]
  /\ MaxWait \in Nat /\ MaxRequests \in Nat

VARIABLES
  pc, reply,
  time,        \* the request's time
  selected,    \* the pair to plan for
  attempt,     \* searches made for this request
  evidence,    \* the view of the search, saved with it
  candidates,  \* its eligible pairs
  requests

vars == <<rows, view, pc, reply, time, selected, attempt, evidence, candidates, requests>>

Start ==
  /\ Init
  /\ pc = [r \in Readers |-> "idle"]
  /\ reply = [r \in Readers |-> "NONE"]
  /\ time = [r \in Readers |-> 0]
  /\ selected = [r \in Readers |-> NoPair]
  /\ attempt = [r \in Readers |-> 0]
  /\ evidence = [r \in Readers |-> NoView]
  /\ candidates = [r \in Readers |-> {}]
  /\ requests = 0

-----------------------------------------------------------------------------
(* The operational state of a pair in a view (operational_snapshot).       *)

Station(v, c) == v[StationKey[c.station]]
Queue(v, c) == v[QueueKey[c.station]]

Available(v) == \A s \in Stations : v[StationKey[s]] # NoSnap

Offline(v, c) == Station(v, c).body.status # "OPEN"
Slots(v, c) == Station(v, c).body.slots[c.service]
NoBattery(v, c) ==
  c.service = "BATTERY_SWAP" /\ Slots(v, c) > 0 /\ Station(v, c).body.batteries = 0
Full(v, c) ==
  Slots(v, c) = 0 \/ (c.service = "BATTERY_SWAP" /\ Station(v, c).body.batteries = 0)

(* A queue nobody reports is not an excessive one.                         *)
ExcessiveQueue(v, c) ==
  Queue(v, c) # NoSnap /\ Queue(v, c).body.wait[c.service] > MaxWait

(* The snapshot-dependent part of evaluate_candidate_eligibility.          *)
Eligible(v, c) ==
  ~Offline(v, c) /\ ~NoBattery(v, c) /\ ~Full(v, c) /\ ~ExcessiveQueue(v, c)

MutatedInvalidated(old, new, c) ==
  \/ /\ Station(old, c) # Station(new, c)
     /\ Offline(new, c) \/ NoBattery(new, c) \/ Full(new, c)
  \/ /\ Station(old, c) # Station(new, c)
     /\ Queue(old, c) # Queue(new, c)
     /\ ExcessiveQueue(new, c)

MutatedInvalidatedByAny(old, new, c) ==
  Station(old, c) # Station(new, c) \/ Queue(old, c) # Queue(new, c)

(* build_features: only a version that changed is looked at again.         *)
Invalidated(old, new, c) ==
  \/ /\ Station(old, c) # Station(new, c)
     /\ Offline(new, c) \/ NoBattery(new, c) \/ Full(new, c)
  \/ /\ Queue(old, c) # Queue(new, c)
     /\ ExcessiveQueue(new, c)

Answer(r, answer) ==
  /\ pc' = [pc EXCEPT ![r] = "idle"]
  /\ reply' = [reply EXCEPT ![r] = answer]

Goto(r, label) == pc' = [pc EXCEPT ![r] = label] /\ UNCHANGED reply

-----------------------------------------------------------------------------
Report(b) ==
  /\ Commit(b)
  /\ UNCHANGED <<pc, reply, time, selected, attempt, evidence, candidates, requests>>

Request(r, t, c) ==
  /\ pc[r] = "idle"
  /\ requests < MaxRequests
  /\ requests' = requests + 1
  /\ time' = [time EXCEPT ![r] = t]
  /\ selected' = [selected EXCEPT ![r] = c]
  /\ attempt' = [attempt EXCEPT ![r] = 0]
  /\ Goto(r, "search")
  /\ UNCHANGED <<rows, view, evidence, candidates>>

(* _pinned_search, up to the routing calls.                                *)
Search(r) ==
  /\ pc[r] = "search"
  /\ Pin(r, time[r])
  /\ attempt' = [attempt EXCEPT ![r] = @ + 1]
  /\ IF Available(view'[r]) THEN Goto(r, "save") ELSE Answer(r, "UNAVAILABLE")
  /\ UNCHANGED <<time, selected, evidence, candidates, requests>>

(* The routes are known: the pairs are evaluated in the pinned view, and   *)
(* the search is saved with the versions it used.                          *)
Save(r) ==
  /\ pc[r] = "save"
  /\ evidence' = [evidence EXCEPT ![r] = view[r]]
  /\ candidates' = [candidates EXCEPT ![r] = {c \in Feasible : Eligible(view[r], c)}]
  /\ Goto(r, "rank")
  /\ UNCHANGED <<rows, view, time, selected, attempt, requests>>

(* Routing, or the database, fails.                                        *)
Fail(r) ==
  /\ pc[r] # "idle"
  /\ Answer(r, "UNAVAILABLE")
  /\ UNCHANGED <<rows, view, time, selected, attempt, evidence, candidates, requests>>

Ranked(r) ==
  IF selected[r] = NoPair THEN Answer(r, "RECOMMENDED")
  ELSE IF selected[r] \in candidates[r] THEN Goto(r, "confirm")
  ELSE Answer(r, "NOT_ELIGIBLE")

(* RankingService.recommend, and the one retry of the workflow.            *)
Rank(r) ==
  /\ pc[r] = "rank"
  /\ Pin(r, time[r])
  /\ IF \E c \in candidates[r] : Invalidated(evidence[r], view'[r], c)
     THEN IF attempt[r] = 1 THEN Goto(r, "search") ELSE Answer(r, "CONFLICT")
     ELSE Ranked(r)
  /\ UNCHANGED <<time, selected, attempt, evidence, candidates, requests>>

MutatedConfirm(r, now) ==
  /\ pc[r] = "confirm"
  /\ now >= time[r]
  /\ Pin(r, now)
  /\ Answer(r, "CONFIRMED")
  /\ UNCHANGED <<time, selected, attempt, evidence, candidates, requests>>

(* station_plan: after the selected route is drawn, at the server's time;  *)
(* a request from the future of that clock is refused.                     *)
Confirm(r, now) ==
  /\ pc[r] = "confirm"
  /\ \/ now < time[r] /\ Answer(r, "INVALID") /\ UNCHANGED <<rows, view>>
     \/ /\ now >= time[r]
        /\ Pin(r, now)
        /\ IF Invalidated(evidence[r], view'[r], selected[r])
           THEN Answer(r, "CONFLICT") ELSE Answer(r, "CONFIRMED")
  /\ UNCHANGED <<time, selected, attempt, evidence, candidates, requests>>

Step ==
  \/ \E b \in Batches : Report(b)
  \/ \E r \in Readers :
       \/ \E t \in Times, c \in Pairs \cup {NoPair} : Request(r, t, c)
       \/ Search(r) \/ Save(r) \/ Rank(r) \/ Fail(r)
       \/ \E now \in Times : Confirm(r, now)

RecommendationSpec == Start /\ [][Step]_vars

-----------------------------------------------------------------------------
TypeOK ==
  /\ rows \subseteq Snapshot /\ Consistent(rows)
  /\ view \in [Readers -> View]
  /\ pc \in [Readers -> {"idle", "search", "save", "rank", "confirm"}]
  /\ reply \in [Readers -> {"NONE", "UNAVAILABLE", "RECOMMENDED", "NOT_ELIGIBLE",
                            "CONFLICT", "INVALID", "CONFIRMED"}]
  /\ time \in [Readers -> Nat]
  /\ selected \in [Readers -> Pairs \cup {NoPair}]
  /\ attempt \in [Readers -> 0..2]
  /\ evidence \in [Readers -> View]
  /\ candidates \in [Readers -> SUBSET Feasible]
  /\ requests \in Nat

(* The versions that changed are all that ranking checks again, yet every  *)
(* pair it ranks is eligible in the view it ranks with: "Ranking must      *)
(* neither rerun eligibility nor drop invalidated candidates and proceed"  *)
(* (DECISIONS.md:34).                                                      *)
RankedEligible ==
  \A r \in Readers :
    pc[r] = "idle" /\ reply[r] = "RECOMMENDED" =>
      candidates[r] = {c \in Feasible : Eligible(evidence[r], c)}
        /\ \A c \in candidates[r] : Eligible(view[r], c)

(* A confirmed plan goes to a pair that is eligible by the server's clock, *)
(* through three views and whatever was reported meanwhile.                *)
ConfirmedEligible ==
  \A r \in Readers :
    pc[r] = "idle" /\ reply[r] = "CONFIRMED" =>
      selected[r] \in Feasible /\ Eligible(view[r], selected[r])

(* A search is only given up for a pair that was eligible and is not any   *)
(* more: "queue changes below the existing eligibility limit ... are       *)
(* ranking context" (DECISIONS.md:37).                                     *)
ConflictIsReal ==
  [][\A r \in Readers :
       \/ pc[r] = "rank" /\ pc'[r] = "search"
       \/ pc[r] \in {"rank", "confirm"} /\ pc'[r] = "idle" /\ reply'[r] = "CONFLICT"
       => \E c \in candidates[r] :
            Eligible(evidence[r], c) /\ ~Eligible(view'[r], c)]_vars

(* The views of a request only move forward: a head is never replaced by   *)
(* an older version, nor lost, although sources report late.               *)
ViewsAdvance ==
  \A r \in Readers :
    pc[r] = "confirm" \/ (pc[r] = "idle" /\ reply[r] \in {"RECOMMENDED", "CONFIRMED"}) =>
    \A k \in Keys : evidence[r][k] # NoSnap =>
      view[r][k] # NoSnap /\ view[r][k].time >= evidence[r][k].time
=============================================================================
