------------------------- MODULE DriverScreenProofs -------------------------
(***************************************************************************)
(* Proofs about DriverScreen: its type invariant, that a locked navigation *)
(* has its plan, that estimates are current and that only the driver's     *)
(* choice locks, for any stations, destinations and number of handlers.    *)
(***************************************************************************)
EXTENDS DriverScreen, FiniteSetTheorems, TLAPS

-----------------------------------------------------------------------------
(* What is true of a handler that waits.                                   *)

RequestKinds == {"assign", "custom", "select", "reroute", "power", "evaluation", "drawer"}

(* A request knows where it leads, and the counters that an estimate       *)
(* compares include one that every input moves.                            *)
OpOK(o) ==
  /\ o.kind \in {"assign", "custom"} => o.dest \in Dests
  /\ o.kind = "reroute" => o.dest # NoDest
  /\ o.kind = "select" => o.plan \in Plans /\ o.station = o.plan.station
  /\ o.kind \in {"evaluation", "drawer"} /\ "_powerRevision" \in o.valid => "input" \in o.valid

(* A request of this generation still finds the trip it is for, and the    *)
(* passenger of the plan it confirms.                                      *)
Grounded(o, aTrip, aDest) ==
  "generation" \in o.valid =>
    /\ o.kind = "assign" => aTrip # NoTrip
    /\ o.kind = "select" /\ o.plan.stops = <<"STATION", "PASSENGER">> => aDest # NoDest

Sound(table, aTrip, aDest) ==
  /\ table \in [Slots -> Ops]
  /\ \A s \in Slots : OpOK(table[s]) /\ Grounded(table[s], aTrip, aDest)

OneEvaluation(table, flag) == Cardinality(Evaluations(table)) = IF flag THEN 1 ELSE 0

(* What Bump does to a table.                                              *)
Bumped(bumped, table, c) ==
  /\ bumped \in [Slots -> Ops]
  /\ \A s \in Slots :
       /\ bumped[s].valid = IF "generation" \in c THEN {} ELSE table[s].valid \ c
       /\ bumped[s].kind = table[s].kind
       /\ bumped[s].dest = table[s].dest
       /\ bumped[s].plan = table[s].plan
       /\ bumped[s].mode = table[s].mode
       /\ bumped[s].refresh = table[s].refresh
       /\ bumped[s].locked = table[s].locked
       /\ bumped[s].station = table[s].station
       /\ bumped[s].then = table[s].then

LEMMA BumpFields ==
  ASSUME NEW table \in [Slots -> Ops], NEW c \in SUBSET Counters
  PROVE  Bumped(Bump(c, table), table, c)
<1>1. ASSUME NEW s \in Slots
      PROVE  [table[s] EXCEPT !.valid = IF "generation" \in c THEN {} ELSE @ \ c] \in Ops
  <2>1. table[s] \in Ops /\ table[s].valid \in SUBSET Counters
    BY DEF Ops
  <2>2. (IF "generation" \in c THEN {} ELSE table[s].valid \ c) \in SUBSET Counters
    BY <2>1
  <2> QED BY <2>1, <2>2 DEF Ops
<1>2. Bump(c, table) \in [Slots -> Ops]
  BY <1>1 DEF Bump
<1>3. ASSUME NEW s \in Slots
      PROVE  Bump(c, table)[s] = [table[s] EXCEPT !.valid = IF "generation" \in c THEN {} ELSE @ \ c]
  BY DEF Bump
<1>4. \A s \in Slots : table[s] \in Ops
  OBVIOUS
<1> QED BY <1>2, <1>3, <1>4 DEF Ops, Bumped

LEMMA BumpSound ==
  ASSUME NEW table, NEW c \in SUBSET Counters, NEW t1, NEW t2, NEW d1, NEW d2,
         Sound(table, t1, d1),
         "input" \in c => "_powerRevision" \in c,
         "generation" \in c \/ ((t1 # NoTrip => t2 # NoTrip) /\ (d1 # NoDest => d2 # NoDest))
  PROVE  Sound(Bump(c, table), t2, d2) /\ Evaluations(Bump(c, table)) = Evaluations(table)
<1> DEFINE bumped == Bump(c, table)
<1>1. table \in [Slots -> Ops]
  BY DEF Sound
<1>2. Bumped(bumped, table, c)
  BY <1>1, BumpFields
<1> HIDE DEF bumped
<1>3. Evaluations(bumped) = Evaluations(table)
  BY <1>2 DEF Evaluations, Bumped
<1>4. ASSUME NEW s \in Slots PROVE OpOK(bumped[s]) /\ Grounded(bumped[s], t2, d2)
  <2>1. OpOK(table[s]) /\ Grounded(table[s], t1, d1)
    BY DEF Sound
  <2>2. OpOK(bumped[s])
    BY <1>2, <2>1 DEF OpOK, Bumped
  <2>3. Grounded(bumped[s], t2, d2)
    BY <1>2, <2>1 DEF Grounded, Bumped
  <2> QED BY <2>2, <2>3
<1>5. Sound(bumped, t2, d2)
  BY <1>2, <1>4 DEF Sound, Bumped
<1> QED BY <1>3, <1>5 DEF bumped

(* Nothing moves, and nothing is lost.                                     *)
LEMMA StaySound ==
  ASSUME NEW table, NEW t1, NEW t2, NEW d1, NEW d2, Sound(table, t1, d1),
         t1 # NoTrip => t2 # NoTrip, d1 # NoDest => d2 # NoDest
  PROVE  Sound(table, t2, d2)
BY DEF Sound, Grounded

LEMMA IdleOps ==
  /\ Idle \in Ops /\ Idle.kind = "idle" /\ Idle.valid = {} /\ Idle.dest = NoDest
  /\ Idle.plan = NoPlan /\ Idle.mode = "BEFORE" /\ Idle.refresh = FALSE
  /\ Idle.locked = FALSE /\ Idle.station = NoStation /\ Idle.then = "none"
BY DEF Idle, Ops, Kinds, Modes, Continuations

LEMMA SendFields ==
  ASSUME NEW o \in Ops, o.kind \in RequestKinds
  PROVE  /\ [o EXCEPT !.valid = Remembered(o)] \in Ops
         /\ [o EXCEPT !.valid = Remembered(o)].kind = o.kind
         /\ [o EXCEPT !.valid = Remembered(o)].dest = o.dest
         /\ [o EXCEPT !.valid = Remembered(o)].plan = o.plan
         /\ [o EXCEPT !.valid = Remembered(o)].station = o.station
         /\ [o EXCEPT !.valid = Remembered(o)].valid = Remembered(o)
<1>1. Remembered(o) \in SUBSET Counters /\ "generation" \in Remembered(o)
  BY DEF Remembered, RequestKinds, Counters
<1> QED BY <1>1 DEF Ops

(* What a handler may send.                                                *)
Sendable(o, aTrip, aDest) ==
  /\ o \in Ops /\ o.kind \in RequestKinds
  /\ o.kind \in {"assign", "custom"} => o.dest \in Dests
  /\ o.kind = "reroute" => o.dest # NoDest
  /\ o.kind = "select" => o.plan \in Plans /\ o.station = o.plan.station
  /\ o.kind = "assign" => aTrip # NoTrip
  /\ o.kind = "select" /\ o.plan.stops = <<"STATION", "PASSENGER">> => aDest # NoDest

(* Only slot r changes, to the kind k.                                     *)
Differs(new, old, r, k) ==
  \A s \in Slots : (s = r => new[s].kind = k) /\ (s # r => new[s].kind = old[s].kind)

LEMMA SendSound ==
  ASSUME NEW table, NEW t, NEW d, NEW r, NEW o, Sound(table, t, d), Sendable(o, t, d)
  PROVE  /\ Sound(Send(r, table, o), t, d)
         /\ Differs(Send(r, table, o), table, r, o.kind)
<1> DEFINE p == [o EXCEPT !.valid = Remembered(o)]
<1>1. /\ p \in Ops /\ p.kind = o.kind /\ p.dest = o.dest /\ p.plan = o.plan
      /\ p.station = o.station /\ p.valid = Remembered(o)
  BY SendFields DEF Sendable
<1>2. o.kind \in {"evaluation", "drawer"} => "input" \in Remembered(o)
  BY DEF Remembered
<1>3. OpOK(p)
  BY <1>1, <1>2 DEF OpOK, Sendable
<1>4. Grounded(p, t, d)
  BY <1>1 DEF Grounded, Sendable
<1>5. Send(r, table, o) = [table EXCEPT ![r] = p]
  BY DEF Send
<1> HIDE DEF p
<1>6. /\ Sound([table EXCEPT ![r] = p], t, d)
      /\ \A s \in Slots : [table EXCEPT ![r] = p][s] = IF s = r THEN p ELSE table[s]
  BY <1>1, <1>3, <1>4 DEF Sound
<1> QED BY <1>1, <1>5, <1>6 DEF Differs

LEMMA ResumptionOps ==
  ASSUME NEW then \in Continuations, NEW valid \in SUBSET Counters,
         NEW station \in Stations \cup {NoStation}, NEW t, NEW d
  PROVE  /\ Resumption(then, valid, station) \in Ops
         /\ Resumption(then, valid, station).kind \in {"idle", "resume"}
         /\ OpOK(Resumption(then, valid, station))
         /\ Grounded(Resumption(then, valid, station), t, d)
<1> DEFINE p == Resumption(then, valid, station)
<1>1. CASE then = "none"
  <2>1. p = Idle
    BY <1>1 DEF Resumption
  <2> HIDE DEF p
  <2>2. p \in Ops /\ p.kind = "idle"
    BY <2>1, IdleOps
  <2> QED BY <2>2 DEF OpOK, Grounded, p
<1>2. CASE then # "none"
  <2>1. p = [Idle EXCEPT !.kind = "resume", !.then = then, !.valid = valid \cap Fresh(then),
               !.station = station]
    BY <1>2 DEF Resumption
  <2> HIDE DEF p
  <2>2. valid \cap Fresh(then) \in SUBSET Counters
    OBVIOUS
  <2>3. p \in Ops /\ p.kind = "resume"
    BY <2>1, <2>2, IdleOps DEF Ops, Kinds
  <2> QED BY <2>3 DEF OpOK, Grounded, p
<1> QED BY <1>1, <1>2

-----------------------------------------------------------------------------
(* Free slots, and the one evaluation.                                     *)

LEMMA FreeSlotIdle ==
  ASSUME NEW n \in {1, 2}, Free(n)
  PROVE  /\ FreeSlot \in Slots /\ op[FreeSlot] = Idle
         /\ n = 2 => \E r \in Slots \ {FreeSlot} : op[r] = Idle
<1> DEFINE idle == {s \in Slots : op[s] = Idle}
<1>1. IsFiniteSet(idle)
  BY SlotsAssumption, FS_Subset, idle \subseteq Slots
<1>2. Cardinality(idle) >= n /\ Cardinality(idle) \in Nat
  BY <1>1, FS_CardinalityType DEF Free
<1>3. idle # {}
  <2>1. CASE idle = {}
    BY <1>2, <2>1, FS_EmptySet
  <2> QED BY <2>1
<1>4. FreeSlot \in Slots /\ op[FreeSlot] = Idle
  BY <1>3 DEF FreeSlot
<1>5. ASSUME n = 2 PROVE \E r \in Slots \ {FreeSlot} : op[r] = Idle
  <2>1. FreeSlot \in idle
    BY <1>4
  <2>2. IsFiniteSet(idle \ {FreeSlot}) /\ Cardinality(idle \ {FreeSlot}) = Cardinality(idle) - 1
    <3> HIDE DEF idle
    <3> QED BY <1>1, <2>1, FS_RemoveElement
  <2>3. idle \ {FreeSlot} # {}
    <3>1. Cardinality(idle \ {FreeSlot}) # 0
      BY <1>2, <1>5, <2>2
    <3> HIDE DEF idle
    <3> QED BY <3>1, FS_EmptySet
  <2> QED BY <2>3
<1> QED BY <1>4, <1>5

LEMMA EvaluationsFinite ==
  ASSUME NEW table
  PROVE  /\ IsFiniteSet(Evaluations(table))
         /\ Cardinality(Evaluations(table)) = 0 <=> Evaluations(table) = {}
         /\ Cardinality(Evaluations(table)) = 1 <=> \E s \in Slots : Evaluations(table) = {s}
<1>1. Evaluations(table) \subseteq Slots
  BY DEF Evaluations
<1>2. IsFiniteSet(Evaluations(table))
  BY <1>1, SlotsAssumption, FS_Subset
<1>3. Cardinality(Evaluations(table)) = 0 <=> Evaluations(table) = {}
  BY <1>2, FS_EmptySet
<1>4. Cardinality(Evaluations(table)) = 1 <=> \E s : Evaluations(table) = {s}
  BY <1>2, FS_Singleton
<1> QED BY <1>1, <1>2, <1>3, <1>4

EvaluationKinds == {"evaluation", "diversion"}

(* The slots that evaluate are the same ones, one more, or one less.       *)
LEMMA SameEvaluations ==
  ASSUME NEW old, NEW new, NEW flag, OneEvaluation(old, flag),
         \A s \in Slots : new[s].kind \in EvaluationKinds <=> old[s].kind \in EvaluationKinds
  PROVE  OneEvaluation(new, flag)
<1>1. Evaluations(new) = Evaluations(old)
  BY DEF Evaluations, EvaluationKinds
<1> QED BY <1>1 DEF OneEvaluation

LEMMA EvaluationBegins ==
  ASSUME NEW old, NEW new, NEW r \in Slots, OneEvaluation(old, FALSE),
         new[r].kind \in EvaluationKinds,
         \A s \in Slots \ {r} : new[s].kind = old[s].kind
  PROVE  OneEvaluation(new, TRUE)
<1>1. Evaluations(old) = {}
  BY EvaluationsFinite DEF OneEvaluation
<1>2. Evaluations(new) = {r}
  BY <1>1 DEF Evaluations, EvaluationKinds
<1> QED BY <1>2, EvaluationsFinite DEF OneEvaluation

LEMMA EvaluationEnds ==
  ASSUME NEW old, NEW new, NEW r \in Slots, NEW flag \in BOOLEAN, OneEvaluation(old, flag),
         old[r].kind \in EvaluationKinds, new[r].kind \notin EvaluationKinds,
         \A s \in Slots \ {r} : new[s].kind = old[s].kind
  PROVE  flag = TRUE /\ OneEvaluation(new, FALSE)
<1>1. r \in Evaluations(old)
  BY DEF Evaluations, EvaluationKinds
<1>2. flag = TRUE
  BY <1>1, EvaluationsFinite DEF OneEvaluation
<1>3. PICK s \in Slots : Evaluations(old) = {s}
  BY <1>2, EvaluationsFinite DEF OneEvaluation
<1>4. Evaluations(new) = {}
  BY <1>1, <1>3 DEF Evaluations, EvaluationKinds
<1> QED BY <1>2, <1>4, EvaluationsFinite DEF OneEvaluation

-----------------------------------------------------------------------------
(* What the helpers of the handlers leave of a sound table.                *)

Good(table, aTrip, aDest, flag) ==
  Sound(table, aTrip, aDest) /\ OneEvaluation(table, flag)

Quiet(table, r) == r \in Slots /\ table[r].kind \notin EvaluationKinds

LEMMA BumpGood ==
  ASSUME NEW table, NEW c \in SUBSET Counters, NEW t1, NEW t2, NEW d1, NEW d2, NEW flag,
         Good(table, t1, d1, flag),
         "input" \in c => "_powerRevision" \in c,
         "generation" \in c \/ ((t1 # NoTrip => t2 # NoTrip) /\ (d1 # NoDest => d2 # NoDest))
  PROVE  /\ Good(Bump(c, table), t2, d2, flag)
         /\ \A r : Quiet(table, r) => Quiet(Bump(c, table), r)
<1>1. Sound(Bump(c, table), t2, d2) /\ Evaluations(Bump(c, table)) = Evaluations(table)
  BY BumpSound DEF Good
<1>2. \A r : Quiet(table, r) <=> r \in Slots \ Evaluations(table)
  BY DEF Quiet, Evaluations, EvaluationKinds
<1>3. \A r : Quiet(Bump(c, table), r) <=> r \in Slots \ Evaluations(Bump(c, table))
  BY DEF Quiet, Evaluations, EvaluationKinds
<1> QED BY <1>1, <1>2, <1>3 DEF Good, OneEvaluation

LEMMA StayGood ==
  ASSUME NEW table, NEW t1, NEW t2, NEW d1, NEW d2, NEW flag, Good(table, t1, d1, flag),
         t1 # NoTrip => t2 # NoTrip, d1 # NoDest => d2 # NoDest
  PROVE  Good(table, t2, d2, flag)
BY StaySound DEF Good

LEMMA PutGood ==
  ASSUME NEW table, NEW t, NEW d, NEW flag, NEW r, NEW o \in Ops, Good(table, t, d, flag),
         Quiet(table, r), OpOK(o), Grounded(o, t, d), o.kind \notin EvaluationKinds
  PROVE  Good([table EXCEPT ![r] = o], t, d, flag)
<1> DEFINE new == [table EXCEPT ![r] = o]
<1>0. Sound(table, t, d)
  BY DEF Good
<1>1. /\ Sound(new, t, d)
      /\ \A s \in Slots : new[s] = IF s = r THEN o ELSE table[s]
  BY <1>0 DEF Sound
<1> HIDE DEF new
<1>2. OneEvaluation(new, flag)
  BY <1>1, SameEvaluations DEF Good, Quiet
<1>3. Good(new, t, d, flag)
  BY <1>1, <1>2 DEF Good
<1> QED BY <1>3 DEF new

LEMMA SendGood ==
  ASSUME NEW table, NEW t, NEW d, NEW flag, NEW r, NEW o, Good(table, t, d, flag),
         Quiet(table, r), Sendable(o, t, d), o.kind # "evaluation"
  PROVE  Good(Send(r, table, o), t, d, flag)
<1> DEFINE new == Send(r, table, o)
<1>0. Sound(table, t, d)
  BY DEF Good
<1>1. /\ Sound(new, t, d)
      /\ Differs(new, table, r, o.kind)
  BY <1>0, SendSound
<1> HIDE DEF new
<1>2. OneEvaluation(new, flag)
  BY <1>1, SameEvaluations DEF Good, Quiet, Differs, Sendable, RequestKinds, EvaluationKinds
<1>3. Good(new, t, d, flag)
  BY <1>1, <1>2 DEF Good
<1> QED BY <1>3 DEF new

LEMMA ResumeGood ==
  ASSUME NEW table, NEW t, NEW d, NEW flag, NEW r, Good(table, t, d, flag), Quiet(table, r),
         NEW then \in Continuations, NEW valid \in SUBSET Counters,
         NEW station \in Stations \cup {NoStation}
  PROVE  Good([table EXCEPT ![r] = Resumption(then, valid, station)], t, d, flag)
<1> DEFINE o == Resumption(then, valid, station)
<1>1. o \in Ops /\ o.kind \in {"idle", "resume"} /\ OpOK(o) /\ Grounded(o, t, d)
  BY ResumptionOps
<1> HIDE DEF o
<1>2. Good([table EXCEPT ![r] = o], t, d, flag)
  BY <1>1, PutGood DEF EvaluationKinds
<1> QED BY <1>2 DEF o

LEMMA IdleGood ==
  ASSUME NEW table, NEW t, NEW d, NEW flag, NEW r, Good(table, t, d, flag), Quiet(table, r)
  PROVE  Good([table EXCEPT ![r] = Idle], t, d, flag) /\ Quiet([table EXCEPT ![r] = Idle], r)
<1>1. OpOK(Idle) /\ Grounded(Idle, t, d)
  BY IdleOps DEF OpOK, Grounded
<1>2. Good([table EXCEPT ![r] = Idle], t, d, flag)
  BY <1>1, IdleOps, PutGood DEF EvaluationKinds
<1>3. table \in [Slots -> Ops]
  BY DEF Good, Sound
<1> QED BY <1>2, <1>3, IdleOps DEF Quiet, EvaluationKinds

LEMMA FreshCounters ==
  ASSUME NEW then PROVE Fresh(then) \in SUBSET Counters
BY DEF Fresh, Counters

LEMMA EvaluateGood ==
  ASSUME NEW table, NEW t, NEW d, NEW r, NEW then \in Continuations,
         Good(table, t, d, isEvaluating), Quiet(table, r),
         isEvaluating \in BOOLEAN, locked' \in BOOLEAN, Evaluate(r, table, then)
  PROVE  Good(op', t, d, isEvaluating') /\ isEvaluating' \in BOOLEAN
<1>1. CASE MayEvaluate
  <2> DEFINE moved == IF locked' THEN table ELSE Bump({"routeRevision"}, table)
             o == [Idle EXCEPT !.kind = "evaluation", !.locked = locked', !.then = then]
  <2>1. isEvaluating = FALSE /\ isEvaluating' = TRUE /\ op' = Send(r, moved, o)
    BY <1>1 DEF Evaluate, MayEvaluate
  <2>2. Good(moved, t, d, FALSE) /\ Quiet(moved, r)
    <3>1. CASE locked'
      BY <2>1, <3>1
    <3>2. CASE ~locked'
      <4>1. {"routeRevision"} \in SUBSET Counters
        BY DEF Counters
      <4> QED BY <2>1, <3>2, <4>1, BumpGood
    <3> QED BY <3>1, <3>2
  <2>3. o \in Ops /\ o.kind = "evaluation" /\ Sendable(o, t, d)
    BY IdleOps DEF Ops, Kinds, Sendable, RequestKinds
  <2> HIDE DEF moved, o
  <2>4. /\ Sound(op', t, d)
        /\ Differs(op', moved, r, "evaluation")
    BY <2>1, <2>2, <2>3, SendSound DEF Good
  <2>5. OneEvaluation(op', TRUE)
    BY <2>2, <2>4, EvaluationBegins DEF Good, Quiet, Differs, EvaluationKinds
  <2> QED BY <2>1, <2>4, <2>5 DEF Good
<1>2. CASE ~MayEvaluate
  <2>1. /\ isEvaluating' = isEvaluating
        /\ op' = [table EXCEPT ![r] = Resumption(then, Fresh(then), NoStation)]
    BY <1>2 DEF Evaluate
  <2> QED BY <2>1, FreshCounters, ResumeGood
<1> QED BY <1>1, <1>2

-----------------------------------------------------------------------------
(* The inductive invariant, and what the handlers make of it.              *)

ScreenOK ==
  /\ state \in States
  /\ trip \in Trips \cup {NoTrip} /\ route \in Routes \cup {NoRoute}
  /\ stages \in Stages \cup {NoStages}
  /\ customDest \in Dests \cup {NoDest}
  /\ plan \in Plans \cup {NoPlan} /\ selected \in Stations \cup {NoStation}
  /\ energy \in {"none", "current"}
  /\ customOrigin \in BOOLEAN /\ pos \in BOOLEAN /\ locked \in BOOLEAN /\ timer \in BOOLEAN
  /\ state \in {"TRIP_ASSIGNED", "TRIP_ACTIVE"} => trip # NoTrip
  /\ LockedOnPlan

HandlersOK ==
  /\ isEvaluating \in BOOLEAN
  /\ Good(op, trip, passengerDestination, isEvaluating)

IInv == ScreenOK /\ HandlersOK

LEMMA InvariantImplies == IInv => TypeOK /\ LockedOnPlan /\ EstimatesCurrent
BY DEF IInv, ScreenOK, HandlersOK, Good, Sound, OneEvaluation, TypeOK, EstimatesCurrent

LEMMA InitInvariant == Init => IInv
<1> SUFFICES ASSUME Init PROVE IInv
  OBVIOUS
<1>1. ScreenOK
  BY DEF Init, ScreenOK, States, LockedOnPlan
<1>2. Sound(op, trip, passengerDestination)
  BY IdleOps DEF Init, Sound, OpOK, Grounded
<1>3. Evaluations(op) = {}
  BY IdleOps DEF Init, Evaluations
<1>4. OneEvaluation(op, isEvaluating)
  BY <1>3, FS_EmptySet DEF OneEvaluation, Init
<1> QED BY <1>1, <1>2, <1>4 DEF IInv, HandlersOK, Good, Init

LEMMA PassengerType ==
  ASSUME ScreenOK
  PROVE  /\ passengerDestination \in Dests \cup {NoDest}
         /\ trip # NoTrip => trip \in Trips /\ trip.dest # NoDest /\ trip.dest \in Dests \cup Stations
BY NullAssumption DEF ScreenOK, passengerDestination, Trips

LEMMA ConfirmationGood ==
  ASSUME ScreenOK, NEW table, NEW flag, NEW r, NEW station \in Stations, NEW mode \in Modes,
         NEW refresh \in BOOLEAN, NEW then \in Continuations,
         Good(table, trip, passengerDestination, flag), Quiet(table, r)
  PROVE  Good(Confirmation(r, table, station, mode, refresh, then), trip, passengerDestination, flag)
<1> DEFINE effective == IF PassengerPassed THEN "BEFORE" ELSE mode
           onward == ~PassengerPassed /\ passengerDestination # NoDest
           stops == IF effective = "AFTER" THEN <<"PASSENGER", "STATION">>
                    ELSE IF onward THEN <<"STATION", "PASSENGER">> ELSE <<"STATION">>
           confirmed == [station |-> station, mode |-> effective, stops |-> stops]
           o == [Idle EXCEPT !.kind = "select", !.mode = mode, !.refresh = refresh,
                   !.then = then, !.station = station, !.plan = confirmed]
           moved == Bump({"routeRevision"}, table)
<1>1. Confirmation(r, table, station, mode, refresh, then) = Send(r, moved, o)
  BY DEF Confirmation
<1>2. Good(moved, trip, passengerDestination, flag) /\ Quiet(moved, r)
  <2>1. {"routeRevision"} \in SUBSET Counters
    BY DEF Counters
  <2> QED BY <2>1, BumpGood
<1>3. effective \in Modes
  BY DEF Modes
<1>4. stops \in {<<"STATION">>, <<"STATION", "PASSENGER">>, <<"PASSENGER", "STATION">>}
  OBVIOUS
<1>5. stops = <<"STATION", "PASSENGER">> => passengerDestination # NoDest
  OBVIOUS
<1> HIDE DEF effective, onward, stops, moved
<1>6. confirmed \in Plans
  BY <1>3, <1>4 DEF Plans
<1>7. /\ confirmed.station = station /\ confirmed.stops = stops
  OBVIOUS
<1> HIDE DEF confirmed
<1>8. o \in Ops /\ o.kind = "select" /\ o.plan = confirmed /\ o.station = station
  BY <1>6, IdleOps DEF Ops, Kinds
<1> HIDE DEF o
<1>9. Sendable(o, trip, passengerDestination) /\ o.kind # "evaluation"
  BY <1>5, <1>6, <1>7, <1>8 DEF Sendable, RequestKinds
<1> QED BY <1>1, <1>2, <1>9, SendGood

LEMMA RerouteGood ==
  ASSUME ScreenOK, trip # NoTrip, NEW table, NEW flag, NEW r, NEW then \in Continuations,
         Good(table, trip, passengerDestination, flag), Quiet(table, r)
  PROVE  Good(Reroute(r, table, then), trip, passengerDestination, flag)
<1>1. CASE locked /\ plan # NoPlan /\ ~StationPassed
  <2>1. plan \in Plans /\ plan.station \in Stations /\ plan.mode \in Modes
    BY <1>1 DEF ScreenOK, Plans
  <2>2. CASE plan.mode = "AFTER" /\ passengerDestination = NoDest
    <3>1. Reroute(r, table, then) = [table EXCEPT ![r] = Resumption(then, Fresh(then), plan.station)]
      BY <1>1, <2>2 DEF Reroute
    <3> DEFINE station == plan.station
               valid == Fresh(then)
    <3>2. station \in Stations \cup {NoStation} /\ valid \in SUBSET Counters
      BY <2>1, FreshCounters
    <3> HIDE DEF station, valid
    <3>3. Good([table EXCEPT ![r] = Resumption(then, valid, station)],
               trip, passengerDestination, flag)
      BY <3>2, ResumeGood, ZenonT(60)
    <3> QED BY <3>1, <3>3 DEF station, valid
  <2>3. CASE ~(plan.mode = "AFTER" /\ passengerDestination = NoDest)
    <3>1. Reroute(r, table, then) = Confirmation(r, table, plan.station, plan.mode, TRUE, then)
      BY <1>1, <2>3 DEF Reroute
    <3> QED BY <2>1, <3>1, ConfirmationGood
  <2> QED BY <2>2, <2>3
<1>2. CASE ~(locked /\ plan # NoPlan /\ ~StationPassed)
  <2> DEFINE o == [Idle EXCEPT !.kind = "reroute", !.dest = trip.dest, !.then = then,
                     !.station = IF plan = NoPlan THEN NoStation ELSE plan.station]
             moved == Bump({"routeRevision"}, table)
  <2>1. Reroute(r, table, then) = Send(r, moved, o)
    BY <1>2 DEF Reroute
  <2>2. Good(moved, trip, passengerDestination, flag) /\ Quiet(moved, r)
    <3>1. {"routeRevision"} \in SUBSET Counters
      BY DEF Counters
    <3> QED BY <3>1, BumpGood
  <2>3. (IF plan = NoPlan THEN NoStation ELSE plan.station) \in Stations \cup {NoStation}
    BY DEF ScreenOK, Plans
  <2>4. o \in Ops /\ o.kind = "reroute" /\ o.dest = trip.dest
    BY <2>3, PassengerType, IdleOps DEF Ops, Kinds
  <2> HIDE DEF o, moved
  <2>5. Sendable(o, trip, passengerDestination) /\ o.kind # "evaluation"
    BY <2>4, PassengerType DEF Sendable, RequestKinds
  <2> QED BY <2>1, <2>2, <2>5, SendGood
<1> QED BY <1>1, <1>2

LEMMA CustomRouteGood ==
  ASSUME NEW table, NEW flag, NEW r, NEW t, NEW t0, NEW d, NEW d0, NEW dest \in Dests,
         Good(table, t0, d0, flag), t0 # NoTrip => t # NoTrip, d0 # NoDest => d # NoDest,
         Quiet(table, r)
  PROVE  Good(CustomRoute(r, table, dest), t, d, flag)
<1> DEFINE o == [Idle EXCEPT !.kind = "custom", !.dest = dest]
           moved == Bump({"routeRevision", "selectedStationPlan"}, table)
<1>1. CustomRoute(r, table, dest) = Send(r, moved, o)
  BY DEF CustomRoute
<1>2. Good(moved, t, d, flag) /\ Quiet(moved, r)
  <2>1. {"routeRevision", "selectedStationPlan"} \in SUBSET Counters
    BY DEF Counters
  <2> QED BY <2>1, BumpGood
<1>3. o \in Ops /\ o.kind = "custom" /\ o.dest = dest
  BY IdleOps DEF Ops, Kinds
<1> HIDE DEF o, moved
<1>4. Sendable(o, t, d) /\ o.kind # "evaluation"
  BY <1>3 DEF Sendable, RequestKinds
<1> QED BY <1>1, <1>2, <1>4, SendGood

LEMMA ListingGood ==
  ASSUME NEW table, NEW flag, NEW r, NEW t, NEW d, NEW after \in BOOLEAN,
         Good(table, t, d, flag), Quiet(table, r)
  PROVE  Good(Listing(r, table, after), t, d, flag)
<1> DEFINE o == [Idle EXCEPT !.kind = "drawer"]
           moved == Bump({"_drawerRevision"}, table)
<1>1. Listing(r, table, after) = IF after THEN moved ELSE Send(r, moved, o)
  BY DEF Listing
<1>2. Good(moved, t, d, flag) /\ Quiet(moved, r)
  <2>1. {"_drawerRevision"} \in SUBSET Counters
    BY DEF Counters
  <2> QED BY <2>1, BumpGood
<1>3. o \in Ops /\ o.kind = "drawer"
  BY IdleOps DEF Ops, Kinds
<1> HIDE DEF o, moved
<1>4. Sendable(o, t, d) /\ o.kind # "evaluation"
  BY <1>3 DEF Sendable, RequestKinds
<1>5. Good(Send(r, moved, o), t, d, flag)
  BY <1>2, <1>4, SendGood
<1> QED BY <1>1, <1>2, <1>5

LEMMA ReturnGood ==
  ASSUME NEW table, NEW flag, NEW r, NEW t, NEW d, op \in [Slots -> Ops],
         Good(table, t, d, flag), Quiet(table, r)
  PROVE  Good(Return(r, table), t, d, flag)
<1>1. op[r].then \in Continuations /\ op[r].valid \in SUBSET Counters
      /\ op[r].station \in Stations \cup {NoStation}
  BY DEF Quiet, Ops
<1> QED BY <1>1, ResumeGood DEF Return

-----------------------------------------------------------------------------
(* The driver's buttons keep the invariant.                                *)

LEMMA FreeQuiet ==
  ASSUME Free(1) PROVE Quiet(op, FreeSlot)
BY FreeSlotIdle, IdleOps DEF Quiet, EvaluationKinds

LEMMA ScreenKept ==
  ASSUME ScreenOK, UNCHANGED <<screen, places>>
  PROVE  ScreenOK' /\ passengerDestination' = passengerDestination /\ trip' = trip
BY DEF ScreenOK, LockedOnPlan, screen, places, passengerDestination

LEMMA ClearedGood ==
  ASSUME NEW table, NEW t1, NEW t2, NEW d1, NEW d2, NEW flag, Good(table, t1, d1, flag)
  PROVE  /\ Good(Cleared(table), t2, d2, flag)
         /\ \A r : Quiet(table, r) => Quiet(Cleared(table), r)
<1>1. {"generation", "routeRevision", "selectedStationPlan"} \in SUBSET Counters
  BY DEF Counters
<1> QED BY <1>1, BumpGood DEF Cleared

LEMMA ClearDestinationStep == ASSUME IInv, ClearDestination PROVE IInv'
<1>1. ScreenOK'
  BY DEF IInv, ClearDestination, ClearedScreen, NavigationDropped, ScreenOK, LockedOnPlan, States
<1>2. op' = Cleared(op) /\ isEvaluating' = isEvaluating /\ isEvaluating \in BOOLEAN
      /\ Good(op, trip, passengerDestination, isEvaluating)
  BY DEF ClearDestination, IInv, HandlersOK
<1>3. Good(op', trip', passengerDestination', isEvaluating')
  BY <1>2, ClearedGood
<1> QED BY <1>1, <1>2, <1>3 DEF IInv, HandlersOK

LEMMA SetOriginStep == ASSUME IInv, SetOrigin PROVE IInv'
<1>1. Good(op, trip, passengerDestination, isEvaluating) /\ isEvaluating' = isEvaluating
      /\ isEvaluating \in BOOLEAN /\ Quiet(op, FreeSlot)
  BY FreeQuiet DEF SetOrigin, IInv, HandlersOK
<1>2. CASE passengerDestination # NoDest
  <2>1. /\ op' = CustomRoute(FreeSlot, op, passengerDestination)
        /\ NavigationDropped /\ customOrigin' = TRUE /\ pos' = TRUE
        /\ UNCHANGED <<state, trip, customDest, route, energy, timer>>
    BY <1>2 DEF SetOrigin
  <2>2. ScreenOK'
    BY <2>1 DEF IInv, ScreenOK, NavigationDropped, LockedOnPlan
  <2>3. trip' = trip /\ passengerDestination' = passengerDestination
    BY <2>1 DEF passengerDestination
  <2>4. passengerDestination \in Dests
    BY <1>2, PassengerType DEF IInv
  <2>5. Good(op', trip, passengerDestination, isEvaluating)
    BY <1>1, <2>1, <2>4, CustomRouteGood
  <2> QED BY <1>1, <2>2, <2>3, <2>5 DEF IInv, HandlersOK
<1>3. CASE passengerDestination = NoDest
  <2>1. op' = Cleared(op) /\ ClearedScreen /\ customOrigin' = TRUE /\ pos' = TRUE
    BY <1>3 DEF SetOrigin
  <2>2. ScreenOK'
    BY <2>1 DEF IInv, ClearedScreen, NavigationDropped, ScreenOK, LockedOnPlan, States
  <2>3. Good(op', trip', passengerDestination', isEvaluating)
    BY <1>1, <2>1, ClearedGood
  <2> QED BY <1>1, <2>2, <2>3 DEF IInv, HandlersOK
<1> QED BY <1>2, <1>3

LEMMA SetDestinationStep == ASSUME IInv, NEW d \in Dests, SetDestination(d) PROVE IInv'
<1>1. Good(op, trip, passengerDestination, isEvaluating) /\ isEvaluating' = isEvaluating
      /\ isEvaluating \in BOOLEAN /\ Quiet(op, FreeSlot)
  BY FreeQuiet DEF SetDestination, IInv, HandlersOK
<1>2. customDest' = d /\ UNCHANGED <<state, trip, route, energy, timer, places>>
  BY DEF SetDestination
<1>3. passengerDestination' = d /\ d # NoDest
  BY <1>2, NullAssumption DEF passengerDestination
<1>4. CASE planningOrigin
  <2>1. op' = CustomRoute(FreeSlot, op, d) /\ NavigationDropped
    BY <1>4 DEF SetDestination
  <2>2. ScreenOK'
    BY <1>2, <2>1 DEF IInv, ScreenOK, NavigationDropped, LockedOnPlan, places
  <2>3. Good(op', trip', d, isEvaluating)
    BY <1>1, <1>2, <1>3, <2>1, CustomRouteGood
  <2> QED BY <1>1, <1>3, <2>2, <2>3 DEF IInv, HandlersOK
<1>5. CASE ~planningOrigin
  <2>1. stages' = NoStages /\ UNCHANGED <<op, plan, locked, selected>>
    BY <1>5 DEF SetDestination
  <2>2. ~locked
    BY <1>5 DEF IInv, ScreenOK, LockedOnPlan, planningOrigin
  <2>3. ScreenOK'
    BY <1>2, <2>1, <2>2 DEF IInv, ScreenOK, LockedOnPlan, places
  <2>4. Good(op', trip', d, isEvaluating)
    BY <1>1, <1>2, <1>3, <2>1, StayGood
  <2> QED BY <1>1, <1>3, <2>3, <2>4 DEF IInv, HandlersOK
<1> QED BY <1>4, <1>5

LEMMA NewGeneration ==
  ASSUME NEW table, NEW t1, NEW t2, NEW d1, NEW d2, NEW flag, Good(table, t1, d1, flag)
  PROVE  /\ Good(Bump({"generation", "_powerRevision"}, table), t2, d2, flag)
         /\ \A r : Quiet(table, r) => Quiet(Bump({"generation", "_powerRevision"}, table), r)
<1>1. {"generation", "_powerRevision"} \in SUBSET Counters
  BY DEF Counters
<1> QED BY <1>1, BumpGood

LEMMA AcceptStep == ASSUME IInv, Accept PROVE IInv'
<1> DEFINE table == Bump({"generation", "_powerRevision"}, op)
<1>1. Good(op, trip, passengerDestination, isEvaluating) /\ isEvaluating' = isEvaluating
      /\ isEvaluating \in BOOLEAN /\ Quiet(op, FreeSlot)
  BY FreeQuiet DEF Accept, IInv, HandlersOK
<1>2. UNCHANGED <<state, customDest, navigation, timer, places>> /\ state = "AVAILABLE"
  BY DEF Accept
<1>3. Good(table, trip', passengerDestination', isEvaluating) /\ Quiet(table, FreeSlot)
  BY <1>1, NewGeneration
<1>4. CASE passengerDestination = NoDest \/ ~planningOrigin
  <2>1. UNCHANGED <<trip, route>>
    BY <1>4 DEF Accept
  <2>2. \/ op' = Listing(FreeSlot, table, FALSE) /\ energy' = "none"
        \/ op' = table /\ energy' = energy
    <3>1. CASE passengerDestination = NoDest /\ planningOrigin
      <4>1. op' = Listing(FreeSlot, table, FALSE) /\ energy' = Listed(energy, FALSE)
        BY <3>1, Zenon DEF Accept
      <4>2. Listed(energy, FALSE) = "none"
        BY DEF Listed
      <4> QED BY <4>1, <4>2
    <3>2. CASE passengerDestination = NoDest /\ ~planningOrigin
      BY <3>2 DEF Accept
    <3>3. CASE passengerDestination # NoDest /\ ~planningOrigin
      BY <3>3 DEF Accept
    <3> QED BY <1>4, <3>1, <3>2, <3>3
  <2>3. ScreenOK'
    BY <1>2, <2>1, <2>2 DEF IInv, ScreenOK, LockedOnPlan, navigation, places
  <2> HIDE DEF table
  <2>4. Good(op', trip', passengerDestination', isEvaluating)
    BY <1>3, <2>2, ListingGood
  <2> QED BY <1>1, <2>3, <2>4 DEF IInv, HandlersOK
<1>5. CASE passengerDestination # NoDest /\ planningOrigin
  <2> DEFINE o == [Idle EXCEPT !.kind = "assign", !.dest = passengerDestination]
  <2>1. /\ trip' = [dest |-> passengerDestination, passenger |-> passengerDestination]
        /\ route' = NoRoute /\ op' = Send(FreeSlot, table, o) /\ energy' = energy
    BY <1>5 DEF Accept
  <2>2. passengerDestination \in Dests
    BY <1>5, PassengerType DEF IInv
  <2>3. trip' \in Trips /\ trip' # NoTrip
    BY <2>1, <2>2, NoValueAssumption DEF Trips
  <2>4. ScreenOK'
    BY <1>2, <2>1, <2>3 DEF IInv, ScreenOK, LockedOnPlan, navigation, places
  <2>5. o \in Ops /\ o.kind = "assign" /\ o.dest \in Dests
    BY <2>2, IdleOps DEF Ops, Kinds
  <2> HIDE DEF o, table
  <2>6. Sendable(o, trip', passengerDestination') /\ o.kind # "evaluation"
    BY <2>3, <2>5 DEF Sendable, RequestKinds
  <2>7. Good(op', trip', passengerDestination', isEvaluating)
    BY <1>3, <2>1, <2>6, SendGood
  <2> QED BY <1>1, <2>4, <2>7 DEF IInv, HandlersOK
<1> QED BY <1>4, <1>5

LEMMA StartTripStep == ASSUME IInv, StartTrip PROVE IInv'
<1> DEFINE table == Bump({"generation", "_powerRevision"}, op)
<1>1. Good(op, trip, passengerDestination, isEvaluating) /\ isEvaluating \in BOOLEAN
      /\ Quiet(op, FreeSlot)
  BY FreeQuiet DEF StartTrip, IInv, HandlersOK
<1>2. /\ state' = "TRIP_ACTIVE" /\ trip # NoTrip
      /\ UNCHANGED <<trip, customDest, route, navigation, energy, timer, places>>
      /\ Evaluate(FreeSlot, table, "timer")
  BY DEF StartTrip
<1>3. ScreenOK'
  BY <1>2 DEF IInv, ScreenOK, LockedOnPlan, navigation, places, States
<1>4. Good(table, trip', passengerDestination', isEvaluating) /\ Quiet(table, FreeSlot)
  BY <1>1, NewGeneration
<1>5. "timer" \in Continuations /\ locked' \in BOOLEAN
  BY <1>3 DEF Continuations, ScreenOK
<1> HIDE DEF table
<1>6. Good(op', trip', passengerDestination', isEvaluating') /\ isEvaluating' \in BOOLEAN
  BY <1>1, <1>2, <1>4, <1>5, EvaluateGood
<1> QED BY <1>3, <1>6 DEF IInv, HandlersOK

(* The buttons that wait for nothing.                                      *)
LEMMA CompleteTripStep == ASSUME IInv, CompleteTrip PROVE IInv'
<1>1. ScreenOK' /\ passengerDestination' = passengerDestination
  BY DEF IInv, CompleteTrip, ScreenOK, LockedOnPlan, States, passengerDestination, places
<1> QED BY <1>1 DEF IInv, HandlersOK, Good, Sound, OneEvaluation, Evaluations, CompleteTrip

LEMMA GoOfflineStep == ASSUME IInv, GoOffline PROVE IInv'
<1>1. ScreenOK' /\ passengerDestination' = passengerDestination
  BY DEF IInv, GoOffline, ScreenOK, LockedOnPlan, States, passengerDestination, navigation, places
<1> QED BY <1>1 DEF IInv, HandlersOK, Good, Sound, OneEvaluation, Evaluations, GoOffline

LEMMA GoOnlineStep == ASSUME IInv, GoOnline PROVE IInv'
<1>1. ScreenOK' /\ passengerDestination' = passengerDestination
  BY DEF IInv, GoOnline, ScreenOK, LockedOnPlan, States, passengerDestination, navigation, places
<1> QED BY <1>1 DEF IInv, HandlersOK, Good, Sound, OneEvaluation, Evaluations, GoOnline

LEMMA ReturnToAvailableStep == ASSUME IInv, ReturnToAvailable PROVE IInv'
<1> DEFINE moved == {"generation", "_powerRevision", "selectedStationPlan"}
<1>1. ScreenOK'
  BY DEF IInv, ReturnToAvailable, NavigationDropped, ScreenOK, LockedOnPlan, States
<1>2. op' = Bump(moved, op) /\ isEvaluating' = isEvaluating /\ isEvaluating \in BOOLEAN
      /\ Good(op, trip, passengerDestination, isEvaluating)
  BY DEF ReturnToAvailable, IInv, HandlersOK
<1>3. moved \in SUBSET Counters /\ "generation" \in moved /\ "_powerRevision" \in moved
  BY DEF Counters
<1> HIDE DEF moved
<1>4. Good(op', trip', passengerDestination', isEvaluating)
  BY <1>2, <1>3, BumpGood
<1> QED BY <1>1, <1>2, <1>4 DEF IInv, HandlersOK

LEMMA ShowStationsStep == ASSUME IInv, NEW after \in BOOLEAN, ShowStations(after) PROVE IInv'
<1>1. /\ op' = Listing(FreeSlot, op, after) /\ energy' \in {energy, "none"}
      /\ UNCHANGED <<state, trip, customDest, route, navigation, timer, places, isEvaluating>>
      /\ Quiet(op, FreeSlot)
  BY FreeQuiet DEF ShowStations, Listed
<1>2. ScreenOK' /\ passengerDestination' = passengerDestination
  BY <1>1 DEF IInv, ScreenOK, LockedOnPlan, navigation, places, passengerDestination
<1>3. Good(op', trip, passengerDestination, isEvaluating)
  BY <1>1, ListingGood DEF IInv, HandlersOK
<1> QED BY <1>1, <1>2, <1>3 DEF IInv, HandlersOK

LEMMA SelectStationStep ==
  ASSUME IInv, NEW station \in Stations, NEW mode \in Modes, SelectStation(station, mode)
  PROVE  IInv'
<1>1. /\ op' = Confirmation(FreeSlot, op, station, mode, FALSE, "none")
      /\ UNCHANGED <<screen, places, isEvaluating>> /\ Quiet(op, FreeSlot)
  BY FreeQuiet DEF SelectStation
<1>2. ScreenOK' /\ passengerDestination' = passengerDestination /\ trip' = trip
  BY <1>1, ScreenKept DEF IInv
<1>3. "none" \in Continuations
  BY DEF Continuations
<1>4. Good(op', trip, passengerDestination, isEvaluating)
  BY <1>1, <1>3, ConfirmationGood DEF IInv, HandlersOK
<1> QED BY <1>1, <1>2, <1>4 DEF IInv, HandlersOK

LEMMA ResumeQuiet ==
  ASSUME NEW table \in [Slots -> Ops], NEW r, NEW q, Quiet(table, q),
         NEW then \in Continuations, NEW valid \in SUBSET Counters,
         NEW station \in Stations \cup {NoStation}
  PROVE  Quiet([table EXCEPT ![r] = Resumption(then, valid, station)], q)
<1> DEFINE o == Resumption(then, valid, station)
<1>1. o.kind \in {"idle", "resume"}
  BY ResumptionOps
<1> HIDE DEF o
<1>2. Quiet([table EXCEPT ![r] = o], q)
  BY <1>1 DEF Quiet, EvaluationKinds
<1> QED BY <1>2 DEF o

LEMMA UnlockNavigationStep == ASSUME IInv, UnlockNavigation PROVE IInv'
<1> DEFINE given == Bump({"selectedStationPlan"}, op)
           valid == Fresh("probe")
           probe == Resumption("probe", valid, NoStation)
<1>1. /\ NavigationDropped
      /\ UNCHANGED <<state, trip, customDest, route, energy, timer, places>>
  BY DEF UnlockNavigation
<1>2. ScreenOK' /\ passengerDestination' = passengerDestination
  BY <1>1 DEF IInv, ScreenOK, LockedOnPlan, NavigationDropped, passengerDestination, places
<1>3. Good(op, trip, passengerDestination, isEvaluating) /\ isEvaluating \in BOOLEAN
  BY DEF IInv, HandlersOK
<1>4. /\ Good(given, trip, passengerDestination, isEvaluating)
      /\ \A r : Quiet(op, r) => Quiet(given, r)
  <2>1. {"selectedStationPlan"} \in SUBSET Counters
    BY DEF Counters
  <2> QED BY <1>3, <2>1, BumpGood
<1>5. "probe" \in Continuations /\ "none" \in Continuations /\ valid \in SUBSET Counters
      /\ NoStation \in Stations \cup {NoStation}
  BY FreshCounters DEF Continuations
<1>6. Free(IF isEvaluating THEN 1 ELSE 2)
  BY DEF UnlockNavigation
<1>7. Quiet(op, FreeSlot)
  BY <1>3, <1>6, FreeSlotIdle, IdleOps DEF Quiet, EvaluationKinds
<1>8. CASE isEvaluating
  <2>1. op' = [given EXCEPT ![FreeSlot] = probe] /\ isEvaluating' = isEvaluating
    BY <1>8 DEF UnlockNavigation
  <2> HIDE DEF given, valid
  <2>2. Good(op', trip, passengerDestination, isEvaluating)
    BY <1>4, <1>5, <1>7, <2>1, ResumeGood
  <2> QED BY <1>1, <1>2, <1>3, <2>1, <2>2 DEF IInv, HandlersOK
<1>9. CASE ~isEvaluating
  <2> DEFINE other == CHOOSE r \in Slots \ {FreeSlot} : op[r] = Idle
             table == [given EXCEPT ![other] = probe]
  <2>1. \E r \in Slots \ {FreeSlot} : op[r] = Idle
    BY <1>6, <1>9, FreeSlotIdle
  <2>2. Quiet(op, other)
    BY <2>1, IdleOps DEF Quiet, EvaluationKinds
  <2>3. Evaluate(FreeSlot, table, "none")
    BY <1>9 DEF UnlockNavigation
  <2>4. given \in [Slots -> Ops]
    BY <1>4 DEF Good, Sound
  <2> HIDE DEF given, valid, other
  <2>5. Good(table, trip, passengerDestination, isEvaluating)
    BY <1>4, <1>5, <2>2, ResumeGood
  <2>6. Quiet(table, FreeSlot)
    BY <1>4, <1>5, <1>7, <2>4, ResumeQuiet
  <2>7. locked' \in BOOLEAN
    BY <1>2 DEF ScreenOK
  <2> HIDE DEF table
  <2>8. Good(op', trip, passengerDestination, isEvaluating') /\ isEvaluating' \in BOOLEAN
    BY <1>3, <1>5, <2>3, <2>5, <2>6, <2>7, EvaluateGood
  <2> QED BY <1>1, <1>2, <2>8 DEF IInv, HandlersOK
<1> QED BY <1>8, <1>9

LEMMA SetBatterySocStep ==
  ASSUME IInv, NEW trigger \in BOOLEAN, SetBatterySoc(trigger) PROVE IInv'
<1> DEFINE c == {"_powerRevision", "input"} \cup
                (IF plan # NoPlan THEN {"selectedStationPlan"} ELSE {})
           table == Bump(c, op)
           evaluated == trigger /\ state \in {"TRIP_ASSIGNED", "TRIP_ACTIVE"}
           valid == Fresh("soc")
<1>1. /\ energy' = "none" /\ Free(1)
      /\ UNCHANGED <<state, trip, customDest, route, navigation, timer, places, isEvaluating>>
  BY DEF SetBatterySoc, Aged, WithoutEnergy
<1>2. ScreenOK' /\ passengerDestination' = passengerDestination
  BY <1>1 DEF IInv, ScreenOK, LockedOnPlan, navigation, places, passengerDestination
<1>3. Good(table, trip, passengerDestination, isEvaluating) /\ Quiet(table, FreeSlot)
  <2>1. Good(op, trip, passengerDestination, isEvaluating)
    BY DEF IInv, HandlersOK
  <2>2. c \in SUBSET Counters /\ "_powerRevision" \in c
    BY DEF Counters
  <2> HIDE DEF c
  <2> QED BY <1>1, <2>1, <2>2, BumpGood, FreeQuiet
<1>4. "soc" \in Continuations /\ valid \in SUBSET Counters
      /\ NoStation \in Stations \cup {NoStation}
  BY FreshCounters DEF Continuations
<1>5. CASE ~evaluated
  <2>1. op' = table
    BY <1>5 DEF SetBatterySoc
  <2> QED BY <1>1, <1>2, <1>3, <2>1 DEF IInv, HandlersOK
<1>6. CASE evaluated /\ plan # NoPlan
  <2>1. op' = Reroute(FreeSlot, table, "soc")
    BY <1>6 DEF SetBatterySoc
  <2>2. trip # NoTrip
    BY <1>6 DEF IInv, ScreenOK
  <2> HIDE DEF table
  <2>3. Good(op', trip, passengerDestination, isEvaluating)
    BY <1>3, <1>4, <2>1, <2>2, RerouteGood DEF IInv
  <2> QED BY <1>1, <1>2, <2>3 DEF IInv, HandlersOK
<1>7. CASE evaluated /\ plan = NoPlan
  <2>1. op' = [table EXCEPT ![FreeSlot] = Resumption("soc", valid, NoStation)]
    BY <1>7 DEF SetBatterySoc
  <2> HIDE DEF table, valid
  <2>2. Good(op', trip, passengerDestination, isEvaluating)
    BY <1>3, <1>4, <2>1, ResumeGood
  <2> QED BY <1>1, <1>2, <2>2 DEF IInv, HandlersOK
<1> QED BY <1>5, <1>6, <1>7

LEMMA SelectVehicleModelStep ==
  ASSUME IInv, NEW supported \in BOOLEAN, NEW other \in BOOLEAN, NEW list \in Lists,
         SelectVehicleModel(supported, other, list)
  PROVE  IInv'
<1> DEFINE c == {"_powerRevision"} \cup (IF supported THEN {"input"} ELSE {})
           table == Bump(c, op)
           cleared == Cleared(table)
           outstanding == IF PassengerPassed THEN NoDest ELSE passengerDestination
<1>1. Good(table, trip, passengerDestination, isEvaluating) /\ Quiet(table, FreeSlot)
  <2>1. Good(op, trip, passengerDestination, isEvaluating) /\ Quiet(op, FreeSlot)
    BY FreeQuiet DEF IInv, HandlersOK, SelectVehicleModel
  <2>2. c \in SUBSET Counters /\ "_powerRevision" \in c
    BY DEF Counters
  <2> HIDE DEF c
  <2> QED BY <2>1, <2>2, BumpGood
<1>2. isEvaluating' = isEvaluating /\ isEvaluating \in BOOLEAN
  BY DEF SelectVehicleModel, IInv, HandlersOK
<1>3. CASE ~supported
  <2>1. op' = table /\ UNCHANGED <<screen, places>>
    BY <1>3 DEF SelectVehicleModel
  <2>2. ScreenOK' /\ passengerDestination' = passengerDestination /\ trip' = trip
    BY <2>1, ScreenKept DEF IInv
  <2> QED BY <1>1, <1>2, <2>1, <2>2 DEF IInv, HandlersOK
<1>4. CASE supported /\ other /\ trip # NoTrip
  <2>1. /\ state' = "AVAILABLE" /\ route' = NoRoute /\ timer' = FALSE /\ energy' = "none"
        /\ NavigationDropped
        /\ customOrigin' = TRUE /\ pos' = TRUE
        /\ customDest' = outstanding
        /\ trip' = IF outstanding = NoDest THEN NoTrip
                   ELSE [dest |-> outstanding, passenger |-> outstanding]
        /\ op' = IF outstanding # NoDest THEN CustomRoute(FreeSlot, cleared, outstanding)
                 ELSE Listing(FreeSlot, cleared, FALSE)
    BY <1>4, Zenon DEF SelectVehicleModel
  <2>2. outstanding \in Dests \cup {NoDest}
    BY PassengerType DEF IInv
  <2>3. Good(cleared, trip', passengerDestination', isEvaluating) /\ Quiet(cleared, FreeSlot)
    BY <1>1, ClearedGood
  <2> HIDE DEF outstanding, cleared
  <2>4. trip' \in Trips \cup {NoTrip}
    BY <2>1, <2>2 DEF Trips
  <2>5. ScreenOK'
    BY <2>1, <2>2, <2>4 DEF ScreenOK, NavigationDropped, LockedOnPlan, States
  <2>6. CASE outstanding # NoDest
    <3>1. op' = CustomRoute(FreeSlot, cleared, outstanding) /\ outstanding \in Dests
      BY <2>1, <2>2, <2>6
    <3>2. Good(op', trip', passengerDestination', isEvaluating)
      BY <2>3, <3>1, CustomRouteGood
    <3> QED BY <1>2, <2>5, <3>2 DEF IInv, HandlersOK
  <2>7. CASE outstanding = NoDest
    <3>1. op' = Listing(FreeSlot, cleared, FALSE)
      BY <2>1, <2>7
    <3>2. Good(op', trip', passengerDestination', isEvaluating)
      BY <2>3, <3>1, ListingGood
    <3> QED BY <1>2, <2>5, <3>2 DEF IInv, HandlersOK
  <2> QED BY <2>6, <2>7
<1>5. CASE supported /\ ~(other /\ trip # NoTrip)
  <2> DEFINE after == list = "after"
  <2>1. /\ op' = IF list = "closed" \/ ~planningOrigin THEN table
                 ELSE Listing(FreeSlot, table, after)
        /\ UNCHANGED <<state, trip, customDest, route, navigation, timer, customOrigin, pos>>
    BY <1>5, Zenon DEF SelectVehicleModel
  <2>2. energy' = "none"
    <3>1. energy' = Listed(Aged(WithoutEnergy(energy)), list # "before" \/ ~planningOrigin)
      BY <1>5, Zenon DEF SelectVehicleModel
    <3> QED BY <3>1 DEF Listed, Aged, WithoutEnergy
  <2>3. ScreenOK' /\ passengerDestination' = passengerDestination
    BY <2>1, <2>2 DEF IInv, ScreenOK, LockedOnPlan, navigation, passengerDestination
  <2>4. after \in BOOLEAN
    OBVIOUS
  <2> HIDE DEF after, table
  <2>5. Good(Listing(FreeSlot, table, after), trip, passengerDestination, isEvaluating)
    BY <1>1, <2>4, ListingGood
  <2>6. Good(op', trip, passengerDestination, isEvaluating)
    BY <1>1, <2>1, <2>5
  <2> QED BY <1>2, <2>1, <2>3, <2>6 DEF IInv, HandlersOK
<1> QED BY <1>3, <1>4, <1>5

-----------------------------------------------------------------------------
(* The replay and the timer keep the invariant.                            *)

LEMMA StepStep == ASSUME IInv, NEW measured \in BOOLEAN, Step(measured) PROVE IInv'
<1> DEFINE o == [Idle EXCEPT !.kind = "power", !.then = "probe"]
           valid == Fresh("probe")
<1>1. /\ state = "TRIP_ACTIVE" /\ pos' = TRUE /\ UNCHANGED <<screen, customOrigin, isEvaluating>>
      /\ Quiet(op, FreeSlot)
  BY FreeQuiet DEF Step
<1>2. op' = Send(FreeSlot, op, o) \/ op' = [op EXCEPT ![FreeSlot] = Resumption("probe", valid, NoStation)]
  BY DEF Step
<1>3. ScreenOK' /\ passengerDestination' = passengerDestination /\ trip' = trip
  BY <1>1 DEF IInv, ScreenOK, LockedOnPlan, screen, passengerDestination
<1>4. Good(op, trip, passengerDestination, isEvaluating) /\ isEvaluating \in BOOLEAN
  BY DEF IInv, HandlersOK
<1>5. "probe" \in Continuations /\ valid \in SUBSET Counters
      /\ NoStation \in Stations \cup {NoStation}
  BY FreshCounters DEF Continuations
<1>6. o \in Ops /\ o.kind = "power"
  BY <1>5, IdleOps DEF Ops, Kinds
<1> HIDE DEF o, valid
<1>7. Sendable(o, trip, passengerDestination) /\ o.kind # "evaluation"
  BY <1>6 DEF Sendable, RequestKinds
<1>8. Good(Send(FreeSlot, op, o), trip, passengerDestination, isEvaluating)
  BY <1>1, <1>4, <1>7, SendGood
<1>9. Good([op EXCEPT ![FreeSlot] = Resumption("probe", valid, NoStation)],
           trip, passengerDestination, isEvaluating)
  BY <1>1, <1>4, <1>5, ResumeGood, ZenonT(60)
<1>10. Good(op', trip, passengerDestination, isEvaluating)
  BY <1>2, <1>8, <1>9
<1> QED BY <1>1, <1>3, <1>4, <1>10 DEF IInv, HandlersOK

LEMMA TickStep == ASSUME IInv, Tick PROVE IInv'
<1>1. /\ UNCHANGED <<state, trip, customDest, route, navigation, energy, places>>
      /\ timer' \in BOOLEAN
      /\ \/ Evaluate(FreeSlot, op, "none")
         \/ UNCHANGED <<op, isEvaluating>>
      /\ Quiet(op, FreeSlot)
  BY FreeQuiet DEF Tick, IInv, ScreenOK
<1>2. ScreenOK' /\ passengerDestination' = passengerDestination
  BY <1>1 DEF IInv, ScreenOK, LockedOnPlan, navigation, places, passengerDestination
<1>3. Good(op, trip, passengerDestination, isEvaluating) /\ isEvaluating \in BOOLEAN
      /\ locked' \in BOOLEAN /\ "none" \in Continuations
  BY <1>2 DEF IInv, HandlersOK, ScreenOK, Continuations
<1>4. CASE Evaluate(FreeSlot, op, "none")
  <2>1. Good(op', trip, passengerDestination, isEvaluating') /\ isEvaluating' \in BOOLEAN
    BY <1>1, <1>3, <1>4, EvaluateGood
  <2> QED BY <1>1, <1>2, <2>1 DEF IInv, HandlersOK
<1>5. CASE UNCHANGED <<op, isEvaluating>>
  BY <1>1, <1>2, <1>3, <1>5 DEF IInv, HandlersOK
<1> QED BY <1>1, <1>4, <1>5

(* A handler that another one resumes evaluates nothing itself.            *)
LEMMA ResumedQuiet ==
  ASSUME IInv, NEW s \in Slots, op[s].kind = "resume"
  PROVE  /\ Quiet(op, s) /\ op[s] \in Ops /\ op \in [Slots -> Ops]
         /\ Good(op, trip, passengerDestination, isEvaluating) /\ isEvaluating \in BOOLEAN
<1>1. op \in [Slots -> Ops]
  BY DEF IInv, HandlersOK, Good, Sound
<1> QED BY <1>1 DEF IInv, HandlersOK, Quiet, EvaluationKinds

LEMMA ProbeStep == ASSUME IInv, NEW s \in Slots, op[s].kind = "resume", Probe(s) PROVE IInv'
<1> DEFINE o == [op[s] EXCEPT !.then = "finish"]
<1>1. UNCHANGED <<screen, places, isEvaluating>>
      /\ (op' = [op EXCEPT ![s] = Idle] \/ op' = [op EXCEPT ![s] = o])
  BY DEF Probe
<1>2. ScreenOK' /\ passengerDestination' = passengerDestination /\ trip' = trip
  BY <1>1, ScreenKept DEF IInv
<1>3. o \in Ops /\ o.kind = "resume"
  BY ResumedQuiet DEF Ops, Continuations
<1> HIDE DEF o
<1>4. OpOK(o) /\ Grounded(o, trip, passengerDestination) /\ o.kind \notin EvaluationKinds
  BY <1>3 DEF OpOK, Grounded, EvaluationKinds
<1>5. Good([op EXCEPT ![s] = o], trip, passengerDestination, isEvaluating)
  BY <1>3, <1>4, ResumedQuiet, PutGood, ZenonT(60)
<1>6. Good([op EXCEPT ![s] = Idle], trip, passengerDestination, isEvaluating)
  BY ResumedQuiet, IdleGood
<1>7. Good(op', trip, passengerDestination, isEvaluating)
  BY <1>1, <1>5, <1>6
<1> QED BY <1>1, <1>2, <1>7, ResumedQuiet DEF IInv, HandlersOK

LEMMA OffRouteStep == ASSUME IInv, NEW s \in Slots, op[s].kind = "resume", OffRoute(s) PROVE IInv'
<1>1. UNCHANGED <<screen, places, isEvaluating>> /\ trip # NoTrip /\ op' = Reroute(s, op, "finish")
  BY DEF OffRoute
<1>2. ScreenOK' /\ passengerDestination' = passengerDestination /\ trip' = trip
  BY <1>1, ScreenKept DEF IInv
<1>3. "finish" \in Continuations
  BY DEF Continuations
<1>4. Good(op', trip, passengerDestination, isEvaluating)
  BY <1>1, <1>3, ResumedQuiet, RerouteGood DEF IInv
<1> QED BY <1>1, <1>2, <1>4, ResumedQuiet DEF IInv, HandlersOK

LEMMA ProgressType ==
  ASSUME ScreenOK, NEW st \in WaypointProgress
  PROVE  st \in Stages \cup {NoStages} /\ (stages # NoStages => st # NoStages)
<1>1. CASE st = stages
  BY <1>1 DEF ScreenOK
<1>2. CASE st # stages
  <2> DEFINE kept == IF stages # NoStages THEN stages
                     ELSE [mode |-> plan.mode, passenger |-> FALSE, station |-> FALSE]
             passed(n) == {plan.stops[i] : i \in 1..n}
             marked(n) == [kept EXCEPT !.passenger = @ \/ "PASSENGER" \in passed(n),
                                       !.station = @ \/ "STATION" \in passed(n)]
  <2>1. plan # NoPlan
    BY <1>2 DEF WaypointProgress
  <2>2. PICK n \in 0..Len(plan.stops) : st = marked(n)
    BY <1>2 DEF WaypointProgress
  <2>3. kept \in Stages
    <3>1. plan.mode \in Modes
      BY <2>1 DEF ScreenOK, Plans
    <3> QED BY <3>1 DEF ScreenOK, Stages
  <2> HIDE DEF kept, passed
  <2>4. PICK a \in BOOLEAN, b \in BOOLEAN : st = [kept EXCEPT !.passenger = a, !.station = b]
    <3>1. (kept.passenger \/ "PASSENGER" \in passed(n)) \in BOOLEAN
          /\ (kept.station \/ "STATION" \in passed(n)) \in BOOLEAN
      OBVIOUS
    <3> QED BY <2>2, <3>1, Zenon
  <2>5. st \in Stages
    BY <2>3, <2>4 DEF Stages
  <2> QED BY <2>5, NoValueAssumption
<1> QED BY <1>1, <1>2

LEMMA FinishStepStep ==
  ASSUME IInv, NEW s \in Slots, op[s].kind = "resume", FinishStep(s) PROVE IInv'
<1>1. UNCHANGED <<trip, customDest, route, plan, selected, energy, timer, customOrigin>>
  BY DEF FinishStep
<1>2. ScreenOK' /\ passengerDestination' = passengerDestination
  <2>1. CASE Current(s, {"generation"})
    <3>1. stages' \in WaypointProgress /\ UNCHANGED <<locked, pos>> /\ state' \in {state, "TRIP_COMPLETE"}
      BY <2>1 DEF FinishStep
    <3>2. stages' \in Stages \cup {NoStages} /\ (stages # NoStages => stages' # NoStages)
      BY <3>1, ProgressType DEF IInv
    <3> QED BY <1>1, <3>1, <3>2 DEF IInv, ScreenOK, LockedOnPlan, States, passengerDestination
  <2>2. CASE ~Current(s, {"generation"})
    <3>1. UNCHANGED <<state, stages, locked, pos>>
      BY <2>2 DEF FinishStep
    <3> QED BY <1>1, <3>1 DEF IInv, ScreenOK, LockedOnPlan, passengerDestination
  <2> QED BY <2>1, <2>2
<1>3. \/ op' = [op EXCEPT ![s] = Idle] /\ isEvaluating' = isEvaluating
      \/ Evaluate(s, op, "none")
      \/ Evaluate(s, op, "complete")
  BY DEF FinishStep
<1>4. Good(op', trip, passengerDestination, isEvaluating') /\ isEvaluating' \in BOOLEAN
  <2>1. "none" \in Continuations /\ "complete" \in Continuations /\ locked' \in BOOLEAN
    BY <1>2 DEF Continuations, ScreenOK
  <2>2. CASE op' = [op EXCEPT ![s] = Idle] /\ isEvaluating' = isEvaluating
    BY <2>2, ResumedQuiet, IdleGood
  <2>3. CASE Evaluate(s, op, "none")
    BY <2>1, <2>3, ResumedQuiet, EvaluateGood
  <2>4. CASE Evaluate(s, op, "complete")
    BY <2>1, <2>4, ResumedQuiet, EvaluateGood
  <2> QED BY <1>3, <2>2, <2>3, <2>4
<1> QED BY <1>1, <1>2, <1>4 DEF IInv, HandlersOK

LEMMA SocConfirmedStep ==
  ASSUME IInv, NEW s \in Slots, op[s].kind = "resume", SocConfirmed(s) PROVE IInv'
<1>1. /\ UNCHANGED <<screen, places>>
      /\ \/ Evaluate(s, op, "drawer")
         \/ op' = [op EXCEPT ![s] = Idle] /\ isEvaluating' = isEvaluating
  BY DEF SocConfirmed
<1>2. ScreenOK' /\ passengerDestination' = passengerDestination /\ trip' = trip
  BY <1>1, ScreenKept DEF IInv
<1>3. Good(op', trip, passengerDestination, isEvaluating') /\ isEvaluating' \in BOOLEAN
  <2>1. "drawer" \in Continuations /\ locked' \in BOOLEAN
    BY <1>2 DEF Continuations, ScreenOK
  <2>2. CASE Evaluate(s, op, "drawer")
    BY <2>1, <2>2, ResumedQuiet, EvaluateGood
  <2>3. CASE op' = [op EXCEPT ![s] = Idle] /\ isEvaluating' = isEvaluating
    BY <2>3, ResumedQuiet, IdleGood
  <2> QED BY <1>1, <2>2, <2>3
<1> QED BY <1>2, <1>3 DEF IInv, HandlersOK

LEMMA SocEvaluatedStep ==
  ASSUME IInv, NEW s \in Slots, NEW list \in Lists, op[s].kind = "resume", SocEvaluated(s, list)
  PROVE  IInv'
<1> DEFINE ended == [op EXCEPT ![s] = Idle]
           after == list = "after"
<1>1. /\ UNCHANGED <<state, trip, customDest, route, navigation, timer, places, isEvaluating>>
      /\ (op' = Listing(s, ended, after) \/ op' = ended)
  BY Zenon DEF SocEvaluated
<1>2. energy' \in {energy, "none"}
  BY DEF SocEvaluated, Listed
<1>3. ScreenOK' /\ passengerDestination' = passengerDestination
  BY <1>1, <1>2 DEF IInv, ScreenOK, LockedOnPlan, navigation, places, passengerDestination
<1>4. Good(ended, trip, passengerDestination, isEvaluating) /\ Quiet(ended, s)
  BY ResumedQuiet, IdleGood
<1>5. after \in BOOLEAN
  OBVIOUS
<1> HIDE DEF ended, after
<1>6. Good(op', trip, passengerDestination, isEvaluating)
  BY <1>1, <1>4, <1>5, ListingGood
<1> QED BY <1>1, <1>3, <1>6, ResumedQuiet DEF IInv, HandlersOK

LEMMA TripStartedStep ==
  ASSUME IInv, NEW s \in Slots, op[s].kind = "resume", TripStarted(s) PROVE IInv'
<1>1. /\ UNCHANGED <<state, trip, customDest, route, navigation, energy, places, isEvaluating>>
      /\ op' = [op EXCEPT ![s] = Idle]
  BY DEF TripStarted
<1>2. timer' \in BOOLEAN
  BY DEF TripStarted
<1>3. ScreenOK' /\ passengerDestination' = passengerDestination
  BY <1>1, <1>2 DEF IInv, ScreenOK, LockedOnPlan, navigation, places, passengerDestination
<1>4. Good(op', trip, passengerDestination, isEvaluating)
  BY <1>1, ResumedQuiet, IdleGood
<1> QED BY <1>1, <1>3, <1>4, ResumedQuiet DEF IInv, HandlersOK

LEMMA TripCompletedStep ==
  ASSUME IInv, NEW s \in Slots, op[s].kind = "resume", TripCompleted(s) PROVE IInv'
<1>1. /\ UNCHANGED <<state, trip, customDest, route, plan, stages, energy, timer, places, isEvaluating>>
      /\ op' = [op EXCEPT ![s] = Idle]
  BY DEF TripCompleted
<1>2. locked \in BOOLEAN /\ ScreenOK
  BY DEF IInv, ScreenOK
<1>3. ScreenOK' /\ passengerDestination' = passengerDestination
  <2>1. CASE Current(s, {"generation"})
    <3>1. locked' = FALSE /\ selected' = NoStation
      BY <1>2, <2>1 DEF TripCompleted
    <3> QED BY <1>1, <1>2, <3>1 DEF ScreenOK, LockedOnPlan, places, passengerDestination
  <2>2. CASE ~Current(s, {"generation"})
    <3>1. locked' = locked /\ selected' = selected
      BY <1>2, <2>2 DEF TripCompleted
    <3> QED BY <1>1, <1>2, <3>1 DEF ScreenOK, LockedOnPlan, places, passengerDestination
  <2> QED BY <2>1, <2>2
<1>4. Good(op', trip, passengerDestination, isEvaluating)
  BY <1>1, ResumedQuiet, IdleGood
<1> QED BY <1>1, <1>3, <1>4, ResumedQuiet DEF IInv, HandlersOK

-----------------------------------------------------------------------------
(* The answers keep the invariant.                                         *)

LEMMA AnsweredQuiet ==
  ASSUME IInv, NEW s \in Slots
  PROVE  /\ op \in [Slots -> Ops] /\ op[s] \in Ops
         /\ OpOK(op[s]) /\ Grounded(op[s], trip, passengerDestination)
         /\ Good(op, trip, passengerDestination, isEvaluating) /\ isEvaluating \in BOOLEAN
         /\ op[s].kind \notin EvaluationKinds => Quiet(op, s)
<1>1. op \in [Slots -> Ops]
  BY DEF IInv, HandlersOK, Good, Sound
<1> QED BY <1>1 DEF IInv, HandlersOK, Good, Sound, Quiet

LEMMA ReturnedGood ==
  ASSUME IInv, NEW s \in Slots, op[s].kind \notin EvaluationKinds
  PROVE  Good(Return(s, op), trip, passengerDestination, isEvaluating)
BY AnsweredQuiet, ReturnGood

(* The evaluation that returns was the only one.                           *)
LEMMA ReturnEnds ==
  ASSUME IInv, NEW s \in Slots, op[s].kind \in EvaluationKinds
  PROVE  Good(Return(s, op), trip, passengerDestination, FALSE)
<1> DEFINE o == Resumption(op[s].then, op[s].valid, op[s].station)
           new == [op EXCEPT ![s] = o]
<1>1. /\ op[s].then \in Continuations /\ op[s].valid \in SUBSET Counters
      /\ op[s].station \in Stations \cup {NoStation}
  BY AnsweredQuiet DEF Ops
<1>2. /\ o \in Ops /\ o.kind \in {"idle", "resume"} /\ OpOK(o)
      /\ Grounded(o, trip, passengerDestination)
  BY <1>1, ResumptionOps
<1> HIDE DEF o
<1>3. Sound(op, trip, passengerDestination) /\ OneEvaluation(op, isEvaluating)
      /\ isEvaluating \in BOOLEAN
  BY DEF IInv, HandlersOK, Good
<1>4. /\ Sound(new, trip, passengerDestination)
      /\ \A r \in Slots : new[r] = IF r = s THEN o ELSE op[r]
  BY <1>2, <1>3 DEF Sound
<1> HIDE DEF new
<1>5. OneEvaluation(new, FALSE)
  BY <1>2, <1>3, <1>4, EvaluationEnds DEF EvaluationKinds
<1>6. Good(new, trip, passengerDestination, FALSE)
  BY <1>4, <1>5 DEF Good
<1> QED BY <1>6 DEF new, o, Return

LEMMA PowerAnsweredStep == ASSUME IInv, NEW s \in Slots, PowerAnswered(s) PROVE IInv'
<1> DEFINE c == {"_powerRevision"}
           moved == Bump(c, op)
<1>1. /\ UNCHANGED <<screen, places, isEvaluating>> /\ op[s].kind \notin EvaluationKinds
      /\ (op' = Return(s, op) \/ op' = Return(s, moved))
  BY DEF PowerAnswered, EvaluationKinds
<1>2. ScreenOK' /\ passengerDestination' = passengerDestination /\ trip' = trip
  BY <1>1, ScreenKept DEF IInv
<1>3. c \in SUBSET Counters /\ "_powerRevision" \in c
  BY DEF Counters
<1> HIDE DEF c
<1>4. Good(moved, trip, passengerDestination, isEvaluating) /\ Quiet(moved, s)
  BY <1>1, <1>3, AnsweredQuiet, BumpGood
<1> HIDE DEF moved
<1>5. Good(op', trip, passengerDestination, isEvaluating)
  BY <1>1, <1>4, AnsweredQuiet, ReturnGood, ReturnedGood
<1> QED BY <1>1, <1>2, <1>5, AnsweredQuiet DEF IInv, HandlersOK

LEMMA AssignAnsweredStep == ASSUME IInv, NEW s \in Slots, AssignAnswered(s) PROVE IInv'
<1>1. /\ op[s].kind = "assign" /\ op' = Return(s, op)
      /\ UNCHANGED <<trip, customDest, navigation, energy, timer, places, isEvaluating>>
  BY DEF AssignAnswered
<1>2. ScreenOK' /\ passengerDestination' = passengerDestination
  <2>1. CASE AssignmentWelcome(s)
    <3>1. state' = "TRIP_ASSIGNED" /\ route' \in {route, Direct(op[s].dest)}
      BY <2>1 DEF AssignAnswered
    <3>2. op[s].dest \in Dests /\ trip # NoTrip
      BY <1>1, <2>1, AnsweredQuiet DEF AssignmentWelcome, Current, OpOK, Grounded
    <3>3. route' \in Routes \cup {NoRoute}
      BY <3>1, <3>2 DEF IInv, ScreenOK, Direct, Routes
    <3> QED BY <1>1, <3>1, <3>2, <3>3
          DEF IInv, ScreenOK, LockedOnPlan, States, navigation, places, passengerDestination
  <2>2. CASE ~AssignmentWelcome(s)
    <3>1. UNCHANGED <<state, route>>
      BY <2>2 DEF AssignAnswered
    <3> QED BY <1>1, <3>1
          DEF IInv, ScreenOK, LockedOnPlan, navigation, places, passengerDestination
  <2> QED BY <2>1, <2>2
<1>3. Good(op', trip, passengerDestination, isEvaluating)
  BY <1>1, ReturnedGood DEF EvaluationKinds
<1> QED BY <1>1, <1>2, <1>3, AnsweredQuiet DEF IInv, HandlersOK

LEMMA CustomAnsweredStep == ASSUME IInv, NEW s \in Slots, CustomAnswered(s) PROVE IInv'
<1> DEFINE ended == [op EXCEPT ![s] = Idle]
           answer == [dest |-> op[s].dest, passenger |-> op[s].dest]
<1>1. op[s].kind = "custom" /\ UNCHANGED <<customDest, navigation, energy, timer, places>>
  BY DEF CustomAnswered
<1>2. op[s].dest \in Dests /\ Quiet(op, s) /\ isEvaluating \in BOOLEAN
  BY <1>1, AnsweredQuiet DEF OpOK, EvaluationKinds
<1>3. CASE op' = Return(s, op) /\ UNCHANGED <<state, trip, route, isEvaluating>>
  <2>1. ScreenOK' /\ passengerDestination' = passengerDestination
    BY <1>1, <1>3 DEF IInv, ScreenOK, LockedOnPlan, navigation, places, passengerDestination
  <2>2. Good(op', trip, passengerDestination, isEvaluating)
    BY <1>1, <1>3, ReturnedGood DEF EvaluationKinds
  <2> QED BY <1>2, <1>3, <2>1, <2>2 DEF IInv, HandlersOK
<1>4. CASE ~(op' = Return(s, op) /\ UNCHANGED <<state, trip, route, isEvaluating>>)
  <2>1. /\ route' = Direct(op[s].dest) /\ trip' = answer
        /\ state' \in {state, "TRIP_ASSIGNED"}
        /\ \/ Evaluate(s, ended, "none")
           \/ op' = Return(s, op) /\ isEvaluating' = isEvaluating
    BY <1>4 DEF CustomAnswered
  <2>2. /\ answer \in Trips /\ answer # NoTrip /\ answer.passenger = op[s].dest
        /\ Direct(op[s].dest) \in Routes
    BY <1>2, NoValueAssumption DEF Trips, Direct, Routes
  <2> HIDE DEF answer
  <2>3. ScreenOK'
    BY <1>1, <2>1, <2>2 DEF IInv, ScreenOK, LockedOnPlan, States, navigation, places
  <2>4. passengerDestination' # NoDest
    BY <1>1, <1>2, <2>1, <2>2, NullAssumption DEF passengerDestination
  <2>5. Good(ended, trip, passengerDestination, isEvaluating) /\ Quiet(ended, s)
    BY <1>2, AnsweredQuiet, IdleGood
  <2> HIDE DEF ended
  <2>6. CASE Evaluate(s, ended, "none")
    <3>1. Good(ended, trip', passengerDestination', isEvaluating)
      BY <2>1, <2>2, <2>4, <2>5, StayGood
    <3>2. "none" \in Continuations /\ locked' \in BOOLEAN
      BY <2>3 DEF Continuations, ScreenOK
    <3>3. Good(op', trip', passengerDestination', isEvaluating') /\ isEvaluating' \in BOOLEAN
      BY <1>2, <2>5, <2>6, <3>1, <3>2, EvaluateGood
    <3> QED BY <2>3, <3>3 DEF IInv, HandlersOK
  <2>7. CASE op' = Return(s, op) /\ isEvaluating' = isEvaluating
    <3>1. Good(op', trip, passengerDestination, isEvaluating)
      BY <1>1, <2>7, ReturnedGood DEF EvaluationKinds
    <3>2. Good(op', trip', passengerDestination', isEvaluating)
      BY <2>1, <2>2, <2>4, <3>1, StayGood
    <3> QED BY <1>2, <2>3, <2>7, <3>2 DEF IInv, HandlersOK
  <2> QED BY <2>1, <2>6, <2>7
<1> QED BY <1>3, <1>4

LEMMA RerouteAnsweredStep == ASSUME IInv, NEW s \in Slots, RerouteAnswered(s) PROVE IInv'
<1>1. /\ op[s].kind = "reroute" /\ op' = Return(s, op) /\ route' \in {route, Direct(op[s].dest)}
      /\ UNCHANGED <<state, trip, customDest, navigation, energy, timer, places, isEvaluating>>
  BY DEF RerouteAnswered
<1>2. op[s].dest \in Dests \cup Stations
  BY <1>1, AnsweredQuiet DEF OpOK, Ops
<1>3. route' \in Routes \cup {NoRoute}
  BY <1>1, <1>2 DEF IInv, ScreenOK, Direct, Routes
<1>4. ScreenOK' /\ passengerDestination' = passengerDestination
  BY <1>1, <1>3 DEF IInv, ScreenOK, LockedOnPlan, navigation, places, passengerDestination
<1>5. Good(op', trip, passengerDestination, isEvaluating)
  BY <1>1, ReturnedGood DEF EvaluationKinds
<1> QED BY <1>1, <1>4, <1>5, AnsweredQuiet DEF IInv, HandlersOK

LEMMA SelectAnsweredStep == ASSUME IInv, NEW s \in Slots, SelectAnswered(s) PROVE IInv'
<1> DEFINE o == op[s]
           fresh == [mode |-> o.mode, passenger |-> FALSE, station |-> FALSE]
           target == IF o.plan.stops = <<"STATION", "PASSENGER">> THEN passengerDestination
                     ELSE o.station
           c == {"selectedStationPlan"}
           moved == Bump(c, op)
           newTrip == [dest |-> target, passenger |-> passengerDestination]
           newRoute == [to |-> target, via |-> o.station]
<1>1. /\ op[s].kind = "select" /\ isEvaluating' = isEvaluating
      /\ UNCHANGED <<customDest, energy, timer, places>>
  BY DEF SelectAnswered
<1>2. CASE op' = Return(s, op) /\ UNCHANGED <<navigation, route, trip, state>>
  <2>1. ScreenOK' /\ passengerDestination' = passengerDestination
    BY <1>1, <1>2 DEF IInv, ScreenOK, LockedOnPlan, navigation, places, passengerDestination
  <2>2. Good(op', trip, passengerDestination, isEvaluating)
    BY <1>1, <1>2, ReturnedGood DEF EvaluationKinds
  <2> QED BY <1>1, <1>2, <2>1, <2>2, AnsweredQuiet DEF IInv, HandlersOK
<1>3. CASE ~(op' = Return(s, op) /\ UNCHANGED <<navigation, route, trip, state>>)
  <2>1. /\ PlanWelcome(s)
        /\ plan' = o.plan /\ locked' = TRUE /\ selected' = o.station
        /\ \/ stages' = fresh
           \/ stages' = stages /\ stages # NoStages
        /\ route' = newRoute /\ trip' = newTrip
        /\ state' \in {state, "TRIP_ASSIGNED"}
        /\ op' = Return(s, moved)
    BY <1>3 DEF SelectAnswered
  <2>2. /\ o \in Ops /\ o.plan \in Plans /\ o.station = o.plan.station /\ o.mode \in Modes
        /\ o.station \in Stations
    BY <1>1, AnsweredQuiet DEF OpOK, Ops, Plans
  <2>3. o.plan.stops = <<"STATION", "PASSENGER">> => passengerDestination # NoDest
    BY <1>1, <2>1, AnsweredQuiet DEF PlanWelcome, Current, Grounded
  <2>4. passengerDestination \in Dests \cup {NoDest}
    BY PassengerType DEF IInv
  <2>5. target \in Dests \cup Stations
    BY <2>2, <2>3, <2>4
  <2> HIDE DEF target
  <2>6. newTrip \in Trips /\ newTrip # NoTrip /\ newTrip.passenger = passengerDestination
    BY <2>4, <2>5, NoValueAssumption DEF Trips
  <2>7. newRoute \in Routes
    BY <2>2, <2>5 DEF Routes
  <2>8. fresh \in Stages /\ fresh # NoStages
    <3>1. fresh \in Stages
      BY <2>2 DEF Stages
    <3> QED BY <3>1, NoValueAssumption
  <2> HIDE DEF newTrip, newRoute, fresh
  <2>9. ScreenOK'
    <3>1. /\ state' \in States /\ trip' \in Trips \cup {NoTrip} /\ route' \in Routes \cup {NoRoute}
          /\ stages' \in Stages \cup {NoStages} /\ stages' # NoStages
          /\ plan' \in Plans /\ plan' # NoPlan /\ selected' \in Stations
      BY <2>1, <2>2, <2>6, <2>7, <2>8, NoValueAssumption DEF IInv, ScreenOK, States
    <3> QED BY <1>1, <2>1, <2>2, <2>6, <3>1 DEF IInv, ScreenOK, LockedOnPlan, places
  <2>10. passengerDestination' = passengerDestination
    BY <1>1, <2>1, <2>6 DEF passengerDestination
  <2>11. c \in SUBSET Counters /\ "input" \notin c
    BY DEF Counters
  <2> HIDE DEF c
  <2>12. Good(moved, trip, passengerDestination, isEvaluating) /\ Quiet(moved, s)
    BY <1>1, <2>11, AnsweredQuiet, BumpGood DEF EvaluationKinds
  <2> HIDE DEF moved
  <2>13. Good(op', trip, passengerDestination, isEvaluating)
    BY <2>1, <2>12, AnsweredQuiet, ReturnGood
  <2>14. Good(op', trip', passengerDestination', isEvaluating)
    BY <2>1, <2>6, <2>10, <2>13, StayGood
  <2> QED BY <1>1, <2>9, <2>14, AnsweredQuiet DEF IInv, HandlersOK
<1> QED BY <1>2, <1>3

LEMMA EnergyCurrent ==
  ASSUME IInv, NEW s \in Slots, op[s].kind \in {"evaluation", "drawer"},
         Current(s, {"_powerRevision"})
  PROVE  EnergyOf(s) = "current"
BY AnsweredQuiet DEF OpOK, Current, EnergyOf

LEMMA DrawerAnsweredStep == ASSUME IInv, NEW s \in Slots, DrawerAnswered(s) PROVE IInv'
<1>1. /\ op[s].kind = "drawer" /\ op' = Return(s, op)
      /\ UNCHANGED <<state, trip, customDest, route, navigation, timer, places, isEvaluating>>
  BY DEF DrawerAnswered
<1>2. energy' \in {energy, "current"}
  BY <1>1, EnergyCurrent DEF DrawerAnswered, Current
<1>3. ScreenOK' /\ passengerDestination' = passengerDestination
  BY <1>1, <1>2 DEF IInv, ScreenOK, LockedOnPlan, navigation, places, passengerDestination
<1>4. Good(op', trip, passengerDestination, isEvaluating)
  BY <1>1, ReturnedGood DEF EvaluationKinds
<1> QED BY <1>1, <1>3, <1>4, AnsweredQuiet DEF IInv, HandlersOK

LEMMA EvaluationAnsweredStep == ASSUME IInv, NEW s \in Slots, EvaluationAnswered(s) PROVE IInv'
<1> DEFINE o == [op[s] EXCEPT !.kind = "diversion"]
<1>1. /\ op[s].kind = "evaluation"
      /\ UNCHANGED <<state, trip, customDest, route, navigation, timer, places>>
  BY DEF EvaluationAnswered
<1>2. /\ \/ op' = Return(s, op) /\ isEvaluating' = FALSE
         \/ op' = [op EXCEPT ![s] = o] /\ isEvaluating' = isEvaluating
      /\ energy' = energy \/ energy' = "none" \/ (AnswerWelcome(s) /\ energy' = EnergyOf(s))
  BY DEF EvaluationAnswered
<1>3. energy' \in {"none", "current"}
  <2>1. AnswerWelcome(s) => EnergyOf(s) = "current"
    BY <1>1, EnergyCurrent DEF AnswerWelcome, Current
  <2> QED BY <1>2, <2>1 DEF IInv, ScreenOK
<1>4. ScreenOK' /\ passengerDestination' = passengerDestination
  BY <1>1, <1>3 DEF IInv, ScreenOK, LockedOnPlan, navigation, places, passengerDestination
<1>5. CASE op' = Return(s, op) /\ isEvaluating' = FALSE
  <2>1. Good(op', trip, passengerDestination, FALSE)
    BY <1>1, <1>5, ReturnEnds DEF EvaluationKinds
  <2> QED BY <1>1, <1>4, <1>5, <2>1 DEF IInv, HandlersOK
<1>6. CASE op' = [op EXCEPT ![s] = o] /\ isEvaluating' = isEvaluating
  <2>1. o \in Ops /\ o.kind = "diversion"
    BY AnsweredQuiet DEF Ops, Kinds
  <2> HIDE DEF o
  <2>2. OpOK(o) /\ Grounded(o, trip, passengerDestination)
    BY <2>1 DEF OpOK, Grounded
  <2>3. Sound(op, trip, passengerDestination) /\ OneEvaluation(op, isEvaluating)
    BY DEF IInv, HandlersOK, Good
  <2>4. /\ Sound(op', trip, passengerDestination)
        /\ \A r \in Slots : op'[r] = IF r = s THEN o ELSE op[r]
    BY <1>6, <2>1, <2>2, <2>3 DEF Sound
  <2>5. OneEvaluation(op', isEvaluating)
    BY <1>1, <2>1, <2>3, <2>4, SameEvaluations DEF EvaluationKinds
  <2> QED BY <1>1, <1>4, <1>6, <2>4, <2>5, AnsweredQuiet DEF IInv, HandlersOK, Good
<1> QED BY <1>2, <1>5, <1>6

LEMMA DiversionAnsweredStep == ASSUME IInv, NEW s \in Slots, DiversionAnswered(s) PROVE IInv'
<1>1. /\ op[s].kind = "diversion" /\ op' = Return(s, op) /\ isEvaluating' = FALSE
      /\ UNCHANGED <<screen, places>>
  BY DEF DiversionAnswered
<1>2. ScreenOK' /\ passengerDestination' = passengerDestination /\ trip' = trip
  BY <1>1, ScreenKept DEF IInv
<1>3. Good(op', trip, passengerDestination, FALSE)
  BY <1>1, ReturnEnds DEF EvaluationKinds
<1> QED BY <1>1, <1>2, <1>3 DEF IInv, HandlersOK

-----------------------------------------------------------------------------
(* Every step keeps the invariant.                                         *)

LEMMA DriverKeeps == ASSUME IInv, Driver PROVE IInv'
<1>1. CASE SetOrigin
  BY <1>1, SetOriginStep
<1>2. CASE \E d \in Dests : SetDestination(d)
  BY <1>2, SetDestinationStep
<1>3. CASE ClearDestination
  BY <1>3, ClearDestinationStep
<1>4. CASE Accept
  BY <1>4, AcceptStep
<1>5. CASE StartTrip
  BY <1>5, StartTripStep
<1>6. CASE CompleteTrip
  BY <1>6, CompleteTripStep
<1>7. CASE ReturnToAvailable
  BY <1>7, ReturnToAvailableStep
<1>8. CASE GoOffline
  BY <1>8, GoOfflineStep
<1>9. CASE GoOnline
  BY <1>9, GoOnlineStep
<1>10. CASE \E after \in BOOLEAN : ShowStations(after)
  BY <1>10, ShowStationsStep
<1>11. CASE \E station \in Stations, mode \in Modes : SelectStation(station, mode)
  BY <1>11, SelectStationStep
<1>12. CASE UnlockNavigation
  BY <1>12, UnlockNavigationStep
<1>13. CASE \E trigger \in BOOLEAN : SetBatterySoc(trigger)
  BY <1>13, SetBatterySocStep
<1>14. CASE \E supported, other \in BOOLEAN, list \in Lists :
               SelectVehicleModel(supported, other, list)
  BY <1>14, SelectVehicleModelStep
<1> QED BY <1>1, <1>2, <1>3, <1>4, <1>5, <1>6, <1>7, <1>8, <1>9, <1>10, <1>11, <1>12,
            <1>13, <1>14 DEF Driver

LEMMA NextInvariant == IInv /\ [Next]_vars => IInv'
<1> SUFFICES ASSUME IInv, [Next]_vars PROVE IInv'
  OBVIOUS
<1>1. CASE UNCHANGED vars
  <2>1. ScreenOK' /\ passengerDestination' = passengerDestination /\ trip' = trip
    BY <1>1, ScreenKept DEF IInv, vars
  <2>2. op' = op /\ isEvaluating' = isEvaluating
    BY <1>1 DEF vars
  <2> QED BY <2>1, <2>2 DEF IInv, HandlersOK
<1>2. CASE Driver
  BY <1>2, DriverKeeps
<1>3. CASE Tick
  BY <1>3, TickStep
<1>4. CASE \E measured \in BOOLEAN : Step(measured)
  BY <1>4, StepStep
<1>5. CASE \E s \in Slots : Answer(s)
  BY <1>5, PowerAnsweredStep, AssignAnsweredStep, CustomAnsweredStep, RerouteAnsweredStep,
     SelectAnsweredStep, DrawerAnsweredStep, EvaluationAnsweredStep, DiversionAnsweredStep
     DEF Answer
<1>6. CASE \E s \in Slots : Resume(s)
  BY <1>6, ProbeStep, OffRouteStep, FinishStepStep, SocConfirmedStep, SocEvaluatedStep,
     TripStartedStep, TripCompletedStep DEF Resume
<1> QED BY <1>1, <1>2, <1>3, <1>4, <1>5, <1>6 DEF Next

-----------------------------------------------------------------------------
(* What locks the navigation.                                              *)

(* No button locks.                                                        *)
LEMMA DriverNeverLocks == ASSUME ScreenOK, Driver PROVE locked' => locked
<1>1. CASE \/ SetOrigin \/ (\E d \in Dests : SetDestination(d)) \/ ClearDestination
           \/ ReturnToAvailable \/ UnlockNavigation \/ CompleteTrip
  BY <1>1, Zenon DEF SetOrigin, SetDestination, ClearDestination, ClearedScreen, NavigationDropped,
     ReturnToAvailable, UnlockNavigation, CompleteTrip
<1>2. CASE \/ Accept \/ StartTrip \/ GoOffline \/ GoOnline
           \/ (\E after \in BOOLEAN : ShowStations(after))
           \/ (\E station \in Stations, mode \in Modes : SelectStation(station, mode))
           \/ (\E trigger \in BOOLEAN : SetBatterySoc(trigger))
  <2>1. locked' = locked
    BY <1>2 DEF Accept, StartTrip, GoOffline, GoOnline, ShowStations, SelectStation,
       SetBatterySoc, navigation, screen
  <2> QED BY <2>1
<1>3. ASSUME NEW supported \in BOOLEAN, NEW other \in BOOLEAN, NEW list \in Lists,
             SelectVehicleModel(supported, other, list)
      PROVE  locked' => locked
  <2>1. CASE ~supported
    <3>1. UNCHANGED screen
      BY <1>3, <2>1 DEF SelectVehicleModel
    <3> QED BY <3>1 DEF screen
  <2>2. CASE supported /\ other /\ trip # NoTrip
    BY <1>3, <2>2 DEF SelectVehicleModel, NavigationDropped
  <2>3. CASE supported /\ ~(other /\ trip # NoTrip)
    <3>1. UNCHANGED navigation
      BY <1>3, <2>3 DEF SelectVehicleModel
    <3> QED BY <3>1 DEF navigation
  <2> QED BY <2>1, <2>2, <2>3
<1> QED BY <1>1, <1>2, <1>3 DEF Driver

(* Nor does a handler that another one resumes.                            *)
LEMMA ResumeNeverLocks ==
  ASSUME ScreenOK, NEW s \in Slots, Resume(s) PROVE locked' => locked
<1>1. CASE Probe(s) \/ OffRoute(s) \/ SocConfirmed(s)
  <2>1. UNCHANGED screen
    BY <1>1 DEF Probe, OffRoute, SocConfirmed
  <2> QED BY <2>1 DEF screen
<1>2. CASE TripStarted(s) \/ \E list \in Lists : SocEvaluated(s, list)
  <2>1. UNCHANGED navigation
    BY <1>2 DEF TripStarted, SocEvaluated
  <2> QED BY <2>1 DEF navigation
<1>3. CASE FinishStep(s)
  BY <1>3 DEF FinishStep
<1>4. CASE TripCompleted(s)
  BY <1>4 DEF TripCompleted
<1> QED BY <1>1, <1>2, <1>3, <1>4 DEF Resume

ChoiceLocks ==
  ~locked /\ locked' =>
    \E s \in Slots : /\ op[s].kind = "select" /\ ~op[s].refresh
                     /\ op'[s].kind # "select"

LEMMA AnswerLocks == ASSUME IInv, NEW s \in Slots, Answer(s) PROVE ChoiceLocks
<1>1. CASE SelectAnswered(s)
  <2>1. SUFFICES ASSUME ~locked, locked' PROVE ChoiceLocks
    BY DEF ChoiceLocks
  <2> DEFINE c == {"selectedStationPlan"}
             moved == Bump(c, op)
  <2>2. op[s].kind = "select" /\ PlanWelcome(s) /\ op' = Return(s, moved)
    BY <1>1, <2>1 DEF SelectAnswered, navigation
  <2>3. ~op[s].refresh
    BY <2>1, <2>2 DEF PlanWelcome
  <2>4. op'[s].kind # "select"
    <3>1. op[s].then \in Continuations /\ op[s].valid \in SUBSET Counters
          /\ op[s].station \in Stations \cup {NoStation}
      BY AnsweredQuiet DEF Ops
    <3> DEFINE o == Resumption(op[s].then, op[s].valid, op[s].station)
    <3>2. o.kind \in {"idle", "resume"}
      BY <3>1, ResumptionOps
    <3>3. op' = [moved EXCEPT ![s] = o] /\ s \in DOMAIN moved
      BY <2>2 DEF Return, Bump
    <3> HIDE DEF o, moved
    <3> QED BY <3>2, <3>3
  <2> QED BY <2>2, <2>3, <2>4 DEF ChoiceLocks
<1>2. CASE ~SelectAnswered(s)
  <2>1. locked' = locked
    BY <1>2 DEF Answer, PowerAnswered, AssignAnswered, CustomAnswered, RerouteAnswered,
       DrawerAnswered, EvaluationAnswered, DiversionAnswered, navigation, screen
  <2> QED BY <2>1 DEF ChoiceLocks
<1> QED BY <1>1, <1>2

LEMMA StepLocks == IInv /\ [Next]_vars => [ChoiceLocks]_vars
<1> SUFFICES ASSUME IInv, Next PROVE ChoiceLocks
  OBVIOUS
<1>1. ScreenOK
  BY DEF IInv
<1>2. CASE Tick \/ \E measured \in BOOLEAN : Step(measured)
  <2>1. locked' = locked
    BY <1>2 DEF Tick, Step, navigation, screen
  <2> QED BY <2>1 DEF ChoiceLocks
<1> QED BY <1>1, <1>2, DriverNeverLocks, ResumeNeverLocks, AnswerLocks DEF Next, ChoiceLocks

-----------------------------------------------------------------------------
(* What an answer of an earlier generation changes.                        *)

Inert ==
  \A s \in Slots :
    /\ op[s].kind # "idle" /\ op'[s].kind # op[s].kind
    /\ ~Current(s, {"generation"})
    => UNCHANGED screen

(* The table holds the waiting handlers of op, that of slot r apart.       *)
Framed(table, r) ==
  /\ table \in [Slots -> Ops]
  /\ \A s \in Slots : op[s].kind # "idle" /\ s # r => table[s].kind = op[s].kind

LEMMA BumpFramed ==
  ASSUME NEW table, NEW r, NEW c \in SUBSET Counters, Framed(table, r)
  PROVE  Framed(Bump(c, table), r)
<1> DEFINE bumped == Bump(c, table)
<1>1. Bumped(bumped, table, c)
  BY BumpFields DEF Framed
<1> HIDE DEF bumped
<1>2. Framed(bumped, r)
  BY <1>1 DEF Bumped, Framed
<1> QED BY <1>2 DEF bumped

LEMMA SlotFramed ==
  ASSUME NEW table, NEW r, NEW o, Framed(table, r), [table EXCEPT ![r] = o] \in [Slots -> Ops]
  PROVE  Framed([table EXCEPT ![r] = o], r)
BY DEF Framed

LEMMA SendFramed ==
  ASSUME NEW table, NEW r, NEW o, Framed(table, r), Send(r, table, o) \in [Slots -> Ops]
  PROVE  Framed(Send(r, table, o), r)
BY SlotFramed DEF Send

LEMMA MovedFramed ==
  ASSUME NEW table, NEW r, Framed(table, r)
  PROVE  /\ Framed(Bump({"routeRevision"}, table), r)
         /\ Framed(Bump({"_drawerRevision"}, table), r)
         /\ Framed(Bump({"_powerRevision"}, table), r)
         /\ Framed(Bump({"selectedStationPlan"}, table), r)
         /\ Framed(Bump({"routeRevision", "selectedStationPlan"}, table), r)
         /\ Framed(Bump({"generation", "_powerRevision"}, table), r)
         /\ Framed(Bump({"generation", "_powerRevision", "selectedStationPlan"}, table), r)
         /\ Framed(Cleared(table), r)
<1>1. /\ {"routeRevision"} \in SUBSET Counters
      /\ {"_drawerRevision"} \in SUBSET Counters
      /\ {"_powerRevision"} \in SUBSET Counters
      /\ {"selectedStationPlan"} \in SUBSET Counters
      /\ {"routeRevision", "selectedStationPlan"} \in SUBSET Counters
      /\ {"generation", "_powerRevision"} \in SUBSET Counters
      /\ {"generation", "_powerRevision", "selectedStationPlan"} \in SUBSET Counters
      /\ {"generation", "routeRevision", "selectedStationPlan"} \in SUBSET Counters
  BY DEF Counters
<1> QED BY <1>1, BumpFramed, ZenonT(60) DEF Cleared

(* The handlers that send something leave the others waiting.              *)
LEMMA HandlersFramed ==
  ASSUME NEW table, NEW r, Framed(table, r), op' \in [Slots -> Ops]
  PROVE  /\ \A d : op' = CustomRoute(r, table, d) => Framed(op', r)
         /\ \A after : op' = Listing(r, table, after) => Framed(op', r)
         /\ \A st, m, refresh, then :
              op' = Confirmation(r, table, st, m, refresh, then) => Framed(op', r)
         /\ \A then : op' = Reroute(r, table, then) => Framed(op', r)
         /\ \A then : Evaluate(r, table, then) => Framed(op', r)
<1> USE MovedFramed
<1>1. ASSUME NEW new, NEW o, op' = Send(r, new, o), Framed(new, r) PROVE Framed(op', r)
  BY <1>1, SendFramed
<1>2. ASSUME NEW o, op' = [table EXCEPT ![r] = o] PROVE Framed(op', r)
  BY <1>2, SlotFramed
<1>3. ASSUME NEW d, op' = CustomRoute(r, table, d) PROVE Framed(op', r)
  BY <1>1, <1>3, Zenon DEF CustomRoute
<1>4. ASSUME NEW after, op' = Listing(r, table, after) PROVE Framed(op', r)
  BY <1>1, <1>4, Zenon DEF Listing
<1>5. ASSUME NEW st, NEW m, NEW refresh, NEW then,
             op' = Confirmation(r, table, st, m, refresh, then)
      PROVE  Framed(op', r)
  BY <1>1, <1>5, Zenon DEF Confirmation
<1>6. ASSUME NEW then, op' = Reroute(r, table, then) PROVE Framed(op', r)
  BY <1>1, <1>2, <1>5, <1>6, Zenon DEF Reroute
<1>7. ASSUME NEW then, Evaluate(r, table, then) PROVE Framed(op', r)
  BY <1>1, <1>2, <1>7, Zenon DEF Evaluate
<1> QED BY <1>3, <1>4, <1>5, <1>6, <1>7, Zenon

LEMMA FramedInert ==
  ASSUME NEW r, Framed(op', r),
         op[r].kind = "idle" \/ Current(r, {"generation"}) \/ UNCHANGED screen
  PROVE  Inert
BY DEF Framed, Inert

(* The tables that the handlers start from.                                *)
LEMMA OpFramed ==
  ASSUME IInv, NEW r PROVE Framed(op, r)
BY DEF IInv, HandlersOK, Good, Sound, Framed

LEMMA IdleFramed ==
  ASSUME NEW table, NEW r, NEW s, Framed(table, r), s = r \/ op[s].kind = "idle"
  PROVE  Framed([table EXCEPT ![s] = Idle], r)
BY IdleOps DEF Framed

LEMMA FreeFramed ==
  ASSUME IInv, Free(1)
  PROVE  op[FreeSlot].kind = "idle" /\ Framed(op, FreeSlot)
BY FreeSlotIdle, IdleOps, OpFramed

LEMMA UnlockInert ==
  ASSUME IInv, op' \in [Slots -> Ops], UnlockNavigation PROVE Inert
<1> DEFINE given == Bump({"selectedStationPlan"}, op)
           probe == Resumption("probe", Fresh("probe"), NoStation)
<1>1. Free(IF isEvaluating THEN 1 ELSE 2)
  BY DEF UnlockNavigation
<1>2. op[FreeSlot].kind = "idle"
  BY <1>1, FreeSlotIdle, IdleOps DEF IInv, HandlersOK
<1>3. Framed(given, FreeSlot)
  BY OpFramed, MovedFramed
<1>4. CASE isEvaluating
  <2>1. op' = [given EXCEPT ![FreeSlot] = probe]
    BY <1>4 DEF UnlockNavigation
  <2> HIDE DEF given, probe
  <2> QED BY <1>2, <1>3, <2>1, SlotFramed, FramedInert
<1>5. CASE ~isEvaluating
  <2> DEFINE other == CHOOSE r \in Slots \ {FreeSlot} : op[r] = Idle
             table == [given EXCEPT ![other] = probe]
  <2>1. \E r \in Slots \ {FreeSlot} : op[r] = Idle
    BY <1>1, <1>5, FreeSlotIdle DEF IInv, HandlersOK
  <2>2. op[other].kind = "idle"
    BY <2>1, IdleOps
  <2>3. Evaluate(FreeSlot, table, "none")
    BY <1>5 DEF UnlockNavigation
  <2>4. probe \in Ops
    <3> DEFINE valid == Fresh("probe")
    <3>1. "probe" \in Continuations /\ valid \in SUBSET Counters
          /\ NoStation \in Stations \cup {NoStation}
      BY FreshCounters DEF Continuations
    <3> HIDE DEF valid
    <3>2. Resumption("probe", valid, NoStation) \in Ops
      BY <3>1, ResumptionOps
    <3> QED BY <3>2 DEF valid
  <2> HIDE DEF given, probe, other
  <2>5. Framed(table, FreeSlot)
    BY <1>3, <2>2, <2>4 DEF Framed
  <2> HIDE DEF table
  <2> QED BY <1>2, <2>3, <2>5, HandlersFramed, FramedInert
<1> QED BY <1>4, <1>5

LEMMA SocInert ==
  ASSUME IInv, op' \in [Slots -> Ops], NEW trigger \in BOOLEAN, SetBatterySoc(trigger)
  PROVE  Inert
<1> DEFINE c == {"_powerRevision", "input"} \cup
                (IF plan # NoPlan THEN {"selectedStationPlan"} ELSE {})
           table == Bump(c, op)
           resumed == Resumption("soc", Fresh("soc"), NoStation)
<1>1. Framed(table, FreeSlot) /\ op[FreeSlot].kind = "idle"
  <2>1. c \in SUBSET Counters
    BY DEF Counters
  <2> HIDE DEF c
  <2> QED BY <2>1, BumpFramed, FreeFramed DEF SetBatterySoc
<1>2. \/ op' = table
      \/ op' = Reroute(FreeSlot, table, "soc")
      \/ op' = [table EXCEPT ![FreeSlot] = resumed]
  BY Zenon DEF SetBatterySoc
<1> HIDE DEF table, resumed
<1>3. Framed(op', FreeSlot)
  <2>1. CASE op' = Reroute(FreeSlot, table, "soc")
    BY <1>1, <2>1, HandlersFramed
  <2>2. CASE op' = [table EXCEPT ![FreeSlot] = resumed]
    BY <1>1, <2>2, SlotFramed
  <2> QED BY <1>1, <1>2, <2>1, <2>2
<1> QED BY <1>1, <1>3, FramedInert

LEMMA VehicleInert ==
  ASSUME IInv, op' \in [Slots -> Ops], NEW supported \in BOOLEAN, NEW other \in BOOLEAN,
         NEW list \in Lists, SelectVehicleModel(supported, other, list)
  PROVE  Inert
<1> DEFINE c == {"_powerRevision"} \cup (IF supported THEN {"input"} ELSE {})
           table == Bump(c, op)
           cleared == Cleared(table)
           outstanding == IF PassengerPassed THEN NoDest ELSE passengerDestination
           after == list = "after"
<1>1. Framed(table, FreeSlot) /\ op[FreeSlot].kind = "idle"
  <2>1. c \in SUBSET Counters
    BY DEF Counters
  <2> HIDE DEF c
  <2> QED BY <2>1, BumpFramed, FreeFramed DEF SelectVehicleModel
<1>2. Framed(cleared, FreeSlot)
  <2> HIDE DEF table
  <2> QED BY <1>1, MovedFramed
<1>3. \/ op' = table
      \/ op' = CustomRoute(FreeSlot, cleared, outstanding)
      \/ op' = Listing(FreeSlot, cleared, FALSE)
      \/ op' = Listing(FreeSlot, table, after)
  BY Zenon DEF SelectVehicleModel
<1> HIDE DEF table, cleared, outstanding, after
<1>4. Framed(op', FreeSlot)
  BY <1>1, <1>2, <1>3, HandlersFramed
<1> QED BY <1>1, <1>4, FramedInert

LEMMA AcceptInert == ASSUME IInv, op' \in [Slots -> Ops], Accept PROVE Inert
<1> DEFINE table == Bump({"generation", "_powerRevision"}, op)
           o == [Idle EXCEPT !.kind = "assign", !.dest = passengerDestination]
<1>1. Framed(table, FreeSlot) /\ op[FreeSlot].kind = "idle"
  BY FreeFramed, MovedFramed DEF Accept
<1>2. \/ op' = table
      \/ op' = Listing(FreeSlot, table, FALSE)
      \/ op' = Send(FreeSlot, table, o)
  BY Zenon DEF Accept
<1> HIDE DEF table, o
<1>3. Framed(op', FreeSlot)
  BY <1>1, <1>2, HandlersFramed, SendFramed
<1> QED BY <1>1, <1>3, FramedInert

LEMMA DriverInert == ASSUME IInv, op' \in [Slots -> Ops], Driver PROVE Inert
<1>1. CASE SetOrigin
  <2>1. \/ op' = CustomRoute(FreeSlot, op, passengerDestination)
        \/ op' = Cleared(op)
    BY <1>1 DEF SetOrigin
  <2>2. Framed(op', FreeSlot) /\ op[FreeSlot].kind = "idle"
    BY <1>1, <2>1, FreeFramed, HandlersFramed, MovedFramed DEF SetOrigin
  <2> QED BY <2>2, FramedInert
<1>2. ASSUME NEW d \in Dests, SetDestination(d) PROVE Inert
  <2>1. op' = CustomRoute(FreeSlot, op, d) \/ op' = op
    BY <1>2 DEF SetDestination
  <2>2. Framed(op', FreeSlot) /\ op[FreeSlot].kind = "idle"
    BY <1>2, <2>1, FreeFramed, HandlersFramed DEF SetDestination
  <2> QED BY <2>2, FramedInert
<1>3. CASE ClearDestination \/ ReturnToAvailable
  <2>1. \A r : Framed(op', r)
    BY <1>3, OpFramed, MovedFramed DEF ClearDestination, ReturnToAvailable
  <2> QED BY <2>1 DEF Framed, Inert
<1>4. CASE Accept
  BY <1>4, AcceptInert
<1>5. CASE StartTrip
  <2> DEFINE table == Bump({"generation", "_powerRevision"}, op)
  <2>1. Framed(table, FreeSlot) /\ op[FreeSlot].kind = "idle"
    BY <1>5, FreeFramed, MovedFramed DEF StartTrip
  <2>2. Evaluate(FreeSlot, table, "timer")
    BY <1>5 DEF StartTrip
  <2> HIDE DEF table
  <2> QED BY <2>1, <2>2, HandlersFramed, FramedInert
<1>6. CASE CompleteTrip \/ GoOffline \/ GoOnline
  BY <1>6 DEF CompleteTrip, GoOffline, GoOnline, Inert
<1>7. ASSUME NEW after \in BOOLEAN, ShowStations(after) PROVE Inert
  <2>1. Framed(op', FreeSlot) /\ op[FreeSlot].kind = "idle"
    BY <1>7, FreeFramed, HandlersFramed DEF ShowStations
  <2> QED BY <2>1, FramedInert
<1>8. ASSUME NEW station \in Stations, NEW mode \in Modes, SelectStation(station, mode)
      PROVE  Inert
  <2>1. Framed(op', FreeSlot) /\ op[FreeSlot].kind = "idle"
    BY <1>8, FreeFramed, HandlersFramed DEF SelectStation
  <2> QED BY <2>1, FramedInert
<1>9. CASE UnlockNavigation
  BY <1>9, UnlockInert
<1>10. CASE \E trigger \in BOOLEAN : SetBatterySoc(trigger)
  BY <1>10, SocInert
<1>11. CASE \E supported, other \in BOOLEAN, list \in Lists :
              SelectVehicleModel(supported, other, list)
  BY <1>11, VehicleInert
<1> QED BY <1>1, <1>2, <1>3, <1>4, <1>5, <1>6, <1>7, <1>8, <1>9, <1>10, <1>11 DEF Driver

LEMMA TimerInert ==
  ASSUME IInv, op' \in [Slots -> Ops], Tick \/ \E measured \in BOOLEAN : Step(measured)
  PROVE  Inert
<1>1. CASE Tick
  <2>1. Evaluate(FreeSlot, op, "none") \/ op' = op
    BY <1>1 DEF Tick
  <2>2. Framed(op', FreeSlot) /\ op[FreeSlot].kind = "idle"
    BY <1>1, <2>1, FreeFramed, HandlersFramed DEF Tick
  <2> QED BY <2>2, FramedInert
<1>2. ASSUME NEW measured \in BOOLEAN, Step(measured) PROVE Inert
  <2> DEFINE o == [Idle EXCEPT !.kind = "power", !.then = "probe"]
  <2>1. \/ op' = Send(FreeSlot, op, o)
        \/ op' = [op EXCEPT ![FreeSlot] = Resumption("probe", Fresh("probe"), NoStation)]
    BY <1>2 DEF Step
  <2> HIDE DEF o
  <2>2. Framed(op', FreeSlot) /\ op[FreeSlot].kind = "idle"
    BY <1>2, <2>1, FreeFramed, SendFramed, SlotFramed DEF Step
  <2> QED BY <2>2, FramedInert
<1> QED BY <1>1, <1>2

LEMMA ReturnFramed ==
  ASSUME NEW table, NEW s, Framed(table, s), op' = Return(s, table), op' \in [Slots -> Ops]
  PROVE  Framed(op', s)
BY SlotFramed DEF Return

LEMMA AnswerInert ==
  ASSUME IInv, op' \in [Slots -> Ops], NEW s \in Slots, Answer(s) PROVE Inert
<1>1. Framed(op', s)
  <2>1. /\ Framed(op, s) /\ Framed(Bump({"_powerRevision"}, op), s)
        /\ Framed(Bump({"selectedStationPlan"}, op), s)
    BY OpFramed, MovedFramed
  <2>2. CASE \/ op' = Return(s, op) \/ op' = Return(s, Bump({"_powerRevision"}, op))
             \/ op' = Return(s, Bump({"selectedStationPlan"}, op))
    BY <2>1, <2>2, ReturnFramed
  <2>3. CASE Evaluate(s, [op EXCEPT ![s] = Idle], "none")
    <3> DEFINE ended == [op EXCEPT ![s] = Idle]
    <3>1. Framed(ended, s)
      BY <2>1, IdleFramed
    <3> HIDE DEF ended
    <3> QED BY <2>3, <3>1, HandlersFramed DEF ended
  <2>4. CASE op' = [op EXCEPT ![s].kind = "diversion"]
    BY <2>1, <2>4 DEF Framed
  <2> QED BY <2>2, <2>3, <2>4 DEF Answer, PowerAnswered, AssignAnswered, CustomAnswered,
        RerouteAnswered, SelectAnswered, DrawerAnswered, EvaluationAnswered, DiversionAnswered
<1>2. Current(s, {"generation"}) \/ UNCHANGED screen
  BY DEF Answer, PowerAnswered, AssignAnswered, CustomAnswered, RerouteAnswered,
     SelectAnswered, DrawerAnswered, EvaluationAnswered, DiversionAnswered,
     AssignmentWelcome, PlanWelcome, AnswerWelcome, Current, screen, navigation
<1> QED BY <1>1, <1>2, FramedInert

LEMMA ResumeInert ==
  ASSUME IInv, op' \in [Slots -> Ops], NEW s \in Slots, Resume(s) PROVE Inert
<1> DEFINE ended == [op EXCEPT ![s] = Idle]
<1>0. Framed(op, s) /\ Framed(ended, s)
  BY OpFramed, IdleFramed
<1>1. CASE Probe(s) \/ TripStarted(s) \/ TripCompleted(s)
  <2>1. op' = ended \/ op' = [op EXCEPT ![s].then = "finish"]
    BY <1>1 DEF Probe, TripStarted, TripCompleted
  <2>2. Framed(op', s)
    BY <1>0, <2>1 DEF Framed
  <2>3. Current(s, {"generation"}) \/ UNCHANGED screen
    <3>1. timer \in BOOLEAN /\ locked \in BOOLEAN
      BY DEF IInv, ScreenOK
    <3>2. CASE Probe(s)
      BY <3>2 DEF Probe
    <3>3. ASSUME TripStarted(s), ~Current(s, {"generation"}) PROVE UNCHANGED screen
      BY <3>1, <3>3 DEF TripStarted, screen, navigation
    <3>4. ASSUME TripCompleted(s), ~Current(s, {"generation"}) PROVE UNCHANGED screen
      BY <3>1, <3>4 DEF TripCompleted, screen
    <3> QED BY <1>1, <3>2, <3>3, <3>4
  <2> QED BY <2>2, <2>3, FramedInert
<1>2. CASE OffRoute(s)
  BY <1>0, <1>2, HandlersFramed, FramedInert DEF OffRoute
<1>3. CASE FinishStep(s)
  <2>1. op' = ended \/ Evaluate(s, op, "none") \/ Evaluate(s, op, "complete")
    BY <1>3 DEF FinishStep
  <2>2. Framed(op', s)
    BY <1>0, <2>1, HandlersFramed
  <2>3. Current(s, {"generation"}) \/ UNCHANGED screen
    BY <1>3 DEF FinishStep, screen
  <2> QED BY <2>2, <2>3, FramedInert
<1>4. CASE SocConfirmed(s)
  <2>1. op' = ended \/ Evaluate(s, op, "drawer")
    BY <1>4 DEF SocConfirmed
  <2>2. Framed(op', s) /\ UNCHANGED screen
    BY <1>0, <1>4, <2>1, HandlersFramed DEF SocConfirmed
  <2> QED BY <2>2, FramedInert
<1>5. ASSUME NEW list \in Lists, SocEvaluated(s, list) PROVE Inert
  <2> DEFINE after == list = "after"
  <2>1. op' = ended \/ op' = Listing(s, ended, after)
    BY <1>5, Zenon DEF SocEvaluated
  <2>2. Current(s, {"generation"}) \/ UNCHANGED screen
    <3>1. ASSUME ~Current(s, {"generation"}) PROVE energy' = energy
      <4>1. ~Current(s, {"generation", "_powerRevision"})
        BY <3>1 DEF Current
      <4> QED BY <1>5, <4>1 DEF SocEvaluated, Listed
    <3> QED BY <1>5, <3>1 DEF SocEvaluated, screen, navigation
  <2> HIDE DEF ended, after
  <2>3. Framed(op', s)
    BY <1>0, <2>1, HandlersFramed
  <2> QED BY <2>2, <2>3, FramedInert
<1> QED BY <1>1, <1>2, <1>3, <1>4, <1>5 DEF Resume

LEMMA StepInert == IInv /\ [Next]_vars => [Inert]_vars
<1> SUFFICES ASSUME IInv, Next PROVE Inert
  OBVIOUS
<1>1. op' \in [Slots -> Ops]
  BY NextInvariant DEF IInv, HandlersOK, Good, Sound
<1> QED BY <1>1, DriverInert, TimerInert, AnswerInert, ResumeInert DEF Next

-----------------------------------------------------------------------------

(* However many handlers wait and however late their answers, every        *)
(* variable keeps its type, at most one evaluation is under way and the    *)
(* flag (_isEvaluating) knows it, and an assigned or active trip exists.   *)
THEOREM TypeCorrect == Spec => []TypeOK
BY InitInvariant, NextInvariant, InvariantImplies, PTL DEF Spec

(* A locked navigation always has the plan of the selected station, a trip *)
(* and stages to count its stops (_navigationLocked).                      *)
THEOREM LockedAlwaysOnPlan == Spec => []LockedOnPlan
BY InitInvariant, NextInvariant, InvariantImplies, PTL DEF Spec

(* No energy context on the screen was computed before the driver's last   *)
(* input (setBatterySoc, selectVehicleModel).                              *)
THEOREM EstimatesAlwaysCurrent == Spec => []EstimatesCurrent
BY InitInvariant, NextInvariant, InvariantImplies, PTL DEF Spec

(* Only the answer to a station the driver chose locks the navigation; a   *)
(* confirmation by a reroute or a state of charge never does, whenever it  *)
(* arrives (selectStationPlan).                                            *)
THEOREM OnlyChoiceEverLocks == Spec => OnlyChoiceLocks
BY InitInvariant, NextInvariant, StepLocks, PTL DEF Spec, OnlyChoiceLocks, ChoiceLocks

(* An answer or a resumption of an earlier generation changes nothing that *)
(* the driver sees (the generation checks after every await).              *)
THEOREM LateAnswersAlwaysInert == Spec => LateAnswersInert
BY InitInvariant, NextInvariant, StepInert, PTL DEF Spec, LateAnswersInert, Inert

=============================================================================
