------------------------ MODULE RecommendationProofs ------------------------
(***************************************************************************)
(* Proofs about Recommendation: its type invariant, that ranked and        *)
(* confirmed pairs are eligible, that conflicts are real and that views    *)
(* advance, for any catalog, any reports and any number of requests.       *)
(***************************************************************************)
EXTENDS Recommendation, WellFoundedInduction, TLAPS

-----------------------------------------------------------------------------
(* Heads of the store.                                                     *)

(* A set of snapshots not after t has a newest one: of the distances to t  *)
(* there is a smallest.                                                    *)
LEMMA NewestExists ==
  ASSUME NEW S \in SUBSET Snapshot, S # {}, NEW t \in Nat,
         \A x \in S : x.time <= t
  PROVE  Newest(S) \in S /\ \A y \in S : y.time <= Newest(S).time
<1> DEFINE ages == {t - x.time : x \in S}
<1>1. \A x \in S : x.time \in Nat
  BY SnapshotAssumption DEF Snapshot
<1>2. ages \in SUBSET Nat /\ ages # {}
  BY <1>1
<1>3. PICK a \in ages : \A b \in ages : a <= b
  <2>1. PICK a \in ages : \A b \in ages : <<b, a>> \notin OpToRel(<, Nat)
    BY <1>2, WFMin, NatLessThanWellFounded
  <2>2. \A b \in ages : ~(b < a)
    BY <1>2, <2>1 DEF OpToRel
  <2> HIDE DEF ages
  <2>3. \A b \in ages : a \in Nat /\ b \in Nat
    BY <1>2
  <2> QED BY <2>2, <2>3
<1>4. PICK x \in S : a = t - x.time
  BY <1>3
<1>5. ASSUME NEW y \in S PROVE y.time <= x.time
  <2>1. t - y.time \in ages
    OBVIOUS
  <2>2. t - x.time <= t - y.time
    BY <1>3, <1>4, <2>1
  <2> QED BY <1>1, <2>2
<1> QED
  BY <1>5 DEF Newest

LEMMA HeadFound ==
  ASSUME NEW R \in SUBSET Snapshot, NEW k \in Keys, NEW t \in Nat
  PROVE  /\ Heads(R, t)[k] \in UpTo(R, k, t) \cup {NoSnap}
         /\ UpTo(R, k, t) # {} =>
              /\ Heads(R, t)[k] \in UpTo(R, k, t)
              /\ \A y \in UpTo(R, k, t) : y.time <= Heads(R, t)[k].time
<1>1. Heads(R, t)[k] = Newest(UpTo(R, k, t))
  BY DEF Heads, Head
<1>2. UpTo(R, k, t) \in SUBSET Snapshot /\ \A x \in UpTo(R, k, t) : x.time <= t
  BY DEF UpTo
<1>3. CASE UpTo(R, k, t) = {}
  BY <1>1, <1>3 DEF Newest
<1>4. CASE UpTo(R, k, t) # {}
  BY <1>1, <1>2, <1>4, NewestExists
<1> QED BY <1>3, <1>4

LEMMA HeadsType ==
  ASSUME NEW R \in SUBSET Snapshot, NEW t \in Nat
  PROVE  Heads(R, t) \in View
<1>1. \A k \in Keys : Heads(R, t)[k] \in Snapshot \cup {NoSnap}
  BY HeadFound DEF UpTo
<1> QED BY <1>1 DEF Heads, View

(* A view of R is overtaken by every later one of more rows.               *)
Within(v, R, t) == \A k \in Keys : v[k] # NoSnap => v[k] \in UpTo(R, k, t)

LEMMA HeadsWithin ==
  ASSUME NEW R \in SUBSET Snapshot, NEW t \in Nat
  PROVE  Within(Heads(R, t), R, t)
  BY HeadFound DEF Within

LEMMA WithinGrows ==
  ASSUME NEW v, NEW R, NEW Q, R \subseteq Q, NEW t, Within(v, R, t)
  PROVE  Within(v, Q, t)
  BY DEF Within, UpTo

LEMMA HeadsAdvance ==
  ASSUME NEW R \in SUBSET Snapshot, NEW t \in Nat, NEW now \in Nat, t <= now,
         NEW v, Within(v, R, t), NEW k \in Keys, v[k] # NoSnap
  PROVE  Heads(R, now)[k] # NoSnap /\ Heads(R, now)[k].time >= v[k].time
<1>1. v[k] \in UpTo(R, k, t)
  BY DEF Within
<1>2. v[k] \in UpTo(R, k, now)
  <2>1. v[k] \in Snapshot /\ v[k].time \in Nat /\ v[k].time <= t
    BY <1>1, SnapshotAssumption DEF UpTo, Snapshot
  <2> QED BY <1>1, <2>1 DEF UpTo
<1>3. Heads(R, now)[k] \in UpTo(R, k, now) /\ v[k].time <= Heads(R, now)[k].time
  BY <1>2, HeadFound
<1>4. Heads(R, now)[k] \in Snapshot /\ v[k] \in Snapshot
  BY <1>1, <1>3 DEF UpTo
<1> QED
  BY <1>3, <1>4, SnapshotAssumption, NoSnapAssumption DEF Snapshot

-----------------------------------------------------------------------------
(* Eligibility.                                                            *)

(* The versions that changed are all that has to be looked at again.       *)
LEMMA NotInvalidated ==
  ASSUME NEW old, NEW new, NEW c, Eligible(old, c), ~Invalidated(old, new, c)
  PROVE  Eligible(new, c)
<1>1. CASE Station(old, c) = Station(new, c)
  <2>1. ~Offline(new, c) /\ ~NoBattery(new, c) /\ ~Full(new, c)
    BY <1>1 DEF Eligible, Offline, NoBattery, Full, Slots
  <2> QED BY <2>1 DEF Eligible, Invalidated, ExcessiveQueue
<1>2. CASE Station(old, c) # Station(new, c)
  BY <1>2 DEF Eligible, Invalidated, ExcessiveQueue
<1> QED BY <1>1, <1>2

LEMMA InvalidatedLost ==
  ASSUME NEW old, NEW new, NEW c, Invalidated(old, new, c)
  PROVE  ~Eligible(new, c)
  BY DEF Eligible, Invalidated

-----------------------------------------------------------------------------
(* The inductive invariant, reader by reader.                              *)

SearchHolds(r) ==
  /\ candidates[r] = {c \in Feasible : Eligible(evidence[r], c)}
  /\ Within(evidence[r], rows, time[r])

RankHolds(r) ==
  /\ candidates[r] = {c \in Feasible : Eligible(evidence[r], c)}
  /\ \A k \in Keys : evidence[r][k] # NoSnap =>
       view[r][k] # NoSnap /\ view[r][k].time >= evidence[r][k].time

ReaderInv(r) ==
  /\ pc[r] = "search" => attempt[r] \in 0..1
  /\ pc[r] = "save" => Within(view[r], rows, time[r])
  /\ pc[r] \in {"rank", "confirm"} => SearchHolds(r)
  /\ pc[r] = "confirm" => selected[r] \in candidates[r] /\ RankHolds(r)
  /\ pc[r] = "idle" /\ reply[r] = "RECOMMENDED" =>
       RankHolds(r) /\ \A c \in candidates[r] : Eligible(view[r], c)
  /\ pc[r] = "idle" /\ reply[r] = "CONFIRMED" =>
       RankHolds(r) /\ selected[r] \in Feasible /\ Eligible(view[r], selected[r])

IInv == TypeOK /\ \A r \in Readers : ReaderInv(r)

Same(r) ==
  /\ pc'[r] = pc[r] /\ reply'[r] = reply[r] /\ time'[r] = time[r]
  /\ selected'[r] = selected[r] /\ attempt'[r] = attempt[r] /\ view'[r] = view[r]
  /\ evidence'[r] = evidence[r] /\ candidates'[r] = candidates[r]

LEMMA SameKeeps ==
  ASSUME NEW r \in Readers, ReaderInv(r), Same(r), rows \subseteq rows'
  PROVE  ReaderInv(r)'
<1>1. Within(view[r], rows, time[r]) => Within(view'[r], rows', time'[r])
  BY WithinGrows DEF Same
<1>2. SearchHolds(r) => SearchHolds(r)'
  BY WithinGrows DEF SearchHolds, Same
<1>3. RankHolds(r) => RankHolds(r)'
  BY DEF RankHolds, Same
<1> QED BY <1>1, <1>2, <1>3 DEF ReaderInv, Same

LEMMA PinType ==
  ASSUME TypeOK, NEW r \in Readers, NEW t \in Nat, Pin(r, t)
  PROVE  /\ rows' = rows
         /\ view' \in [Readers -> View]
         /\ view'[r] = Heads(rows, t)
         /\ \A q \in Readers \ {r} : view'[q] = view[q]
  BY HeadsType DEF TypeOK, Pin

LEMMA StartHolds ==
  ASSUME Start
  PROVE  IInv
<1>1. TypeOK
  BY DEF Start, Init, TypeOK, Consistent, NoView, View, Pairs
<1>2. \A r \in Readers : ReaderInv(r)
  BY DEF Start, ReaderInv
<1> QED BY <1>1, <1>2 DEF IInv

LEMMA ReportHolds ==
  ASSUME IInv, NEW b \in Batches, Report(b)
  PROVE  IInv'
<1>1. TypeOK'
  BY BatchesAssumption DEF IInv, TypeOK, Report, Commit
<1>2. rows \subseteq rows' /\ \A r \in Readers : Same(r)
  BY DEF Report, Commit, Same
<1> QED BY <1>1, <1>2, SameKeeps DEF IInv

LEMMA RequestHolds ==
  ASSUME IInv, NEW r \in Readers, NEW t \in Times, NEW c \in Pairs \cup {NoPair},
         Request(r, t, c)
  PROVE  IInv'
<1>1. TypeOK'
  BY SnapshotAssumption DEF IInv, TypeOK, Request, Goto
<1>2. ReaderInv(r)'
  BY DEF IInv, TypeOK, ReaderInv, Request, Goto
<1>3. \A q \in Readers \ {r} : Same(q) /\ rows' = rows
  BY DEF IInv, TypeOK, Request, Goto, Same
<1> QED BY <1>1, <1>2, <1>3, SameKeeps DEF IInv

LEMMA SearchStepHolds ==
  ASSUME IInv, NEW r \in Readers, Search(r)
  PROVE  IInv'
<1>1. time[r] \in Nat /\ Pin(r, time[r]) /\ rows \in SUBSET Snapshot
  BY DEF IInv, TypeOK, Search
<1>2. TypeOK'
  <2>1. attempt' \in [Readers -> 0..2]
    BY DEF IInv, TypeOK, ReaderInv, Search
  <2> QED BY <1>1, <2>1, PinType DEF IInv, TypeOK, Search, Goto, Answer
<1>3. ReaderInv(r)'
  <2>1. Within(view'[r], rows', time'[r])
    BY <1>1, PinType, HeadsWithin DEF IInv, Search
  <2>2. pc'[r] = "save" \/ (pc'[r] = "idle" /\ reply'[r] = "UNAVAILABLE")
    BY DEF IInv, TypeOK, Search, Goto, Answer
  <2> QED BY <2>1, <2>2 DEF ReaderInv
<1>4. \A q \in Readers \ {r} : Same(q) /\ rows' = rows
  BY <1>1, PinType DEF IInv, TypeOK, Search, Goto, Answer, Same
<1> QED BY <1>2, <1>3, <1>4, SameKeeps DEF IInv

LEMMA SaveHolds ==
  ASSUME IInv, NEW r \in Readers, Save(r)
  PROVE  IInv'
<1>1. TypeOK'
  BY DEF IInv, TypeOK, Save, Goto
<1>2. ReaderInv(r)'
  <2>1. SearchHolds(r)'
    BY DEF IInv, TypeOK, ReaderInv, SearchHolds, Save
  <2>2. pc'[r] = "rank"
    BY DEF IInv, TypeOK, Save, Goto
  <2> QED BY <2>1, <2>2 DEF ReaderInv
<1>3. \A q \in Readers \ {r} : Same(q) /\ rows' = rows
  BY DEF IInv, TypeOK, Save, Goto, Same
<1> QED BY <1>1, <1>2, <1>3, SameKeeps DEF IInv

LEMMA FailHolds ==
  ASSUME IInv, NEW r \in Readers, Fail(r)
  PROVE  IInv'
<1>1. TypeOK'
  BY DEF IInv, TypeOK, Fail, Answer
<1>2. ReaderInv(r)'
  BY DEF IInv, TypeOK, ReaderInv, Fail, Answer
<1>3. \A q \in Readers \ {r} : Same(q) /\ rows' = rows
  BY DEF IInv, TypeOK, Fail, Answer, Same
<1> QED BY <1>1, <1>2, <1>3, SameKeeps DEF IInv

(* What a later pin of the same search sees.                               *)
LEMMA LaterView ==
  ASSUME IInv, NEW r \in Readers, pc[r] \in {"rank", "confirm"},
         NEW now \in Nat, time[r] <= now, Pin(r, now),
         evidence' = evidence, candidates' = candidates
  PROVE  RankHolds(r)'
<1>1. SearchHolds(r) /\ rows \in SUBSET Snapshot /\ time[r] \in Nat
  BY DEF IInv, TypeOK, ReaderInv
<1>2. view'[r] = Heads(rows, now)
  BY PinType DEF IInv
<1>3. ASSUME NEW k \in Keys, evidence[r][k] # NoSnap
      PROVE  view'[r][k] # NoSnap /\ view'[r][k].time >= evidence[r][k].time
  BY <1>1, <1>2, <1>3, HeadsAdvance DEF SearchHolds
<1> QED BY <1>1, <1>3 DEF RankHolds, SearchHolds

LEMMA RankStepHolds ==
  ASSUME IInv, NEW r \in Readers, Rank(r)
  PROVE  IInv'
<1>1. time[r] \in Nat /\ Pin(r, time[r]) /\ pc[r] = "rank" /\ SearchHolds(r)
  BY DEF IInv, TypeOK, ReaderInv, Rank
<1>2. TypeOK'
  BY <1>1, PinType DEF IInv, TypeOK, Rank, Ranked, Goto, Answer
<1>3. RankHolds(r)'
  BY <1>1, LaterView DEF Rank
<1>4. SearchHolds(r)'
  BY <1>1, PinType DEF IInv, SearchHolds, Rank
<1>5. ASSUME \E c \in candidates[r] : Invalidated(evidence[r], view'[r], c)
      PROVE  ReaderInv(r)'
  <2>1. \/ pc'[r] = "search" /\ attempt'[r] = 1
        \/ pc'[r] = "idle" /\ reply'[r] = "CONFLICT"
    BY <1>5 DEF IInv, TypeOK, Rank, Goto, Answer
  <2> QED BY <2>1 DEF ReaderInv
<1>6. ASSUME ~\E c \in candidates[r] : Invalidated(evidence[r], view'[r], c)
      PROVE  ReaderInv(r)'
  <2>1. \A c \in candidates[r] : Eligible(view'[r], c)
    BY <1>1, <1>6, NotInvalidated DEF SearchHolds
  <2>2. \/ pc'[r] = "idle" /\ reply'[r] \in {"RECOMMENDED", "NOT_ELIGIBLE"}
        \/ pc'[r] = "confirm" /\ selected'[r] \in candidates'[r]
    BY <1>6 DEF IInv, TypeOK, Rank, Ranked, Goto, Answer
  <2>3. candidates'[r] = candidates[r]
    BY DEF Rank
  <2> QED BY <1>3, <1>4, <2>1, <2>2, <2>3 DEF ReaderInv
<1>7. \A q \in Readers \ {r} : Same(q) /\ rows' = rows
  BY <1>1, PinType DEF IInv, TypeOK, Rank, Ranked, Goto, Answer, Same
<1> QED BY <1>2, <1>5, <1>6, <1>7, SameKeeps DEF IInv

LEMMA ConfirmStepHolds ==
  ASSUME IInv, NEW r \in Readers, NEW now \in Times, Confirm(r, now)
  PROVE  IInv'
<1>1. /\ pc[r] = "confirm" /\ SearchHolds(r) /\ selected[r] \in candidates[r]
      /\ now \in Nat /\ time[r] \in Nat
  BY SnapshotAssumption DEF IInv, TypeOK, ReaderInv, Confirm
<1>2. CASE now < time[r] /\ Answer(r, "INVALID") /\ UNCHANGED <<rows, view>>
  <2>1. TypeOK'
    BY <1>2 DEF IInv, TypeOK, Confirm, Answer
  <2>2. ReaderInv(r)'
    BY <1>2 DEF IInv, TypeOK, ReaderInv, Confirm, Answer
  <2>3. \A q \in Readers \ {r} : Same(q) /\ rows' = rows
    BY <1>2 DEF IInv, TypeOK, Confirm, Answer, Same
  <2> QED BY <2>1, <2>2, <2>3, SameKeeps DEF IInv
<1>3. CASE /\ now >= time[r] /\ Pin(r, now)
           /\ IF Invalidated(evidence[r], view'[r], selected[r])
              THEN Answer(r, "CONFLICT") ELSE Answer(r, "CONFIRMED")
  <2>1. TypeOK'
    BY <1>1, <1>3, PinType DEF IInv, TypeOK, Confirm, Answer
  <2>2. RankHolds(r)'
    BY <1>1, <1>3, LaterView DEF Confirm
  <2>3. selected[r] \in Feasible /\ Eligible(evidence[r], selected[r])
    BY <1>1 DEF SearchHolds
  <2>4. \/ pc'[r] = "idle" /\ reply'[r] = "CONFLICT"
        \/ pc'[r] = "idle" /\ reply'[r] = "CONFIRMED" /\ Eligible(view'[r], selected'[r])
    BY <1>3, <2>3, NotInvalidated DEF IInv, TypeOK, Confirm, Answer
  <2>5. selected'[r] \in Feasible
    BY <2>3 DEF Confirm
  <2>6. ReaderInv(r)'
    BY <2>2, <2>4, <2>5 DEF ReaderInv
  <2>7. \A q \in Readers \ {r} : Same(q) /\ rows' = rows
    BY <1>1, <1>3, PinType DEF IInv, TypeOK, Confirm, Answer, Same
  <2> QED BY <2>1, <2>6, <2>7, SameKeeps DEF IInv
<1> QED BY <1>2, <1>3 DEF Confirm

-----------------------------------------------------------------------------
LEMMA StepHolds ==
  ASSUME IInv, [Step]_vars
  PROVE  IInv'
<1>1. CASE \E b \in Batches : Report(b)
  BY <1>1, ReportHolds
<1>2. CASE \E r \in Readers, t \in Times, c \in Pairs \cup {NoPair} : Request(r, t, c)
  BY <1>2, RequestHolds
<1>3. CASE \E r \in Readers : Search(r) \/ Save(r) \/ Rank(r) \/ Fail(r)
  BY <1>3, SearchStepHolds, SaveHolds, RankStepHolds, FailHolds
<1>4. CASE \E r \in Readers, now \in Times : Confirm(r, now)
  BY <1>4, ConfirmStepHolds
<1>5. CASE UNCHANGED vars
  <2>1. TypeOK'
    BY <1>5 DEF IInv, TypeOK, vars
  <2>2. \A r \in Readers : Same(r) /\ rows' = rows
    BY <1>5 DEF vars, Same
  <2> QED BY <2>1, <2>2, SameKeeps DEF IInv
<1> QED BY <1>1, <1>2, <1>3, <1>4, <1>5 DEF Step

LEMMA InvariantHolds == RecommendationSpec => []IInv
  BY StartHolds, StepHolds, PTL DEF RecommendationSpec

(* Every variable keeps its type; in particular a request never searches   *)
(* a third time, and the stored snapshots never contradict each other.     *)
THEOREM TypeCorrect == RecommendationSpec => []TypeOK
<1>1. IInv => TypeOK
  BY DEF IInv
<1> QED BY <1>1, InvariantHolds, PTL

(* Every pair that is ranked is eligible in the view it is ranked with,    *)
(* though build_features looks again only at the versions that changed.    *)
THEOREM RankedAreEligible == RecommendationSpec => []RankedEligible
<1>1. IInv => RankedEligible
  BY DEF IInv, ReaderInv, RankHolds, RankedEligible
<1> QED BY <1>1, InvariantHolds, PTL

(* A confirmed plan goes to a pair that is eligible at the server's time.  *)
THEOREM ConfirmedAreEligible == RecommendationSpec => []ConfirmedEligible
<1>1. IInv => ConfirmedEligible
  BY DEF IInv, ReaderInv, ConfirmedEligible
<1> QED BY <1>1, InvariantHolds, PTL

(* The views of a request never go back, although sources report late.     *)
THEOREM ViewsOnlyAdvance == RecommendationSpec => []ViewsAdvance
<1>1. IInv => ViewsAdvance
  BY DEF IInv, ReaderInv, RankHolds, ViewsAdvance
<1> QED BY <1>1, InvariantHolds, PTL

(* A search is only given up for a pair that was eligible and is not any   *)
(* more.                                                                   *)
THEOREM ConflictsAreReal == RecommendationSpec => ConflictIsReal
<1> DEFINE Lost(r) == \E c \in candidates[r] :
                        Eligible(evidence[r], c) /\ ~Eligible(view'[r], c)
           GivenUp(r) ==
             \/ pc[r] = "rank" /\ pc'[r] = "search"
             \/ pc[r] \in {"rank", "confirm"} /\ pc'[r] = "idle" /\ reply'[r] = "CONFLICT"
<1>1. ASSUME IInv, [Step]_vars, NEW r \in Readers, GivenUp(r)
      PROVE  Lost(r)
  <2>1. SearchHolds(r) /\ (pc[r] = "confirm" => selected[r] \in candidates[r])
    BY <1>1 DEF IInv, ReaderInv
  <2>2. pc'[r] # pc[r] /\ pc[r] # "search"
    BY <1>1
  <2>3. CASE Rank(r)
    <3>1. \E c \in candidates[r] : Invalidated(evidence[r], view'[r], c)
      BY <1>1, <2>3 DEF Rank, Ranked, Goto, Answer, IInv, TypeOK
    <3> QED BY <2>1, <3>1, InvalidatedLost DEF SearchHolds
  <2>4. ASSUME NEW now \in Times, Confirm(r, now)
        PROVE  Lost(r)
    <3>1. pc[r] = "confirm" /\ Invalidated(evidence[r], view'[r], selected[r])
      BY <1>1, <2>4 DEF Confirm, Answer, IInv, TypeOK
    <3> QED BY <2>1, <3>1, InvalidatedLost DEF SearchHolds
  <2>5. CASE Fail(r)
    BY <1>1, <2>5 DEF Fail, Answer, IInv, TypeOK
  <2>6. \A q \in Readers \ {r} :
          ~Search(q) /\ ~Save(q) /\ ~Rank(q) /\ ~Fail(q)
            /\ \A now \in Times : ~Confirm(q, now)
    BY <1>1, <2>2 DEF Search, Save, Rank, Ranked, Fail, Confirm, Goto, Answer, IInv, TypeOK
  <2>7. ~Search(r) /\ ~Save(r)
    BY <1>1 DEF Search, Save
  <2>8. \A b \in Batches : ~Report(b)
    BY <1>1 DEF Report
  <2>9. \A q \in Readers, t \in Times, c \in Pairs \cup {NoPair} : ~Request(q, t, c)
    BY <1>1 DEF Request, Goto, IInv, TypeOK
  <2>10. ~UNCHANGED vars
    BY <2>2 DEF vars
  <2> QED BY <1>1, <2>3, <2>4, <2>5, <2>6, <2>7, <2>8, <2>9, <2>10 DEF Step
<1>2. IInv /\ [Step]_vars =>
        [\A r \in Readers : GivenUp(r) => Lost(r)]_vars
  BY <1>1
<1> QED BY <1>2, InvariantHolds, PTL DEF RecommendationSpec, ConflictIsReal

=============================================================================
