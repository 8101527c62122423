------------------------- MODULE RouteHistoryProofs -------------------------
(***************************************************************************)
(* Proofs about RouteHistory: its type invariant, that every answer stays  *)
(* true, that a row is created once and that statements which commit one   *)
(* by one implement RouteEvidence, for any submissions, any number of      *)
(* requests and any number of statements lost or late.                     *)
(***************************************************************************)
EXTENDS RouteHistory, TLAPS

-----------------------------------------------------------------------------
(* What a stored submission says, and what it goes on saying.              *)

LEMMA KindsDiffer ==
  ASSUME NEW q \in Requests PROVE q \notin Guided
<1>1. DOMAIN q = {"route", "geometry", "started"}
  BY RequestsAssumption DEF Submission
<1>2. \A g \in Guided : DOMAIN g = {"evidence", "detector"}
  BY DEF Guided
<1>3. "route" \notin {"evidence", "detector"}
  OBVIOUS
<1> QED BY <1>1, <1>2, <1>3

(* s says what r says, and perhaps more.                                   *)
Extends(r, s) ==
  /\ s.route = r.route
  /\ r.geometry # None => s.geometry = r.geometry
  /\ r.started # None => s.started = r.started

LEMMA MergedExtends ==
  ASSUME NEW r \in Submission, NEW q \in Requests
  PROVE  Merged(r, q) \in Submission /\ Extends(r, Merged(r, q))
<1>1. q \in Submission
  BY RequestsAssumption
<1>2. Merged(r, q) \in Submission
  BY <1>1 DEF Submission, Merged
<1>3. /\ Merged(r, q).route = r.route
      /\ Merged(r, q).geometry = IF r.geometry = None THEN q.geometry ELSE r.geometry
      /\ Merged(r, q).started = IF r.started = None THEN q.started ELSE r.started
  BY DEF Submission, Merged
<1> QED BY <1>2, <1>3 DEF Extends

LEMMA SameIsMerged ==
  ASSUME NEW r \in Submission, NEW q \in Requests
  PROVE  Merged(r, q) = r <=>
           /\ r.geometry = None => q.geometry = None
           /\ r.started = None => q.started = None
  BY RequestsAssumption DEF Submission, Merged

LEMMA HoldsItself ==
  ASSUME NEW q \in Requests PROVE Holds(q, q)
  BY RequestsAssumption, SameIsMerged DEF Holds, Fits, Agree

LEMMA MergedHolds ==
  ASSUME NEW r \in Submission, NEW q \in Requests, ~Contradicts(r, q)
  PROVE  Holds(Merged(r, q), q)
<1>1. Merged(r, q) \in Submission
  BY MergedExtends
<1>2. /\ Merged(r, q).route = r.route
      /\ Merged(r, q).geometry = IF r.geometry = None THEN q.geometry ELSE r.geometry
      /\ Merged(r, q).started = IF r.started = None THEN q.started ELSE r.started
  BY DEF Submission, Merged
<1>3. Merged(Merged(r, q), q) = Merged(r, q)
  BY <1>1, <1>2, SameIsMerged
<1>4. Fits(Merged(r, q), q)
  BY <1>2 DEF Contradicts, Fits, Agree
<1> QED BY <1>2, <1>3, <1>4 DEF Holds, Contradicts

LEMMA HoldsGrows ==
  ASSUME NEW r \in Submission, NEW s \in Submission, NEW q \in Requests,
         Extends(r, s), Holds(r, q)
  PROVE  Holds(s, q)
<1>1. /\ r.geometry = None => q.geometry = None
      /\ r.started = None => q.started = None
  BY SameIsMerged DEF Holds
<1>2. Merged(s, q) = s
  BY <1>1, SameIsMerged DEF Extends
<1>3. Fits(s, q)
  BY <1>1 DEF Holds, Fits, Agree, Extends
<1> QED BY <1>2, <1>3 DEF Holds, Extends

LEMMA ContradictsGrows ==
  ASSUME NEW r \in Submission, NEW s \in Submission, NEW q \in Requests,
         Extends(r, s), Contradicts(r, q)
  PROVE  Contradicts(s, q)
  BY DEF Contradicts, Fits, Agree, Extends

-----------------------------------------------------------------------------
(* The inductive invariant.                                                *)

(* What has been read before statement s is executed.                      *)
Claim(s, q) ==
  /\ s = "select" => row # NoRow
  /\ s = "fill" => row # NoRow /\ row.route = q.route
  /\ s = "selectTrip" => guided # NoRow
  /\ s = "refresh" => guided # NoRow /\ guided.evidence = q.evidence

Truth(q, a) ==
  /\ q \in Requests =>
       /\ a \in {"CREATED", "KNOWN"} => row # NoRow /\ Holds(row, q)
       /\ a = "CONFLICT" => row # NoRow /\ Contradicts(row, q)
  /\ q \in Guided =>
       /\ a \in {"CREATED", "KNOWN"} =>
            guided # NoRow /\ guided.evidence = q.evidence
       /\ a = "CONFLICT" => guided # NoRow /\ guided.evidence # q.evidence

Claims ==
  /\ \A w \in Workers : Claim(pc[w], asked[w])
  /\ \A s \in late : Claim(s[1], s[2])

Truths == \A x \in answered : Truth(x[1], x[2])

IInv == TypeOK /\ Claims /\ Truths

(* Tables only grow.                                                       *)
Grown ==
  /\ row # NoRow => row' # NoRow /\ Extends(row, row')
  /\ guided # NoRow => guided' # NoRow /\ guided'.evidence = guided.evidence

Tables == row \in Submission \cup {NoRow} /\ guided \in GuidedRow \cup {NoRow}

LEMMA ClaimGrows ==
  ASSUME Grown, NEW s, NEW q, Claim(s, q) PROVE Claim(s, q)'
  BY DEF Grown, Claim, Extends

LEMMA TruthGrows ==
  ASSUME Tables, Tables', Grown, NEW q, NEW a, Truth(q, a) PROVE Truth(q, a)'
<1>1. CASE q \in Requests
  <2>1. q \notin Guided
    BY <1>1, KindsDiffer
  <2>2. ASSUME a \in {"CREATED", "KNOWN"} PROVE row' # NoRow /\ Holds(row', q)
    BY <1>1, <2>2, HoldsGrows DEF Tables, Grown, Truth
  <2>3. ASSUME a = "CONFLICT" PROVE row' # NoRow /\ Contradicts(row', q)
    BY <1>1, <2>3, ContradictsGrows DEF Tables, Grown, Truth
  <2> QED BY <2>1, <2>2, <2>3 DEF Truth
<1>2. CASE q \notin Requests
  BY <1>2 DEF Grown, Truth
<1> QED BY <1>1, <1>2

(* A statement keeps the tables well typed and lets them grow.             *)
LEMMA ExecuteGrows ==
  ASSUME Tables, NEW s, NEW q, Command(s, q), Execute(s, q)
  PROVE  Tables' /\ Grown
<1>1. CASE s \in {"insert", "select", "fill"}
  <2>1. q \in Requests
    BY <1>1 DEF Command
  <2> guided' = guided
    BY <1>1 DEF Execute
  <2>2. row' \in Submission \cup {NoRow} /\ (row # NoRow => row' # NoRow /\ Extends(row, row'))
    <3>1. row \in Submission => Extends(row, row)
      BY DEF Extends
    <3>2. CASE s = "insert"
      BY <2>1, <3>1, <3>2, RequestsAssumption DEF Execute, Inserted, Tables
    <3>3. CASE s = "fill"
      BY <2>1, <3>1, <3>3, RequestsAssumption, MergedExtends
      DEF Execute, Filled, Tables
    <3>4. CASE s = "select"
      BY <3>1, <3>4 DEF Execute, Tables
    <3> QED BY <1>1, <3>2, <3>3, <3>4
  <2> QED BY <2>1, <2>2 DEF Tables, Grown
<1>2. CASE s \in {"insertTrip", "selectTrip", "refresh"}
  <2>1. q \in Guided /\ row' = row
    BY <1>2 DEF Command, Execute
  <2>2. Noted(q) \in GuidedRow /\ Noted(q) # NoRow /\ Noted(q).evidence = q.evidence
    BY <2>1, GuidedAssumption DEF Guided, GuidedRow, Noted
  <2>3. /\ guided' \in GuidedRow \cup {NoRow}
        /\ guided # NoRow => guided' # NoRow /\ guided'.evidence = guided.evidence
    <3>1. CASE s = "insertTrip"
      BY <2>2, <3>1 DEF Execute, InsertedTrip, Tables
    <3>2. CASE s = "refresh"
      BY <2>2, <3>2 DEF Execute, Refreshed, Tables
    <3>3. CASE s = "selectTrip"
      BY <3>3 DEF Execute, Tables
    <3> QED BY <1>2, <3>1, <3>2, <3>3
  <2>4. row # NoRow => Extends(row, row)
    BY DEF Extends
  <2> QED BY <2>1, <2>3, <2>4 DEF Tables, Grown
<1> QED BY <1>1, <1>2 DEF Command

-----------------------------------------------------------------------------
(* One request moves on: to its next statement or to its answer.           *)

LEMMA GotoKeeps ==
  ASSUME IInv, NEW w \in Workers, NEW s \in Statements, Goto(w, s),
         Command(s, asked[w]), Claim(s, asked[w])',
         Tables', Grown, UNCHANGED <<late, budget, created>>
  PROVE  IInv'
<1>1. TypeOK'
  BY DEF IInv, TypeOK, Tables, Goto
<1>2. \A v \in Workers : v # w => Claim(pc[v], asked[v])'
  BY ClaimGrows DEF IInv, Claims, TypeOK, Goto, Claim, Grown, Extends
<1>3. Claim(pc[w], asked[w])'
  BY DEF IInv, TypeOK, Goto, Claim
<1>4. \A x \in late : Claim(x[1], x[2])'
  BY ClaimGrows DEF IInv, Claims
<1>5. Truths'
  BY TruthGrows DEF IInv, Truths, TypeOK, Tables, Goto
<1> QED BY <1>1, <1>2, <1>3, <1>4, <1>5 DEF IInv, Claims

LEMMA AnswerKeeps ==
  ASSUME IInv, NEW w \in Workers, NEW a \in Answers, pc[w] # "idle",
         Answer(w, a), NEW q, q = asked[w], Truth(q, a)',
         Tables', Grown, budget' \in [requests : Nat, faults : Nat],
         created' \in [route : Nat, guided : Nat],
         late' \subseteq late \cup {<<pc[w], asked[w]>>}
  PROVE  IInv'
<1>1. asked[w] \in Asked /\ pc[w] \in Statements /\ Command(pc[w], asked[w])
  BY DEF IInv, TypeOK, Command, Asked
<1>2. TypeOK'
  BY <1>1 DEF IInv, TypeOK, Tables, Answer
<1>3. \A v \in Workers : v # w => Claim(pc[v], asked[v])'
  BY ClaimGrows DEF IInv, Claims, TypeOK, Answer, Claim, Grown, Extends
<1>4. Claim(pc[w], asked[w])'
  BY DEF IInv, TypeOK, Answer, Claim
<1>5. \A x \in late' : Claim(x[1], x[2])'
  BY ClaimGrows DEF IInv, Claims
<1>6. Truths'
  <2>1. \A x \in answered : Truth(x[1], x[2])'
    BY TruthGrows DEF IInv, Truths, TypeOK, Tables
  <2>2. answered' = answered \cup {<<q, a>>}
    BY DEF Answer
  <2> QED BY <2>1, <2>2 DEF Truths
<1> QED BY <1>2, <1>3, <1>4, <1>5, <1>6 DEF IInv, Claims

-----------------------------------------------------------------------------
LEMMA InitHolds == Start => IInv
<1> SUFFICES ASSUME Start PROVE IInv
  OBVIOUS
<1>1. TypeOK
  BY RequestsAssumption, LimitsAssumption DEF Start, Init, TypeOK
<1>2. Claims /\ Truths
  BY DEF Start, Claims, Claim, Truths
<1> QED BY <1>1, <1>2 DEF IInv

(* One lemma for each statement.                                          *)

LEMMA InsertKeeps ==
  ASSUME IInv, NEW w \in Workers, Insert(w) PROVE IInv'
<1>1. PICK q : q = asked[w]
  OBVIOUS
<1>2. Tables /\ q \in Requests /\ q # NoRow
  BY <1>1, RequestsAssumption DEF IInv, TypeOK, Tables, Insert, Command
<1>3. Execute("insert", q)
  BY <1>1 DEF Insert
<1>4. Tables' /\ Grown
  BY <1>2, <1>3, ExecuteGrows DEF Command
<1>5. row' = IF row = NoRow THEN q ELSE row
  BY <1>3 DEF Execute, Inserted
<1>6. CASE row = NoRow
  <2>1. Truth(q, "CREATED")'
    BY <1>2, <1>5, <1>6, HoldsItself, KindsDiffer DEF Truth
  <2>2. /\ pc[w] # "idle" /\ Answer(w, "CREATED") /\ late' = late /\ budget' = budget
        /\ created' = [created EXCEPT !.route = @ + 1]
    BY <1>6 DEF Insert
  <2>3. /\ budget' \in [requests : Nat, faults : Nat]
        /\ created' \in [route : Nat, guided : Nat]
    BY <2>2 DEF IInv, TypeOK
  <2> QED BY <1>1, <1>4, <2>1, <2>2, <2>3, AnswerKeeps DEF Answers
<1>7. CASE row # NoRow
  <2>1. Goto(w, "select") /\ UNCHANGED <<late, budget, created>>
    BY <1>7 DEF Insert
  <2>2. Claim("select", asked[w])'
    BY <1>5, <1>7 DEF Claim
  <2> QED BY <1>1, <1>2, <1>4, <2>1, <2>2, GotoKeeps DEF Statements, Command
<1> QED BY <1>6, <1>7

LEMMA SelectKeeps ==
  ASSUME IInv, NEW w \in Workers, Select(w) PROVE IInv'
<1>1. PICK q : q = asked[w]
  OBVIOUS
<1>2. /\ Tables /\ q \in Requests /\ q \notin Guided /\ pc[w] = "select"
      /\ row # NoRow /\ row \in Submission
  BY <1>1, KindsDiffer DEF IInv, TypeOK, Tables, Claims, Claim, Select, Command
<1>3. UNCHANGED <<row, guided, late, budget, created>>
  BY DEF Select
<1>4. Tables' /\ Grown
  BY <1>2, <1>3 DEF Tables, Grown, Extends
<1>5. /\ budget' \in [requests : Nat, faults : Nat]
      /\ created' \in [route : Nat, guided : Nat]
  BY <1>3 DEF IInv, TypeOK
<1>6. CASE Contradicts(row, q)
  <2>1. Answer(w, "CONFLICT")
    BY <1>1, <1>6 DEF Select
  <2>2. Truth(q, "CONFLICT")'
    BY <1>2, <1>3, <1>6 DEF Truth
  <2> QED BY <1>1, <1>2, <1>3, <1>4, <1>5, <2>1, <2>2, AnswerKeeps DEF Answers
<1>7. CASE ~Contradicts(row, q) /\ Merged(row, q) = row
  <2>1. Answer(w, "KNOWN")
    BY <1>1, <1>7 DEF Select
  <2>2. Truth(q, "KNOWN")'
    BY <1>2, <1>3, <1>7 DEF Truth, Holds, Contradicts
  <2> QED BY <1>1, <1>2, <1>3, <1>4, <1>5, <2>1, <2>2, AnswerKeeps DEF Answers
<1>8. CASE ~Contradicts(row, q) /\ Merged(row, q) # row
  <2>1. Goto(w, "fill")
    BY <1>1, <1>8 DEF Select
  <2>2. Claim("fill", asked[w])'
    BY <1>1, <1>2, <1>3, <1>8, <2>1 DEF Claim, Goto, Contradicts
  <2> QED BY <1>1, <1>2, <1>3, <1>4, <2>1, <2>2, GotoKeeps DEF Statements, Command
<1> QED BY <1>6, <1>7, <1>8

LEMMA FillKeeps ==
  ASSUME IInv, NEW w \in Workers, Fill(w) PROVE IInv'
<1>1. PICK q : q = asked[w]
  OBVIOUS
<1>2. /\ Tables /\ q \in Requests /\ q \notin Guided /\ pc[w] = "fill"
      /\ row # NoRow /\ row \in Submission /\ row.route = q.route
  BY <1>1, KindsDiffer DEF IInv, TypeOK, Tables, Claims, Claim, Fill, Command
<1>3. Execute("fill", q) /\ UNCHANGED <<late, budget, created>>
  BY <1>1 DEF Fill
<1>4. Tables' /\ Grown
  BY <1>2, <1>3, ExecuteGrows DEF Command
<1>5. row' = IF Fits(row, q) THEN Merged(row, q) ELSE row
  BY <1>2, <1>3 DEF Execute, Filled
<1>6. /\ budget' \in [requests : Nat, faults : Nat]
      /\ created' \in [route : Nat, guided : Nat]
  BY <1>3 DEF IInv, TypeOK
<1>7. CASE Fits(row, q)
  <2>1. row' # NoRow /\ Holds(row', q)
    BY <1>2, <1>4, <1>5, <1>7, MergedHolds DEF Contradicts, Grown
  <2>2. Answer(w, "KNOWN") /\ Truth(q, "KNOWN")'
    BY <1>1, <1>2, <1>7, <2>1 DEF Fill, Truth
  <2> QED BY <1>1, <1>2, <1>3, <1>4, <1>6, <2>2, AnswerKeeps DEF Answers
<1>8. CASE ~Fits(row, q)
  <2>1. Answer(w, "CONFLICT") /\ Truth(q, "CONFLICT")'
    BY <1>1, <1>2, <1>5, <1>8 DEF Fill, Truth, Contradicts
  <2> QED BY <1>1, <1>2, <1>3, <1>4, <1>6, <2>1, AnswerKeeps DEF Answers
<1> QED BY <1>7, <1>8

LEMMA InsertTripKeeps ==
  ASSUME IInv, NEW w \in Workers, InsertTrip(w) PROVE IInv'
<1>1. PICK g : g = asked[w]
  OBVIOUS
<1>2. Tables /\ g \in Guided /\ g \notin Requests /\ pc[w] = "insertTrip"
  BY <1>1, KindsDiffer DEF IInv, TypeOK, Tables, InsertTrip, Command
<1>3. Execute("insertTrip", g) /\ UNCHANGED <<late, budget>>
  BY <1>1 DEF InsertTrip
<1>4. Tables' /\ Grown
  BY <1>2, <1>3, ExecuteGrows DEF Command
<1>5. guided' = IF guided = NoRow THEN Noted(g) ELSE guided
  BY <1>3 DEF Execute, InsertedTrip
<1>6. CASE guided = NoRow
  <2>1. Noted(g) # NoRow /\ Noted(g).evidence = g.evidence
    BY <1>2, GuidedAssumption DEF Noted, Guided, GuidedRow
  <2>2. Truth(g, "CREATED")'
    BY <1>2, <1>5, <1>6, <2>1 DEF Truth
  <2>3. Answer(w, "CREATED") /\ created' = [created EXCEPT !.guided = @ + 1]
    BY <1>6 DEF InsertTrip
  <2>4. /\ budget' \in [requests : Nat, faults : Nat]
        /\ created' \in [route : Nat, guided : Nat]
    BY <1>3, <2>3 DEF IInv, TypeOK
  <2> QED BY <1>1, <1>2, <1>3, <1>4, <2>2, <2>3, <2>4, AnswerKeeps DEF Answers
<1>7. CASE guided # NoRow
  <2>1. Goto(w, "selectTrip") /\ UNCHANGED <<late, budget, created>>
    BY <1>3, <1>7 DEF InsertTrip
  <2>2. Claim("selectTrip", asked[w])'
    BY <1>5, <1>7 DEF Claim
  <2> QED BY <1>1, <1>2, <1>4, <2>1, <2>2, GotoKeeps DEF Statements, Command
<1> QED BY <1>6, <1>7

LEMMA SelectTripKeeps ==
  ASSUME IInv, NEW w \in Workers, SelectTrip(w) PROVE IInv'
<1>1. PICK g : g = asked[w]
  OBVIOUS
<1>2. /\ Tables /\ g \in Guided /\ g \notin Requests /\ pc[w] = "selectTrip"
      /\ guided # NoRow
  BY <1>1, KindsDiffer DEF IInv, TypeOK, Tables, Claims, Claim, SelectTrip, Command
<1>3. UNCHANGED <<row, guided, late, budget, created>>
  BY DEF SelectTrip
<1>4. Tables' /\ Grown
  BY <1>2, <1>3 DEF Tables, Grown, Extends
<1>5. CASE guided.evidence # g.evidence
  <2>1. Answer(w, "CONFLICT") /\ Truth(g, "CONFLICT")'
    BY <1>1, <1>2, <1>3, <1>5 DEF SelectTrip, Truth
  <2>2. /\ budget' \in [requests : Nat, faults : Nat]
        /\ created' \in [route : Nat, guided : Nat]
    BY <1>3 DEF IInv, TypeOK
  <2> QED BY <1>1, <1>2, <1>3, <1>4, <2>1, <2>2, AnswerKeeps DEF Answers
<1>6. CASE guided.evidence = g.evidence
  <2>1. Goto(w, "refresh")
    BY <1>1, <1>6 DEF SelectTrip
  <2>2. Claim("refresh", asked[w])'
    BY <1>1, <1>2, <1>3, <1>6, <2>1 DEF Claim, Goto
  <2> QED BY <1>1, <1>2, <1>3, <1>4, <2>1, <2>2, GotoKeeps DEF Statements, Command
<1> QED BY <1>5, <1>6

LEMMA RefreshKeeps ==
  ASSUME IInv, NEW w \in Workers, Refresh(w) PROVE IInv'
<1>1. PICK g : g = asked[w]
  OBVIOUS
<1>2. /\ Tables /\ g \in Guided /\ g \notin Requests /\ pc[w] = "refresh"
      /\ guided # NoRow /\ guided.evidence = g.evidence
  BY <1>1, KindsDiffer DEF IInv, TypeOK, Tables, Claims, Claim, Refresh, Command
<1>3. Execute("refresh", g) /\ UNCHANGED <<late, budget, created>>
  BY <1>1 DEF Refresh
<1>4. Tables' /\ Grown
  BY <1>2, <1>3, ExecuteGrows DEF Command
<1>5. Answer(w, "KNOWN") /\ Truth(g, "KNOWN")'
  BY <1>2, <1>4 DEF Refresh, Truth, Grown
<1>6. /\ budget' \in [requests : Nat, faults : Nat]
      /\ created' \in [route : Nat, guided : Nat]
  BY <1>3 DEF IInv, TypeOK
<1> QED BY <1>1, <1>2, <1>3, <1>4, <1>5, <1>6, AnswerKeeps DEF Answers

LEMMA FailKeeps ==
  ASSUME IInv, NEW w \in Workers, Fail(w) PROVE IInv'
<1>1. PICK q : q = asked[w]
  OBVIOUS
<1>2. UNCHANGED <<row, guided, created>>
  BY DEF Fail
<1>3. Tables' /\ Grown
  BY <1>2 DEF IInv, TypeOK, Tables, Grown, Extends
<1>4. /\ budget' \in [requests : Nat, faults : Nat]
      /\ created' \in [route : Nat, guided : Nat]
  BY <1>2 DEF IInv, TypeOK, Fail
<1>5. /\ pc[w] # "idle" /\ Answer(w, "UNAVAILABLE")
      /\ late' = late \cup {<<pc[w], asked[w]>>}
  BY DEF Fail
<1>6. Truth(q, "UNAVAILABLE")'
  BY DEF Truth
<1> QED BY <1>1, <1>3, <1>4, <1>5, <1>6, AnswerKeeps DEF Answers

LEMMA SubmitKeeps ==
  ASSUME IInv, NEW w \in Workers, NEW q \in Asked,
         NEW s \in {"insert", "insertTrip"}, Command(s, q), Submit(w, q, s)
  PROVE  IInv'
<1>1. TypeOK'
  BY DEF IInv, TypeOK, Submit, Statements, Asked
<1>2. \A v \in Workers : Claim(pc[v], asked[v])'
  BY DEF IInv, Claims, TypeOK, Submit, Claim
<1>3. \A x \in late' : Claim(x[1], x[2])'
  BY DEF IInv, Claims, Submit, Claim
<1>4. Truths'
  BY DEF IInv, Truths, Truth, Submit
<1> QED BY <1>1, <1>2, <1>3, <1>4 DEF IInv, Claims

LEMMA ExecuteLateKeeps ==
  ASSUME IInv, NEW x \in late, ExecuteLate(x) PROVE IInv'
<1>1. Tables /\ Command(x[1], x[2])
  BY DEF IInv, TypeOK, Tables
<1>2. Tables' /\ Grown
  BY <1>1, ExecuteGrows DEF ExecuteLate
<1>3. UNCHANGED <<pc, asked, reply, budget, answered, created>> /\ late' \subseteq late
  BY DEF ExecuteLate
<1>4. TypeOK'
  BY <1>2, <1>3 DEF IInv, TypeOK, Tables
<1>5. Claims'
  BY <1>2, <1>3, ClaimGrows DEF IInv, Claims
<1>6. Truths'
  BY <1>1, <1>2, <1>3, TruthGrows DEF IInv, Truths
<1> QED BY <1>4, <1>5, <1>6 DEF IInv

LEMMA StepKeeps == IInv /\ [Step]_vars => IInv'
<1> SUFFICES ASSUME IInv, [Step]_vars PROVE IInv'
  OBVIOUS
<1>1. ASSUME NEW w \in Workers, Serve(w) PROVE IInv'
  BY <1>1, InsertKeeps, SelectKeeps, FillKeeps, InsertTripKeeps, SelectTripKeeps,
     RefreshKeeps, FailKeeps DEF Serve
<1>2. ASSUME NEW w \in Workers, NEW q \in Requests, Submit(w, q, "insert") PROVE IInv'
  BY <1>2, SubmitKeeps DEF Asked, Command
<1>3. ASSUME NEW w \in Workers, NEW g \in Guided, Submit(w, g, "insertTrip") PROVE IInv'
  BY <1>3, SubmitKeeps DEF Asked, Command
<1>4. ASSUME NEW x \in late, ExecuteLate(x) PROVE IInv'
  BY <1>4, ExecuteLateKeeps
<1>5. CASE UNCHANGED vars
  BY <1>5 DEF vars, IInv, TypeOK, Claims, Claim, Truths, Truth
<1> QED BY <1>1, <1>2, <1>3, <1>4, <1>5 DEF Step

LEMMA Inductive == HistorySpec => []IInv
BY InitHolds, StepKeeps, PTL DEF HistorySpec

-----------------------------------------------------------------------------
(* Every variable of the store and of its requests keeps its type.         *)
THEOREM TypeCorrect == HistorySpec => []TypeOK
<1>1. IInv => TypeOK
  BY DEF IInv
<1> QED BY <1>1, Inductive, PTL

(* What upsert_route answered stays true, whatever other retries and late  *)
(* statements do to the row afterwards.                                    *)
THEOREM RouteAnswersTrue == HistorySpec => []RouteAnswersHold
<1>1. IInv => RouteAnswersHold
  BY DEF IInv, Truths, Truth, RouteAnswersHold
<1> QED BY <1>1, Inductive, PTL

(* What ingest_guided_trip answered stays true.                            *)
THEOREM TripAnswersTrue == HistorySpec => []TripAnswersHold
<1>1. IInv => TripAnswersHold
  BY DEF IInv, Truths, Truth, TripAnswersHold
<1> QED BY <1>1, Inductive, PTL

(* 201 is answered once for a row, by the request that inserted it.        *)
THEOREM CreatedOnlyOnce == HistorySpec => []CreatedOnce
<1>1. Start => CreatedOnce
  BY DEF Start, CreatedOnce
<1>2. ASSUME IInv, CreatedOnce, [Step]_vars PROVE CreatedOnce'
  <2>1. created \in [route : Nat, guided : Nat]
    BY <1>2 DEF IInv, TypeOK
  <2>2. ASSUME NEW w \in Workers, Insert(w) PROVE CreatedOnce'
    <3>1. PICK q : q = asked[w]
      OBVIOUS
    <3>2. q # NoRow
      BY <1>2, <2>2, <3>1, RequestsAssumption DEF IInv, TypeOK, Insert, Command
    <3>3. row' # NoRow /\ guided' = guided
      BY <2>2, <3>1, <3>2 DEF Insert, Execute, Inserted
    <3>4. CASE row = NoRow
      BY <1>2, <2>1, <2>2, <3>3, <3>4 DEF Insert, CreatedOnce
    <3>5. CASE row # NoRow
      BY <1>2, <2>2, <3>3, <3>5 DEF Insert, CreatedOnce
    <3> QED BY <3>4, <3>5
  <2>3. ASSUME NEW w \in Workers, InsertTrip(w) PROVE CreatedOnce'
    <3>1. PICK g : g = asked[w]
      OBVIOUS
    <3>2. Noted(g) # NoRow
      BY <1>2, <2>3, <3>1, GuidedAssumption
      DEF IInv, TypeOK, InsertTrip, Command, Noted, Guided, GuidedRow
    <3>3. guided' # NoRow /\ row' = row
      BY <2>3, <3>1, <3>2 DEF InsertTrip, Execute, InsertedTrip
    <3>4. CASE guided = NoRow
      BY <1>2, <2>1, <2>3, <3>3, <3>4 DEF InsertTrip, CreatedOnce
    <3>5. CASE guided # NoRow
      BY <1>2, <2>3, <3>3, <3>5 DEF InsertTrip, CreatedOnce
    <3> QED BY <3>4, <3>5
  <2>4. ASSUME Grown, created' = created PROVE CreatedOnce'
    BY <1>2, <2>4 DEF CreatedOnce, Grown
  <2>5. ASSUME NEW x, NEW q, Command(x, q), Execute(x, q) PROVE Grown
    BY <1>2, <2>5, ExecuteGrows DEF IInv, TypeOK, Tables
  <2>6. ASSUME UNCHANGED <<row, guided>> PROVE Grown
    BY <2>6 DEF Grown, Extends
  <2>7. ASSUME NEW w \in Workers, Fill(w) \/ Refresh(w) PROVE CreatedOnce'
    <3>1. Grown /\ created' = created
      BY <1>2, <2>5, <2>7 DEF IInv, TypeOK, Fill, Refresh
    <3> QED BY <2>4, <3>1
  <2>8. ASSUME NEW w \in Workers, Select(w) \/ SelectTrip(w) \/ Fail(w) PROVE CreatedOnce'
    BY <2>4, <2>6, <2>8 DEF Select, SelectTrip, Fail
  <2>9. ASSUME NEW w \in Workers, NEW q, NEW s, Submit(w, q, s) PROVE CreatedOnce'
    BY <2>4, <2>6, <2>9 DEF Submit
  <2>10. ASSUME NEW x \in late, ExecuteLate(x) PROVE CreatedOnce'
    <3>1. Grown /\ created' = created
      BY <1>2, <2>5, <2>10 DEF IInv, TypeOK, ExecuteLate
    <3> QED BY <2>4, <3>1
  <2>11. CASE UNCHANGED vars
    BY <2>4, <2>6, <2>11 DEF vars
  <2> QED BY <1>2, <2>2, <2>3, <2>7, <2>8, <2>9, <2>10, <2>11 DEF Step, Serve
<1> QED BY <1>1, <1>2, Inductive, PTL DEF HistorySpec

(* A sequence of statements without a transaction, some of them lost or    *)
(* late, changes the tables as if each submission were learnt at once.     *)
THEOREM EvidenceImplemented == HistorySpec => ImplementsEvidence
<1>1. Start => Evidence!Init
  BY DEF Start, Init, Evidence!Init
<1>2. ASSUME IInv, [Step]_vars PROVE [Evidence!Next]_<<row, guided>>
  <2>1. ASSUME NEW s, NEW q, Command(s, q), Claim(s, q), Execute(s, q)
        PROVE  [Evidence!Next]_<<row, guided>>
    <3>1. CASE s = "insert"
      <4>1. q \in Requests /\ guided' = guided /\ row' = IF row = NoRow THEN q ELSE row
        BY <2>1, <3>1 DEF Command, Execute, Inserted
      <4> QED BY <4>1 DEF Evidence!Next, Evidence!Learn
    <3>2. CASE s = "fill"
      <4>1. /\ q \in Requests /\ guided' = guided /\ row # NoRow /\ row.route = q.route
            /\ row' = IF Fits(row, q) THEN Merged(row, q) ELSE row
        BY <2>1, <3>2 DEF Command, Claim, Execute, Filled
      <4>2. CASE Fits(row, q)
        <5>1. Evidence!Learn(q)
          BY <4>1, <4>2
          DEF Evidence!Learn, Evidence!Contradicts, Evidence!Fits, Evidence!Agree,
              Evidence!Merged, Fits, Agree, Merged
        <5> QED BY <4>1, <5>1 DEF Evidence!Next
      <4>3. CASE ~Fits(row, q)
        BY <4>1, <4>3
      <4> QED BY <4>2, <4>3
    <3>3. CASE s = "insertTrip"
      <4>1. q \in Guided /\ row' = row /\ guided' = IF guided = NoRow THEN Noted(q) ELSE guided
        BY <2>1, <3>3 DEF Command, Execute, InsertedTrip
      <4> QED BY <4>1
          DEF Evidence!Next, Evidence!Analyse, Evidence!Guided, Guided, Noted
    <3>4. CASE s = "refresh"
      <4>1. q \in Guided /\ row' = row /\ guided.evidence = q.evidence /\ guided' = Noted(q)
        BY <2>1, <3>4 DEF Command, Claim, Execute, Refreshed
      <4> QED BY <4>1
          DEF Evidence!Next, Evidence!Analyse, Evidence!Guided, Guided, Noted
    <3>5. CASE s \in {"select", "selectTrip"}
      BY <2>1, <3>5 DEF Execute
    <3> QED BY <2>1, <3>1, <3>2, <3>3, <3>4, <3>5 DEF Command
  <2>2. ASSUME NEW w \in Workers, Serve(w) PROVE [Evidence!Next]_<<row, guided>>
    <3>1. ASSUME NEW s, pc[w] = s, s # "idle", Execute(s, asked[w])
          PROVE  [Evidence!Next]_<<row, guided>>
      BY <1>2, <2>1, <3>1 DEF IInv, TypeOK, Claims
    <3>2. CASE Insert(w)
      BY <3>1, <3>2 DEF Insert
    <3>3. CASE Fill(w)
      BY <3>1, <3>3 DEF Fill
    <3>4. CASE InsertTrip(w)
      BY <3>1, <3>4 DEF InsertTrip
    <3>5. CASE Refresh(w)
      BY <3>1, <3>5 DEF Refresh
    <3>6. CASE Select(w) \/ SelectTrip(w) \/ Fail(w)
      BY <3>6 DEF Select, SelectTrip, Fail
    <3> QED BY <2>2, <3>2, <3>3, <3>4, <3>5, <3>6 DEF Serve
  <2>3. ASSUME NEW x \in late, ExecuteLate(x) PROVE [Evidence!Next]_<<row, guided>>
    BY <1>2, <2>1, <2>3 DEF IInv, TypeOK, Claims, ExecuteLate
  <2>4. ASSUME NEW w \in Workers, NEW q, NEW s, Submit(w, q, s)
        PROVE  [Evidence!Next]_<<row, guided>>
    BY <2>4 DEF Submit
  <2>5. CASE UNCHANGED vars
    BY <2>5 DEF vars
  <2> QED BY <1>2, <2>2, <2>3, <2>4, <2>5 DEF Step
<1> QED
  BY <1>1, <1>2, Inductive, PTL DEF HistorySpec, ImplementsEvidence, Evidence!Spec
=============================================================================
