---------------------------- MODULE RouteHistory ----------------------------
(***************************************************************************)
(* Ingestion of one completed trip (services/route_familiarity/            *)
(* repository.py, api/v1/route_familiarity.py): requests of several        *)
(* processes, each a few PostgreSQL statements that commit one by one,     *)
(* with no transaction around them.  A statement may fail with its         *)
(* connection; it may then have been executed, or be executed later (the   *)
(* set "late"), or never.                                                  *)
(***************************************************************************)
EXTENDS RouteEvidence, Naturals

CONSTANTS
  Workers,       \* concurrent requests
  MaxRequests,   \* bound: requests in a behaviour
  MaxFaults      \* bound: statements whose answer is lost

ASSUME LimitsAssumption == MaxRequests \in Nat /\ MaxFaults \in Nat

VARIABLES
  pc,        \* the next statement of each request
  asked,     \* its submission
  reply,
  late,      \* statements whose connection was lost
  budget,
  (* History variables: they record what happened and steer nothing.       *)
  answered,  \* <<submission, answer>> of the requests answered
  created    \* requests told that they created the row, by table

vars == <<row, guided, pc, asked, reply, late, budget, answered, created>>

Asked == Requests \cup Guided

Start ==
  /\ Init
  /\ pc = [w \in Workers |-> "idle"]
  /\ asked = [w \in Workers |-> NoRow]
  /\ reply = [w \in Workers |-> "NONE"]
  /\ late = {}
  /\ budget = [requests |-> MaxRequests, faults |-> MaxFaults]
  /\ answered = {}
  /\ created = [route |-> 0, guided |-> 0]

Goto(w, label) ==
  /\ pc' = [pc EXCEPT ![w] = label]
  /\ UNCHANGED <<asked, reply, answered>>

Answer(w, answer) ==
  /\ pc' = [pc EXCEPT ![w] = "idle"]
  /\ reply' = [reply EXCEPT ![w] = answer]
  /\ answered' = answered \cup {<<asked[w], answer>>}
  /\ asked' = [asked EXCEPT ![w] = NoRow]

-----------------------------------------------------------------------------
(* The statements that write.                                              *)

(* INSERT ... ON CONFLICT (driver_id, trip_id) DO NOTHING                  *)
Inserted(q) == IF row = NoRow THEN q ELSE row

MutatedFilled(q) == IF row = NoRow THEN row ELSE q

(* _ADD_EVIDENCE: an UPDATE whose WHERE repeats the comparison.            *)
Filled(q) == IF row # NoRow /\ Fits(row, q) THEN Merged(row, q) ELSE row

Noted(g) == [evidence |-> g.evidence, analysis |-> g]

InsertedTrip(g) == IF guided = NoRow THEN Noted(g) ELSE guided

(* UPDATE ... SET analysis WHERE evidence = ...                            *)
Refreshed(g) ==
  IF guided # NoRow /\ guided.evidence = g.evidence THEN Noted(g) ELSE guided

Execute(statement, q) ==
  /\ row' = CASE statement = "insert" -> Inserted(q)
              [] statement = "fill" -> Filled(q)
              [] OTHER -> row
  /\ guided' = CASE statement = "insertTrip" -> InsertedTrip(q)
                 [] statement = "refresh" -> Refreshed(q)
                 [] OTHER -> guided

-----------------------------------------------------------------------------
Submit(w, q, statement) ==
  /\ pc[w] = "idle"
  /\ budget.requests > 0
  /\ budget' = [budget EXCEPT !.requests = @ - 1]
  /\ asked' = [asked EXCEPT ![w] = q]
  /\ pc' = [pc EXCEPT ![w] = statement]
  /\ UNCHANGED <<row, guided, reply, late, answered, created>>

(* upsert_route                                                            *)
Insert(w) ==
  /\ pc[w] = "insert"
  /\ Execute("insert", asked[w])
  /\ IF row = NoRow
     THEN Answer(w, "CREATED") /\ created' = [created EXCEPT !.route = @ + 1]
     ELSE Goto(w, "select") /\ UNCHANGED created
  /\ UNCHANGED <<late, budget>>

MutatedSelect(w) ==
  /\ pc[w] = "select"
  /\ IF row.route # asked[w].route THEN Answer(w, "CONFLICT")
     ELSE IF Agree(row.geometry, asked[w].geometry) THEN Answer(w, "KNOWN")
     ELSE Goto(w, "fill")
  /\ UNCHANGED <<row, guided, late, budget, created>>

(* What is read here decides; the row may change before the UPDATE.        *)
Select(w) ==
  /\ pc[w] = "select"
  /\ IF Contradicts(row, asked[w]) THEN Answer(w, "CONFLICT")
     ELSE IF Merged(row, asked[w]) = row THEN Answer(w, "KNOWN")
     ELSE Goto(w, "fill")
  /\ UNCHANGED <<row, guided, late, budget, created>>

(* No row updated: what was missing has been filled with something else.   *)
Fill(w) ==
  /\ pc[w] = "fill"
  /\ Execute("fill", asked[w])
  /\ Answer(w, IF Fits(row, asked[w]) THEN "KNOWN" ELSE "CONFLICT")
  /\ UNCHANGED <<late, budget, created>>

(* ingest_guided_trip                                                      *)
InsertTrip(w) ==
  /\ pc[w] = "insertTrip"
  /\ Execute("insertTrip", asked[w])
  /\ IF guided = NoRow
     THEN Answer(w, "CREATED") /\ created' = [created EXCEPT !.guided = @ + 1]
     ELSE Goto(w, "selectTrip") /\ UNCHANGED created
  /\ UNCHANGED <<late, budget>>

MutatedSelectTrip(w) ==
  /\ pc[w] = "selectTrip"
  /\ Goto(w, "refresh")
  /\ UNCHANGED <<row, guided, late, budget, created>>

SelectTrip(w) ==
  /\ pc[w] = "selectTrip"
  /\ IF guided.evidence # asked[w].evidence
     THEN Answer(w, "CONFLICT") ELSE Goto(w, "refresh")
  /\ UNCHANGED <<row, guided, late, budget, created>>

Refresh(w) ==
  /\ pc[w] = "refresh"
  /\ Execute("refresh", asked[w])
  /\ Answer(w, "KNOWN")
  /\ UNCHANGED <<late, budget, created>>

(* The connection is lost before the answer: 503.                          *)
Fail(w) ==
  /\ pc[w] # "idle"
  /\ budget.faults > 0
  /\ budget' = [budget EXCEPT !.faults = @ - 1]
  /\ late' = late \cup {<<pc[w], asked[w]>>}
  /\ Answer(w, "UNAVAILABLE")
  /\ UNCHANGED <<row, guided, created>>

ExecuteLate(s) ==
  /\ late' = late \ {s}
  /\ Execute(s[1], s[2])
  /\ UNCHANGED <<pc, asked, reply, budget, answered, created>>

Serve(w) ==
  \/ Insert(w) \/ Select(w) \/ Fill(w)
  \/ InsertTrip(w) \/ SelectTrip(w) \/ Refresh(w)
  \/ Fail(w)

Step ==
  \/ \E w \in Workers :
       \/ Serve(w)
       \/ \E q \in Requests : Submit(w, q, "insert")
       \/ \E g \in Guided : Submit(w, g, "insertTrip")
  \/ \E s \in late : ExecuteLate(s)

HistorySpec == Start /\ [][Step]_vars

-----------------------------------------------------------------------------
Statements == {"insert", "select", "fill", "insertTrip", "selectTrip", "refresh"}

Answers == {"CREATED", "KNOWN", "CONFLICT", "UNAVAILABLE"}

(* A statement goes with the kind of its submission.                       *)
Command(s, q) ==
  \/ s \in {"insert", "select", "fill"} /\ q \in Requests
  \/ s \in {"insertTrip", "selectTrip", "refresh"} /\ q \in Guided

(* Every variable has its type.                                            *)
TypeOK ==
  /\ row \in Submission \cup {NoRow}
  /\ guided \in GuidedRow \cup {NoRow}
  /\ pc \in [Workers -> Statements \cup {"idle"}]
  /\ asked \in [Workers -> Asked \cup {NoRow}]
  /\ \A w \in Workers : pc[w] # "idle" => Command(pc[w], asked[w])
  /\ reply \in [Workers -> Answers \cup {"NONE"}]
  /\ late \subseteq Statements \X Asked
  /\ \A s \in late : Command(s[1], s[2])
  /\ budget \in [requests : Nat, faults : Nat]
  /\ answered \subseteq Asked \X Answers
  /\ created \in [route : Nat, guided : Nat]

(* Every answer stays true for ever: what was acknowledged is stored, all  *)
(* of it, whichever retry filled in which part in between, and what was    *)
(* refused with 409 contradicts the row and will contradict it on every    *)
(* retry.                                                                  *)
RouteAnswersHold ==
  \A q \in Requests :
    /\ <<q, "CREATED">> \in answered \/ <<q, "KNOWN">> \in answered =>
         row # NoRow /\ Holds(row, q)
    /\ <<q, "CONFLICT">> \in answered => row # NoRow /\ Contradicts(row, q)

(* The same of guided trips, whose evidence is compared as a whole.        *)
TripAnswersHold ==
  \A g \in Guided :
    /\ <<g, "CREATED">> \in answered \/ <<g, "KNOWN">> \in answered =>
         guided # NoRow /\ guided.evidence = g.evidence
    /\ <<g, "CONFLICT">> \in answered =>
         guided # NoRow /\ guided.evidence # g.evidence

(* One request at most is told 201, however many race or repeat.           *)
CreatedOnce ==
  /\ created.route <= 1 /\ created.guided <= 1
  /\ row = NoRow => created.route = 0
  /\ guided = NoRow => created.guided = 0

(* Three statements without a transaction amount to learning a submission  *)
(* whole or not at all.                                                    *)
Evidence == INSTANCE RouteEvidence
ImplementsEvidence == Evidence!Spec
=============================================================================
