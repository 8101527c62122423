---------------------------- MODULE RouteEvidence ----------------------------
(***************************************************************************)
(* What route history promises of one completed trip (docs/DECISIONS.md:   *)
(* "Trusted retries can fill previously null evidence if the immutable     *)
(* trip signature agrees"): a submission is learnt whole or not at all,    *)
(* and nothing learnt is ever replaced.  Beside it, the evidence of a      *)
(* guided trip, immutable from the first, and the analysis derived from it.*)
(***************************************************************************)
CONSTANTS
  Routes,        \* completion time, distance and cells: the trip signature
  Geometries, Starts, None,   \* optional evidence
  Requests,      \* submissions of the completed route: a polyline always
  Legacy,        \* rows stored before evidence was
  NoRow,         \* no row in a table
  Trips,         \* guided evidence
  Detectors      \* versions of the detector that analyses it

Submission == [route : Routes, geometry : Geometries \cup {None}, started : Starts \cup {None}]

ASSUME RequestsAssumption ==
  /\ Requests \subseteq {x \in Submission : x.geometry # None}
  /\ Legacy \subseteq {x \in Submission : x.geometry = None /\ x.started = None}
  /\ NoRow \notin Submission

Guided == [evidence : Trips, detector : Detectors]

(* analysis is a function of evidence and detector: it is kept as the pair *)
(* it was computed from.                                                   *)
GuidedRow == [evidence : Trips, analysis : Guided]

ASSUME GuidedAssumption == NoRow \notin GuidedRow

VARIABLES
  row,      \* route_familiarity_routes
  guided    \* route_deviation_trips

-----------------------------------------------------------------------------
Agree(x, y) == x = None \/ y = None \/ x = y

(* No evidence of q contradicts evidence that is stored.                   *)
Fits(r, q) == Agree(r.geometry, q.geometry) /\ Agree(r.started, q.started)

(* COALESCE: only what is missing is filled in.                            *)
Merged(r, q) ==
  [r EXCEPT !.geometry = IF @ = None THEN q.geometry ELSE @,
            !.started = IF @ = None THEN q.started ELSE @]

(* The row holds all that q says.                                          *)
Holds(r, q) == r.route = q.route /\ Fits(r, q) /\ Merged(r, q) = r

Contradicts(r, q) == r.route # q.route \/ ~Fits(r, q)

Init == row \in {NoRow} \cup Legacy /\ guided = NoRow

(* A submission is learnt whole.                                           *)
Learn(q) ==
  /\ \/ row = NoRow /\ row' = q
     \/ row # NoRow /\ ~Contradicts(row, q) /\ row' = Merged(row, q)
  /\ UNCHANGED guided

(* The evidence stays, its analysis may be computed anew.                  *)
Analyse(g) ==
  /\ guided = NoRow \/ guided.evidence = g.evidence
  /\ guided' = [evidence |-> g.evidence, analysis |-> g]
  /\ UNCHANGED row

Next == \/ \E q \in Requests : Learn(q)
        \/ \E g \in Guided : Analyse(g)

Spec == Init /\ [][Next]_<<row, guided>>
=============================================================================
