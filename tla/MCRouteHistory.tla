--------------------------- MODULE MCRouteHistory ---------------------------
(* A small instance of RouteHistory: submissions that complete, repeat and *)
(* contradict each other, and a row from before evidence was kept.         *)
EXTENDS RouteHistory, TLC

Sub(r, g, s) == [route |-> r, geometry |-> g, started |-> s]

MCRequests == {Sub("r1", "g1", None), Sub("r1", "g1", "s1"), Sub("r1", "g1", "s2"),
               Sub("r1", "g2", "s1"), Sub("r2", "g2", None)}
MCLegacy == {Sub("r1", None, None)}
MCSymmetry == Permutations(Workers)
=============================================================================
