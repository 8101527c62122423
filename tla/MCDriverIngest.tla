--------------------------- MODULE MCDriverIngest ---------------------------
(* A small instance of DriverIngest.  Times and distances are scaled down, *)
(* the thresholds keep their order.                                        *)
EXTENDS DriverIngest

MCPlaces == 0..2
MCDistance == [e \in MCPlaces \X MCPlaces |->
                 IF e[1] >= e[2] THEN e[1] - e[2] ELSE e[2] - e[1]]

Observation(i, t, p) == [id |-> i, ts |-> t, place |-> p]

(* Two observations a step apart, one at the same place, one beyond a gap, *)
(* and the second one's identifier with another payload.                   *)
MCObservations == {Observation("a", 1, 0), Observation("b", 2, 2),
                   Observation("c", 2, 2), Observation("b", 4, 1)}

MCIds == {"a", "b", "c"}
=============================================================================
