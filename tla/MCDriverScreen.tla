--------------------------- MODULE MCDriverScreen ---------------------------
(* A small instance of DriverScreen.  Stations are interchangeable, and so *)
(* are slots: which free one a handler takes is of no consequence.         *)
EXTENDS DriverScreen, TLC

Symmetry == Permutations(Stations) \cup Permutations(Slots)

(* Bound: at most one of the requests under way has been overtaken, and    *)
(* none by a new generation while all the slots are taken.                 *)
Stale(s) == op[s].kind \notin {"idle", "resume", "diversion"} /\ op[s].valid # Remembered(op[s])
Late(s) == op[s].kind # "idle" /\ ~Current(s, {"generation"})
FewStale ==
  /\ Cardinality({s \in Slots : Stale(s) \/ Late(s)}) <= 1
  /\ (\A s \in Slots : op[s].kind # "idle") => \A s \in Slots : ~Late(s)
=============================================================================
