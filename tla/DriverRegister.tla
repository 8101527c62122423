--------------------------- MODULE DriverRegister ---------------------------
(***************************************************************************)
(* What the driver-state store promises its clients: a register whose      *)
(* trace changes only by one whole operation at a time, applied to the     *)
(* trace that is in the register then.  No operation is computed from an   *)
(* older trace (a lost update), and a match is only ever recorded for the  *)
(* newest accepted observation.  DriverIngest implements it with reads,    *)
(* compare-and-set writes and retries spread over several processes.       *)
(***************************************************************************)
EXTENDS DriverTrace

VARIABLE trace

Init == trace = Fresh(1)

(* One observation that is neither stale nor in conflict is added.         *)
AcceptStep(t, u) ==
  \E o \in Observations : ~Stale(t, o) /\ ~Conflicting(t, o) /\ u \in AddResults(t, o)

(* The status last reported for the driver changes, and nothing else; a    *)
(* status of MATCHED comes with its match only.                            *)
ReportStep(t, u) == \E s \in Statuses \ {"MATCHED"} : u = WithStatus(t, s)

(* A match of the newest observation is recorded.                          *)
MatchStep(t, u) == t.obs # <<>> /\ u = WithMatch(t, Newest(t))

(* DELETE /drivers/{id}/location: a fresh trace of the next generation.    *)
ResetStep(t, u) == u = Fresh(t.gen + 1)

Operation(t, u) == AcceptStep(t, u) \/ ReportStep(t, u) \/ MatchStep(t, u) \/ ResetStep(t, u)

(* The key expires between two uses and the driver starts anew.            *)
Forget == trace' = Fresh(1)

Next == Operation(trace, trace') \/ Forget

Spec == Init /\ [][Next]_trace
=============================================================================
