----------------------------- MODULE StateStore -----------------------------
(***************************************************************************)
(* What the snapshot store promises (docs/DECISIONS.md, ADR-013): batches  *)
(* of immutable snapshots are committed whole or not at all, and a reader  *)
(* sees, for all its keys, the newest snapshots of one instant.            *)
(***************************************************************************)
EXTENDS SnapshotData

CONSTANT Readers

VARIABLES
  rows,   \* the committed snapshots
  view    \* what each reader has pinned

Init == rows = {} /\ view = [r \in Readers |-> NoView]

Commit(b) ==
  /\ Consistent(rows \cup b)
  /\ rows' = rows \cup b
  /\ UNCHANGED view

Pin(r, t) ==
  /\ view' = [view EXCEPT ![r] = Heads(rows, t)]
  /\ UNCHANGED rows

Next ==
  \/ \E b \in Batches : Commit(b)
  \/ \E r \in Readers, t \in Times : Pin(r, t)

Spec == Init /\ [][Next]_<<rows, view>>
=============================================================================
