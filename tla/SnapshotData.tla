---------------------------- MODULE SnapshotData ----------------------------
(***************************************************************************)
(* Operational snapshots (services/snapshots/models.py): immutable values  *)
(* of a key (kind and entity) at a time.  The identifier of a snapshot is  *)
(* a digest of its content, so the snapshot stands for its identifier.     *)
(***************************************************************************)
EXTENDS Naturals, FiniteSets

CONSTANTS
  Keys,      \* kind:entity, numbered in their sort order
  Bodies,    \* what a snapshot says of its entity
  Times,     \* timestamps of snapshots and requests
  NoSnap,    \* no snapshot of the key
  Batches    \* the batches the sources submit, as sets of snapshots

ASSUME SnapshotAssumption == Keys \subseteq Nat /\ Times \subseteq Nat

Snapshot == [key : Keys, time : Times, body : Bodies]

ASSUME NoSnapAssumption == NoSnap \notin Snapshot

ASSUME BatchesAssumption ==
  /\ Batches \subseteq SUBSET Snapshot /\ {} \notin Batches
  /\ \A b \in Batches : IsFiniteSet(b)

View == [Keys -> Snapshot \cup {NoSnap}]
NoView == [k \in Keys |-> NoSnap]

(* UNIQUE (kind, entity_id, timestamp).                                    *)
SameRow(x, y) == x.key = y.key /\ x.time = y.time
Consistent(R) == \A x, y \in R : SameRow(x, y) => x = y

(* The rows a request of time t may see of a key; the newest is its head.  *)
UpTo(R, k, t) == {x \in R : x.key = k /\ x.time <= t}

MutatedNewest(S) ==
  IF S = {} THEN NoSnap ELSE CHOOSE x \in S : \A y \in S : y.time >= x.time

Newest(S) ==
  IF S = {} THEN NoSnap ELSE CHOOSE x \in S : \A y \in S : y.time <= x.time

Head(R, k, t) == Newest(UpTo(R, k, t))

Heads(R, t) == [k \in Keys |-> Head(R, k, t)]
=============================================================================
