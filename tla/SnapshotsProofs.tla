-------------------------- MODULE SnapshotsProofs ---------------------------
(***************************************************************************)
(* Proofs about Snapshots: its type invariant, that transactions never     *)
(* wait in a cycle, that answers stay true, that a view is what was        *)
(* pinned, that the cache never goes back, and that the store implements   *)
(* StateStore, for any keys, finite batches, writers, readers and faults.  *)
(* Last about Simulator: its behaviours are behaviours of Snapshots, so    *)
(* all of this holds of them, and no view mixes two ticks, for any         *)
(* station and any other batches.                                          *)
(***************************************************************************)
EXTENDS Simulator, FiniteSetTheorems, WellFoundedInduction, TLAPS

-----------------------------------------------------------------------------
(* Largest and smallest members.                                           *)

LEMMA NatMin ==
  ASSUME NEW T \in SUBSET Nat, T # {}
  PROVE  \E a \in T : \A b \in T : a <= b
<1>1. PICK a \in T : \A b \in T : <<b, a>> \notin OpToRel(<, Nat)
  BY WFMin, NatLessThanWellFounded
<1>2. \A b \in T : a \in Nat /\ b \in Nat /\ ~(b < a)
  BY <1>1 DEF OpToRel
<1> QED BY <1>2

(* A finite set has a member of the largest rank: a set without one, of    *)
(* the fewest members, has one that can be taken away.                     *)
LEMMA Largest ==
  ASSUME NEW S, IsFiniteSet(S), S # {}, NEW f, \A x \in S : f[x] \in Nat
  PROVE  \E m \in S : \A x \in S : f[x] <= f[m]
<1> DEFINE Has(T) == \E m \in T : \A x \in T : f[x] <= f[m]
           Bad == {T \in SUBSET S : T # {} /\ ~Has(T)}
           sizes == {Cardinality(T) : T \in Bad}
<1>1. \A T \in SUBSET S : IsFiniteSet(T) /\ Cardinality(T) \in Nat
  BY FS_Subset, FS_CardinalityType
<1>2. SUFFICES ASSUME S \in Bad PROVE FALSE
  OBVIOUS
<1>3. sizes \in SUBSET Nat /\ sizes # {}
  BY <1>1, <1>2
<1>4. PICK n \in sizes : \A b \in sizes : n <= b
  <2> HIDE DEF sizes
  <2> QED BY <1>3, NatMin
<1>5. PICK T \in Bad : n = Cardinality(T)
  BY <1>4
<1>6. PICK x \in T : TRUE
  BY <1>5
<1> DEFINE U == T \ {x}
<1>7. U \in SUBSET S /\ U \notin Bad
  <2>1. IsFiniteSet(T) /\ Cardinality(T) \in Nat
    BY <1>1, <1>5
  <2>2. Cardinality(U) = Cardinality(T) - 1
    BY <1>6, <2>1, FS_RemoveElement
  <2>3. Cardinality(U) \notin sizes
    <3> HIDE DEF sizes, U
    <3>1. \A b \in sizes : Cardinality(T) <= b
      BY <1>4, <1>5
    <3> QED BY <2>1, <2>2, <3>1
  <2> QED BY <1>5, <2>3
<1>8. Has(T)
  <2>1. CASE U = {}
    <3>1. T = {x} /\ f[x] \in Nat
      BY <1>5, <1>6, <2>1
    <3> QED BY <3>1
  <2>2. CASE U # {}
    <3>1. PICK m \in U : \A y \in U : f[y] <= f[m]
      BY <1>7, <2>2
    <3>2. \A y \in T : f[y] \in Nat
      BY <1>5
    <3>3. CASE f[x] <= f[m]
      BY <1>6, <3>1, <3>3
    <3>4. CASE ~(f[x] <= f[m])
      <4>1. \A y \in T : f[y] <= f[x]
        BY <1>6, <3>1, <3>2, <3>4
      <4> QED BY <1>6, <4>1
    <3> QED BY <3>3, <3>4
  <2> QED BY <2>1, <2>2
<1> QED BY <1>5, <1>8

-----------------------------------------------------------------------------
(* Rows.                                                                   *)

LEMMA Fields ==
  ASSUME NEW x \in Snapshot
  PROVE  x.key \in Keys /\ x.key \in Nat /\ x.time \in Nat /\ x # NoSnap
BY SnapshotAssumption, NoSnapAssumption DEF Snapshot

LEMMA NewestFound ==
  ASSUME NEW S \in SUBSET Snapshot, IsFiniteSet(S), S # {}
  PROVE  Newest(S) \in S /\ \A y \in S : y.time <= Newest(S).time
<1> DEFINE time == [x \in S |-> x.time]
<1>1. \A x \in S : time[x] \in Nat
  BY Fields
<1>2. PICK m \in S : \A x \in S : time[x] <= time[m]
  <2> HIDE DEF time
  <2> QED BY <1>1, Largest
<1>3. \A x \in S : x.time <= m.time
  BY <1>2
<1> QED BY <1>3 DEF Newest

LEMMA HeadFound ==
  ASSUME NEW R \in SUBSET Snapshot, IsFiniteSet(R), NEW k \in Keys, NEW t
  PROVE  /\ Heads(R, t)[k] \in UpTo(R, k, t) \cup {NoSnap}
         /\ UpTo(R, k, t) # {} =>
              /\ Heads(R, t)[k] \in UpTo(R, k, t)
              /\ \A y \in UpTo(R, k, t) : y.time <= Heads(R, t)[k].time
<1>1. Heads(R, t)[k] = Newest(UpTo(R, k, t))
  BY DEF Heads, Head
<1>2. UpTo(R, k, t) \in SUBSET Snapshot /\ IsFiniteSet(UpTo(R, k, t))
  BY FS_Subset DEF UpTo
<1>3. CASE UpTo(R, k, t) = {}
  BY <1>1, <1>3 DEF Newest
<1>4. CASE UpTo(R, k, t) # {}
  BY <1>1, <1>2, <1>4, NewestFound
<1> QED BY <1>3, <1>4

(* y does not come after x in the order in which rows are inserted.        *)
Ordered(y, x) == y.key < x.key \/ (y.key = x.key /\ y.time <= x.time)

(* A transaction that has rows to insert has a next one.                   *)
LEMMA NextRowExists ==
  ASSUME NEW w, todo[w] \in SUBSET Snapshot, todo[w] # {}
  PROVE  \E x \in todo[w] : NextRow(w, x)
<1> DEFINE ks == {x.key : x \in todo[w]}
<1>1. PICK k \in ks : \A l \in ks : k <= l
  <2>1. ks \in SUBSET Nat /\ ks # {}
    BY Fields
  <2> HIDE DEF ks
  <2> QED BY <2>1, NatMin
<1> DEFINE ts == {x.time : x \in {y \in todo[w] : y.key = k}}
<1>2. PICK t \in ts : \A u \in ts : t <= u
  <2>1. ts \in SUBSET Nat /\ ts # {}
    BY <1>1, Fields
  <2> HIDE DEF ts
  <2> QED BY <2>1, NatMin
<1>3. PICK x \in todo[w] : x.key = k /\ x.time = t
  BY <1>2
<1>4. ASSUME NEW y \in todo[w]
      PROVE  x.key < y.key \/ (x.key = y.key /\ x.time <= y.time)
  <2>1. x.key <= y.key /\ (y.key = x.key => x.time <= y.time)
    BY <1>1, <1>2, <1>3
  <2> QED BY <2>1, Fields
<1> QED BY <1>3, <1>4 DEF NextRow

-----------------------------------------------------------------------------
(* The inductive invariant.                                                *)

(* What a writer at a label can rely on, given the rows committed.         *)
Claim(at, said, b, m, d, ks, R) ==
  /\ at \in {"idle", "insert", "check", "commit", "latest", "put"}
  /\ m \subseteq b /\ d \subseteq b
  /\ at \notin {"insert", "check", "commit"} => m = {}
  /\ at # "idle" => b \in Batches /\ ks = {x.key : x \in b}
  /\ at = "insert" => d # {} /\ \A y \in m, x \in d : Ordered(y, x)
  /\ at \in {"insert", "check"} =>
       \A x \in b \ d : \E y \in R \cup m : SameRow(x, y)
  /\ at \in {"check", "commit"} => d = {}
  /\ at = "commit" => b \subseteq R \cup m
  /\ at \in {"latest", "put"} => b \subseteq R
  /\ at = "idle" /\ said = "STORED" => b \subseteq R
  /\ at = "idle" /\ said = "CONFLICT" => ~Consistent(R \cup b)
  /\ \A x \in m, y \in R \cup m : SameRow(x, y) => x = y

(* What a reader at a label can rely on.                                   *)
Holding(at, said, pin, res, ks, R) ==
  /\ at \in {"idle", "cache", "payloads", "latest", "put"}
  /\ \A k \in Keys : pin[k] # NoSnap => pin[k] \in R /\ pin[k].key = k
  /\ at = "cache" => res = NoView
  /\ at \in {"payloads", "latest", "put"} => \A k \in ks : pin[k] # NoSnap
  /\ at = "payloads" => \A k \in Keys \ ks : res[k] = pin[k]
  /\ at \in {"latest", "put"} => res = pin
  /\ at = "idle" /\ said = "RESOLVED" => res = pin

WritersOK ==
  \A w \in Writers : Claim(pc[w], reply[w], batch[w], mine[w], todo[w], wanted[w], rows)

ReadersOK ==
  \A r \in Readers : Holding(pc[r], reply[r], pins[r], result[r], wanted[r], rows)

(* No two transactions hold the same unique key.                           *)
Exclusive ==
  \A v, w \in Writers : v # w => \A x \in mine[v], y \in mine[w] : ~SameRow(x, y)

CacheOK ==
  /\ \A k \in Keys : cache[k] # NoSnap => cache[k] \in rows /\ cache[k].key = k
  /\ \A p \in Processes : fill[p] \subseteq rows

RowsOK == IsFiniteSet(rows) /\ Consistent(rows)

IInv == TypeOK /\ RowsOK /\ WritersOK /\ Exclusive /\ ReadersOK /\ CacheOK

-----------------------------------------------------------------------------
(* The initial state.                                                      *)

LEMMA NoViewType == NoView \in View /\ \A k \in Keys : NoView[k] = NoSnap
BY DEF NoView, View

LEMMA InitInv == Init => IInv
<1> SUFFICES ASSUME Init PROVE IInv
  OBVIOUS
<1>1. TypeOK
  BY ProcessesAssumption, NoViewType DEF Init, TypeOK, Processes
<1>2. RowsOK
  BY FS_EmptySet DEF Init, RowsOK, Consistent
<1>3. WritersOK /\ Exclusive
  BY DEF Init, WritersOK, Exclusive, Claim, Processes
<1>4. ReadersOK /\ CacheOK
  BY NoViewType DEF Init, ReadersOK, CacheOK, Holding, Processes
<1> QED BY <1>1, <1>2, <1>3, <1>4 DEF IInv

-----------------------------------------------------------------------------
(* Frames: who is left alone keeps what it relies on, while the table      *)
(* grows by rows that meet nothing it holds.                               *)

LEMMA ClaimGrows ==
  ASSUME NEW at, NEW said, NEW b, NEW m, NEW d, NEW ks, NEW R, NEW Q,
         Claim(at, said, b, m, d, ks, R), R \subseteq Q,
         \A x \in m, y \in Q \ R : ~SameRow(x, y)
  PROVE  Claim(at, said, b, m, d, ks, Q)
<1>1. ~Consistent(R \cup b) => ~Consistent(Q \cup b)
  BY DEF Consistent
<1> QED BY <1>1 DEF Claim

LEMMA HoldingGrows ==
  ASSUME NEW at, NEW said, NEW pin, NEW res, NEW ks, NEW R, NEW Q,
         Holding(at, said, pin, res, ks, R), R \subseteq Q
  PROVE  Holding(at, said, pin, res, ks, Q)
BY DEF Holding

(* The other processes are at the label they were at.                      *)
Only(p) ==
  \A q \in Processes \ {p} :
    pc'[q] = pc[q] /\ reply'[q] = reply[q] /\ wanted'[q] = wanted[q]

LEMMA WritersKept ==
  ASSUME WritersOK, NEW p \in Processes, Only(p), rows \subseteq rows',
         \A v \in Writers \ {p} :
           /\ batch'[v] = batch[v] /\ mine'[v] = mine[v] /\ todo'[v] = todo[v]
           /\ \A x \in mine[v], y \in rows' \ rows : ~SameRow(x, y),
         p \in Writers =>
           Claim(pc'[p], reply'[p], batch'[p], mine'[p], todo'[p], wanted'[p], rows')
  PROVE  WritersOK'
<1> SUFFICES ASSUME NEW v \in Writers \ {p}
             PROVE  Claim(pc'[v], reply'[v], batch'[v], mine'[v], todo'[v], wanted'[v], rows')
  BY DEF WritersOK
<1>1. Claim(pc[v], reply[v], batch[v], mine[v], todo[v], wanted[v], rows')
  BY ClaimGrows DEF WritersOK
<1> QED BY <1>1 DEF Only, Processes

LEMMA ReadersKept ==
  ASSUME ReadersOK, NEW p \in Processes, Only(p), rows \subseteq rows',
         \A r \in Readers \ {p} : pins'[r] = pins[r] /\ result'[r] = result[r],
         p \in Readers =>
           Holding(pc'[p], reply'[p], pins'[p], result'[p], wanted'[p], rows')
  PROVE  ReadersOK'
<1> SUFFICES ASSUME NEW r \in Readers \ {p}
             PROVE  Holding(pc'[r], reply'[r], pins'[r], result'[r], wanted'[r], rows')
  BY DEF ReadersOK
<1>1. Holding(pc[r], reply[r], pins[r], result[r], wanted[r], rows')
  BY HoldingGrows DEF ReadersOK
<1> QED BY <1>1 DEF Only, Processes

-----------------------------------------------------------------------------
(* The writers' steps.                                                     *)

LEMMA SubmitInv ==
  ASSUME IInv, NEW w \in Writers, NEW b \in Batches, Submit(w, b)
  PROVE  IInv'
<1>1. w \in Processes /\ b \in SUBSET Snapshot /\ b # {} /\ pc[w] = "idle"
  BY BatchesAssumption DEF Processes, Submit
<1>2. TypeOK'
  <2>1. {x.key : x \in b} \in SUBSET Keys
    BY <1>1, Fields
  <2>2. budget' \in [ingests : Nat, resolves : Nat, faults : Nat]
    BY DEF Submit, IInv, TypeOK
  <2> QED BY <1>1, <2>1, <2>2 DEF Submit, Goto, IInv, TypeOK
<1>3. Only(w)
  BY DEF Only, Submit, Goto, IInv, TypeOK
<1>4. Claim(pc'[w], reply'[w], batch'[w], mine'[w], todo'[w], wanted'[w], rows')
  <2>1. Claim(pc[w], reply[w], batch[w], mine[w], todo[w], wanted[w], rows)
    BY DEF IInv, WritersOK
  <2>2. mine[w] = {}
    BY <1>1, <2>1 DEF Claim
  <2>3. /\ pc'[w] = "insert" /\ batch'[w] = b /\ mine'[w] = {} /\ todo'[w] = b
        /\ wanted'[w] = {x.key : x \in b}
    BY <1>1, <2>2 DEF Submit, Goto, IInv, TypeOK
  <2> QED BY <1>1, <2>3 DEF Claim
<1>5. WritersOK'
  <2>1. \A v \in Writers \ {w} : batch'[v] = batch[v] /\ mine'[v] = mine[v] /\ todo'[v] = todo[v]
    BY DEF Submit, IInv, TypeOK
  <2>2. rows' = rows
    BY DEF Submit
  <2> QED BY <1>1, <1>3, <1>4, <2>1, <2>2, WritersKept DEF IInv
<1>6. ReadersOK'
  <2>1. w \notin Readers /\ rows' = rows /\ pins' = pins /\ result' = result
    BY ProcessesAssumption DEF Submit
  <2> QED BY <1>1, <1>3, <2>1, ReadersKept DEF IInv
<1>7. RowsOK' /\ Exclusive' /\ CacheOK'
  BY DEF Submit, IInv, RowsOK, Exclusive, CacheOK
<1> QED BY <1>2, <1>5, <1>6, <1>7 DEF IInv

LEMMA InsertInv ==
  ASSUME IInv, NEW w \in Writers, Insert(w)
  PROVE  IInv'
<1>1. PICK x \in todo[w] :
        /\ NextRow(w, x)
        /\ \A v \in Writers \ {w} : ~Held(v, x)
        /\ mine' = IF \E y \in rows \cup mine[w] : SameRow(x, y) THEN mine
                   ELSE [mine EXCEPT ![w] = @ \cup {x}]
        /\ todo' = [todo EXCEPT ![w] = @ \ {x}]
  BY DEF Insert
<1>2. /\ w \in Processes /\ pc[w] = "insert"
      /\ mine[w] \subseteq Snapshot /\ todo[w] \subseteq Snapshot
      /\ Claim(pc[w], reply[w], batch[w], mine[w], todo[w], wanted[w], rows)
  BY DEF Insert, Processes, IInv, WritersOK, TypeOK
<1>3. /\ todo'[w] = todo[w] \ {x}
      /\ mine'[w] \in {mine[w], mine[w] \cup {x}}
      /\ mine'[w] = mine[w] \/ ~(\E y \in rows \cup mine[w] : SameRow(x, y))
      /\ \E y \in rows \cup mine'[w] : SameRow(x, y)
      /\ \A v \in Writers \ {w} : mine'[v] = mine[v] /\ todo'[v] = todo[v]
  BY <1>1 DEF IInv, TypeOK, SameRow
<1>4. /\ rows' = rows /\ batch' = batch /\ wanted' = wanted /\ reply' = reply
      /\ pc'[w] = IF todo'[w] = {} THEN "check" ELSE "insert"
      /\ \A q \in Processes \ {w} : pc'[q] = pc[q]
  BY <1>2 DEF Insert, Goto, IInv, TypeOK
<1>5. TypeOK'
  <2>1. mine' \in [Writers -> SUBSET Snapshot] /\ todo' \in [Writers -> SUBSET Snapshot]
    BY <1>1, <1>2 DEF IInv, TypeOK
  <2>2. pc' \in [Processes -> {"idle", "insert", "check", "commit", "cache",
                               "payloads", "latest", "put"}]
    BY DEF Insert, Goto, IInv, TypeOK
  <2> QED BY <2>1, <2>2 DEF Insert, IInv, TypeOK
<1>6. Claim(pc'[w], reply'[w], batch'[w], mine'[w], todo'[w], wanted'[w], rows')
  <2>1. mine'[w] \subseteq batch[w] /\ todo'[w] \subseteq batch[w]
    BY <1>2, <1>3 DEF Claim
  <2>2. \A z \in batch[w] \ todo'[w] : \E y \in rows \cup mine'[w] : SameRow(z, y)
    <3>1. \A z \in batch[w] \ todo[w] : \E y \in rows \cup mine[w] : SameRow(z, y)
      BY <1>2 DEF Claim
    <3> QED BY <1>3, <3>1
  <2>3. \A y \in mine'[w], z \in todo'[w] : Ordered(y, z)
    <3>1. \A y \in mine[w], z \in todo[w] : Ordered(y, z)
      BY <1>2 DEF Claim
    <3>2. \A z \in todo[w] : Ordered(x, z)
      BY <1>1 DEF NextRow, Ordered
    <3> QED BY <1>3, <3>1, <3>2
  <2>4. \A z \in mine'[w], y \in rows \cup mine'[w] : SameRow(z, y) => z = y
    <3>1. \A z \in mine[w], y \in rows \cup mine[w] : SameRow(z, y) => z = y
      BY <1>2 DEF Claim
    <3> QED BY <1>3, <3>1 DEF SameRow
  <2>5. batch[w] \in Batches /\ wanted[w] = {z.key : z \in batch[w]}
    BY <1>2 DEF Claim
  <2> QED BY <1>2, <1>4, <2>1, <2>2, <2>3, <2>4, <2>5 DEF Claim
<1>7. Only(w)
  BY <1>4 DEF Only
<1>8. WritersOK'
  BY <1>2, <1>3, <1>4, <1>6, <1>7, WritersKept DEF IInv
<1>9. ReadersOK'
  <2>1. w \notin Readers /\ pins' = pins /\ result' = result
    BY ProcessesAssumption DEF Insert
  <2> QED BY <1>2, <1>4, <1>7, <2>1, ReadersKept DEF IInv
<1>10. Exclusive'
  <2>1. \A v \in Writers \ {w} : \A y \in mine[v], z \in mine'[w] : ~SameRow(y, z) /\ ~SameRow(z, y)
    BY <1>1, <1>3 DEF IInv, Exclusive, Held, SameRow
  <2> QED BY <1>3, <2>1 DEF IInv, Exclusive
<1>11. RowsOK' /\ CacheOK'
  BY DEF Insert, IInv, RowsOK, CacheOK
<1> QED BY <1>5, <1>8, <1>9, <1>10, <1>11 DEF IInv

(* The end of a transaction without a commit, whatever is answered.        *)
LEMMA RollbackInv ==
  ASSUME IInv, NEW w \in Writers, pc[w] # "idle", Rollback(w),
         NEW answer \in {"CONFLICT", "UNAVAILABLE"}, Reply(w, answer),
         answer = "CONFLICT" => ~Consistent(rows \cup batch[w]),
         budget' \in [ingests : Nat, resolves : Nat, faults : Nat],
         UNCHANGED <<batch, pins, result, wanted, fill, cache>>
  PROVE  IInv'
<1>1. w \in Processes /\ rows' = rows
  BY DEF Processes, Rollback
<1>2. TypeOK'
  BY DEF Rollback, Reply, Goto, IInv, TypeOK
<1>3. Only(w)
  BY DEF Only, Reply, Goto, IInv, TypeOK
<1>4. pc'[w] = "idle" /\ reply'[w] = answer /\ mine'[w] = {} /\ todo'[w] = {}
  BY <1>1 DEF Rollback, Reply, Goto, IInv, TypeOK
<1>5. \A v \in Writers \ {w} : mine'[v] = mine[v] /\ todo'[v] = todo[v]
  BY DEF Rollback, IInv, TypeOK
<1>6. Claim(pc'[w], reply'[w], batch'[w], mine'[w], todo'[w], wanted'[w], rows')
  BY <1>1, <1>4 DEF Claim
<1>7. WritersOK'
  BY <1>1, <1>3, <1>5, <1>6, WritersKept DEF IInv
<1>8. ReadersOK'
  <2>1. w \notin Readers
    BY ProcessesAssumption
  <2> QED BY <1>1, <1>3, <2>1, ReadersKept DEF IInv
<1>9. Exclusive'
  BY <1>4, <1>5 DEF IInv, Exclusive
<1>10. RowsOK' /\ CacheOK'
  BY <1>1 DEF IInv, RowsOK, CacheOK
<1> QED BY <1>2, <1>7, <1>8, <1>9, <1>10 DEF IInv

LEMMA CheckInv ==
  ASSUME IInv, NEW w \in Writers, Check(w)
  PROVE  IInv'
<1>1. /\ w \in Processes /\ pc[w] = "check" /\ w \notin Readers
      /\ Claim(pc[w], reply[w], batch[w], mine[w], todo[w], wanted[w], rows)
  BY ProcessesAssumption DEF Check, Processes, IInv, WritersOK
<1>2. CASE batch[w] \subseteq rows \cup mine[w]
  <2>1. Goto(w, "commit") /\ UNCHANGED <<rows, mine, todo, reply>>
    BY <1>2 DEF Check
  <2>2. TypeOK'
    BY <2>1 DEF Check, Goto, IInv, TypeOK
  <2>3. Only(w) /\ pc'[w] = "commit"
    BY <1>1, <2>1 DEF Only, Check, Goto, IInv, TypeOK
  <2>4. UNCHANGED <<rows, mine, todo, reply, batch, pins, result, wanted, fill, cache>>
    BY <2>1 DEF Check
  <2>5. Claim(pc'[w], reply'[w], batch'[w], mine'[w], todo'[w], wanted'[w], rows')
    BY <1>1, <1>2, <2>3, <2>4 DEF Claim
  <2>6. WritersOK'
    BY <1>1, <2>3, <2>4, <2>5, WritersKept DEF IInv
  <2>7. ReadersOK'
    BY <1>1, <2>3, <2>4, ReadersKept DEF IInv
  <2>8. RowsOK' /\ Exclusive' /\ CacheOK'
    BY <2>4 DEF IInv, RowsOK, Exclusive, CacheOK
  <2> QED BY <2>2, <2>6, <2>7, <2>8 DEF IInv
<1>3. CASE ~(batch[w] \subseteq rows \cup mine[w])
  <2>1. PICK x \in batch[w] : x \notin rows \cup mine[w]
    BY <1>3
  <2>2. PICK y \in rows \cup mine[w] : SameRow(x, y)
    BY <1>1, <2>1 DEF Claim
  <2>3. y \in rows \cup batch[w] /\ x # y
    BY <1>1, <2>1 DEF Claim
  <2>4. ~Consistent(rows \cup batch[w])
    BY <2>2, <2>3 DEF Consistent
  <2>5. Rollback(w) /\ Reply(w, "CONFLICT")
    BY <1>3 DEF Check
  <2>6. budget' \in [ingests : Nat, resolves : Nat, faults : Nat]
    BY DEF Check, IInv, TypeOK
  <2> QED BY <1>1, <2>4, <2>5, <2>6, RollbackInv DEF Check
<1> QED BY <1>2, <1>3

(* The rows of a transaction meet no other's and agree with the table.     *)
LEMMA CommittedRows ==
  ASSUME IInv, NEW w \in Writers, pc[w] = "commit"
  PROVE  /\ rows \cup mine[w] = rows \cup batch[w]
         /\ batch[w] \in Batches
         /\ IsFiniteSet(rows \cup mine[w])
         /\ Consistent(rows \cup mine[w])
<1>1. Claim(pc[w], reply[w], batch[w], mine[w], todo[w], wanted[w], rows)
  BY DEF IInv, WritersOK
<1>2. batch[w] \in Batches /\ mine[w] \subseteq batch[w] /\ batch[w] \subseteq rows \cup mine[w]
  BY <1>1 DEF Claim
<1>3. IsFiniteSet(rows \cup mine[w])
  <2>1. IsFiniteSet(rows) /\ IsFiniteSet(batch[w])
    BY <1>2, BatchesAssumption DEF IInv, RowsOK
  <2>2. IsFiniteSet(mine[w])
    BY <1>2, <2>1, FS_Subset
  <2> QED BY <2>1, <2>2, FS_Union
<1>4. Consistent(rows \cup mine[w])
  <2>1. \A x \in mine[w], y \in rows \cup mine[w] : SameRow(x, y) => x = y
    BY <1>1 DEF Claim
  <2>2. \A x, y \in rows : SameRow(x, y) => x = y
    BY DEF IInv, RowsOK, Consistent
  <2> QED BY <2>1, <2>2 DEF Consistent, SameRow
<1> QED BY <1>2, <1>3, <1>4

(* A commit, whether its answer arrives or not.                            *)
LEMMA CommitInv ==
  ASSUME IInv, NEW w \in Writers, pc[w] = "commit",
         rows' = rows \cup mine[w], mine' = [mine EXCEPT ![w] = {}],
         (Goto(w, "latest") /\ UNCHANGED reply) \/ Reply(w, "UNAVAILABLE"),
         budget' \in [ingests : Nat, resolves : Nat, faults : Nat],
         UNCHANGED <<batch, todo, pins, result, wanted, fill, cache>>
  PROVE  IInv'
<1>1. /\ w \in Processes /\ w \notin Readers
      /\ Claim(pc[w], reply[w], batch[w], mine[w], todo[w], wanted[w], rows)
  BY ProcessesAssumption DEF Processes, IInv, WritersOK
<1>2. TypeOK'
  <2>1. rows' \subseteq Snapshot /\ mine' \in [Writers -> SUBSET Snapshot]
    BY DEF IInv, TypeOK
  <2>2. /\ pc' \in [Processes -> {"idle", "insert", "check", "commit", "cache",
                                  "payloads", "latest", "put"}]
        /\ reply' \in [Processes -> {"NONE", "CONFLICT", "UNAVAILABLE", "STORED", "RESOLVED"}]
    BY DEF Goto, Reply, IInv, TypeOK
  <2> QED BY <2>1, <2>2 DEF IInv, TypeOK
<1>3. Only(w)
  BY DEF Only, Reply, Goto, IInv, TypeOK
<1>4. /\ mine'[w] = {} /\ \A v \in Writers \ {w} : mine'[v] = mine[v]
      /\ pc'[w] = "latest" \/ (pc'[w] = "idle" /\ reply'[w] = "UNAVAILABLE")
  BY <1>1 DEF Reply, Goto, IInv, TypeOK
<1>5. WritersOK'
  <2>1. Claim(pc'[w], reply'[w], batch'[w], mine'[w], todo'[w], wanted'[w], rows')
    BY <1>1, <1>4 DEF Claim
  <2>2. \A v \in Writers \ {w} : \A x \in mine[v], y \in rows' \ rows : ~SameRow(x, y)
    BY DEF IInv, Exclusive
  <2> QED BY <1>1, <1>3, <1>4, <2>1, <2>2, WritersKept DEF IInv
<1>6. ReadersOK'
  BY <1>1, <1>3, ReadersKept DEF IInv
<1>7. Exclusive'
  BY <1>4 DEF IInv, Exclusive
<1>8. RowsOK'
  BY CommittedRows DEF RowsOK
<1>9. CacheOK'
  BY DEF IInv, CacheOK
<1> QED BY <1>2, <1>5, <1>6, <1>7, <1>8, <1>9 DEF IInv

LEMMA FaultBudget ==
  ASSUME TypeOK, Fault
  PROVE  budget' \in [ingests : Nat, resolves : Nat, faults : Nat]
BY DEF TypeOK, Fault

LEMMA DatabaseFailsInv ==
  ASSUME IInv, NEW w \in Writers, DatabaseFails(w)
  PROVE  IInv'
<1>1. /\ pc[w] \in {"insert", "check", "commit"}
      /\ Reply(w, "UNAVAILABLE")
      /\ UNCHANGED <<batch, pins, result, wanted, fill, cache>>
      /\ budget' \in [ingests : Nat, resolves : Nat, faults : Nat]
  BY FaultBudget DEF DatabaseFails, IInv
<1>2. CASE Rollback(w)
  BY <1>1, <1>2, RollbackInv
<1>3. CASE /\ pc[w] = "commit"
           /\ rows' = rows \cup mine[w]
           /\ mine' = [mine EXCEPT ![w] = {}]
           /\ UNCHANGED todo
  BY <1>1, <1>3, CommitInv
<1> QED BY <1>2, <1>3 DEF DatabaseFails

-----------------------------------------------------------------------------
(* The readers' steps.                                                     *)

(* A step of a reader that leaves the store, the writers and the cache     *)
(* alone.                                                                  *)
LEMMA ReaderStep ==
  ASSUME IInv, NEW r \in Readers, TypeOK', Only(r),
         UNCHANGED <<rows, mine, batch, todo, fill, cache>>,
         \A q \in Readers \ {r} : pins'[q] = pins[q] /\ result'[q] = result[q],
         Holding(pc'[r], reply'[r], pins'[r], result'[r], wanted'[r], rows')
  PROVE  IInv'
<1>1. r \in Processes /\ r \notin Writers
  BY ProcessesAssumption DEF Processes
<1>2. WritersOK'
  BY <1>1, WritersKept DEF IInv
<1>3. ReadersOK'
  BY <1>1, ReadersKept DEF IInv
<1>4. RowsOK' /\ Exclusive' /\ CacheOK'
  BY DEF IInv, RowsOK, Exclusive, CacheOK
<1> QED BY <1>2, <1>3, <1>4 DEF IInv

LEMMA HeadsHeld ==
  ASSUME IInv, NEW t
  PROVE  /\ Heads(rows, t) \in View
         /\ \A k \in Keys : Heads(rows, t)[k] # NoSnap =>
              Heads(rows, t)[k] \in rows /\ Heads(rows, t)[k].key = k
<1>1. rows \in SUBSET Snapshot /\ IsFiniteSet(rows)
  BY DEF IInv, TypeOK, RowsOK
<1>2. \A k \in Keys : Heads(rows, t)[k] \in UpTo(rows, k, t) \cup {NoSnap}
  BY <1>1, HeadFound
<1>3. \A k \in Keys : Heads(rows, t)[k] \in Snapshot \cup {NoSnap}
  BY <1>1, <1>2 DEF UpTo
<1>4. Heads(rows, t) \in View
  BY <1>3 DEF Heads, View
<1> QED BY <1>2, <1>4 DEF UpTo

LEMMA PinInv ==
  ASSUME IInv, NEW r \in Readers, NEW t \in Times, Pin(r, t)
  PROVE  IInv'
<1>1. r \in Processes
  BY DEF Processes
<1>2. TypeOK'
  <2>1. budget' \in [ingests : Nat, resolves : Nat, faults : Nat]
    BY DEF Pin, IInv, TypeOK
  <2>2. pins' \in [Readers -> View] /\ result' \in [Readers -> View]
    BY HeadsHeld, NoViewType DEF Pin, IInv, TypeOK
  <2> QED BY <2>1, <2>2 DEF Pin, Goto, IInv, TypeOK
<1>3. Only(r)
  BY DEF Only, Pin, Goto, IInv, TypeOK
<1>4. pc'[r] = "cache" /\ pins'[r] = Heads(rows, t) /\ result'[r] = NoView
  BY <1>1 DEF Pin, Goto, IInv, TypeOK
<1>5. \A q \in Readers \ {r} : pins'[q] = pins[q] /\ result'[q] = result[q]
  BY DEF Pin, IInv, TypeOK
<1>6. Holding(pc'[r], reply'[r], pins'[r], result'[r], wanted'[r], rows')
  BY <1>4, HeadsHeld DEF Holding, Pin
<1> QED BY <1>2, <1>3, <1>5, <1>6, ReaderStep DEF Pin

LEMMA ReadCacheInv ==
  ASSUME IInv, NEW r \in Readers, ReadCache(r)
  PROVE  IInv'
<1>1. /\ r \in Processes /\ pc[r] = "cache" /\ pins[r] \in View
      /\ Holding(pc[r], reply[r], pins[r], result[r], wanted[r], rows)
  BY DEF ReadCache, Processes, IInv, TypeOK, ReadersOK
<1>2. /\ \A q \in Readers \ {r} : result'[q] = result[q]
      /\ result'[r] \in View
      /\ \A k \in Keys : result'[r][k] \in {NoSnap, pins[r][k]}
      /\ result' \in [Readers -> View]
      /\ budget' \in [ingests : Nat, resolves : Nat, faults : Nat]
  <2>1. CASE /\ result' = [result EXCEPT ![r] = [k \in Keys |-> IF Hit(r, k) THEN cache[k] ELSE NoSnap]]
             /\ UNCHANGED budget
    <3>1. \A k \in Keys : (IF Hit(r, k) THEN cache[k] ELSE NoSnap) \in {NoSnap, pins[r][k]}
      BY DEF Hit
    <3>2. [k \in Keys |-> IF Hit(r, k) THEN cache[k] ELSE NoSnap] \in View
      BY <1>1, <3>1 DEF View
    <3> QED BY <2>1, <3>1, <3>2 DEF IInv, TypeOK
  <2>2. CASE UNCHANGED result /\ Fault
    <3>1. result[r] = NoView
      BY <1>1 DEF Holding
    <3>2. budget' \in [ingests : Nat, resolves : Nat, faults : Nat]
      BY <2>2, FaultBudget DEF IInv
    <3> QED BY <2>2, <3>1, <3>2, NoViewType DEF IInv, TypeOK
  <2> QED BY <2>1, <2>2 DEF ReadCache
<1>3. /\ wanted'[r] = {k \in Keys : pins[r][k] # NoSnap /\ result'[r][k] = NoSnap}
      /\ wanted' \in [Processes -> SUBSET Keys]
      /\ \A q \in Processes \ {r} : wanted'[q] = wanted[q]
  BY <1>1 DEF ReadCache, IInv, TypeOK
<1>4. IF wanted'[r] = {} THEN Reply(r, "RESOLVED") ELSE Goto(r, "payloads") /\ UNCHANGED reply
  BY DEF ReadCache
<1>5. TypeOK'
  <2>1. /\ pc' \in [Processes -> {"idle", "insert", "check", "commit", "cache",
                                  "payloads", "latest", "put"}]
        /\ reply' \in [Processes -> {"NONE", "CONFLICT", "UNAVAILABLE", "STORED", "RESOLVED"}]
    BY <1>4 DEF Goto, Reply, IInv, TypeOK
  <2> QED BY <1>2, <1>3, <2>1 DEF ReadCache, IInv, TypeOK
<1>6. Only(r)
  BY <1>3, <1>4 DEF Only, Goto, Reply, IInv, TypeOK
<1>7. \A k \in Keys \ wanted'[r] : result'[r][k] = pins[r][k]
  BY <1>2, <1>3
<1>8. Holding(pc'[r], reply'[r], pins'[r], result'[r], wanted'[r], rows')
  <2>1. \A k \in Keys : pins[r][k] # NoSnap => pins[r][k] \in rows /\ pins[r][k].key = k
    BY <1>1 DEF Holding
  <2>2. pins' = pins /\ rows' = rows
    BY DEF ReadCache
  <2>3. CASE wanted'[r] = {}
    <3>1. result'[r] = pins[r]
      BY <1>1, <1>2, <1>7, <2>3 DEF View
    <3>2. pc'[r] = "idle"
      BY <1>1, <1>4, <2>3 DEF Goto, Reply, IInv, TypeOK
    <3> QED BY <2>1, <2>2, <3>1, <3>2 DEF Holding
  <2>4. CASE wanted'[r] # {}
    <3>1. pc'[r] = "payloads"
      BY <1>1, <1>4, <2>4 DEF Goto, IInv, TypeOK
    <3> QED BY <1>3, <1>7, <2>1, <2>2, <3>1 DEF Holding
  <2> QED BY <2>3, <2>4
<1> QED BY <1>2, <1>5, <1>6, <1>8, ReaderStep DEF ReadCache

LEMMA RefusedInv ==
  ASSUME IInv, NEW r \in Readers, pc[r] = "payloads", Reply(r, "UNAVAILABLE"),
         budget' \in [ingests : Nat, resolves : Nat, faults : Nat],
         UNCHANGED <<rows, mine, batch, todo, pins, result, wanted, fill, cache>>
  PROVE  IInv'
<1>1. r \in Processes /\ Holding(pc[r], reply[r], pins[r], result[r], wanted[r], rows)
  BY DEF Processes, IInv, ReadersOK
<1>2. TypeOK' /\ Only(r)
  BY DEF Reply, Goto, Only, IInv, TypeOK
<1>3. pc'[r] = "idle" /\ reply'[r] = "UNAVAILABLE"
  BY <1>1 DEF Reply, Goto, IInv, TypeOK
<1>4. Holding(pc'[r], reply'[r], pins'[r], result'[r], wanted'[r], rows')
  BY <1>1, <1>3 DEF Holding
<1> QED BY <1>2, <1>4, ReaderStep

LEMMA PayloadsInv ==
  ASSUME IInv, NEW r \in Readers, Payloads(r)
  PROVE  IInv'
<1>1. /\ r \in Processes /\ pc[r] = "payloads" /\ pins[r] \in View /\ result[r] \in View
      /\ wanted[r] \subseteq Keys
      /\ Holding(pc[r], reply[r], pins[r], result[r], wanted[r], rows)
  BY DEF Payloads, Processes, IInv, TypeOK, ReadersOK
<1>2. CASE {pins[r][k] : k \in wanted[r]} \subseteq rows
  <2>1. /\ result' = [result EXCEPT ![r] =
                        [k \in Keys |-> IF k \in wanted[r] THEN pins[r][k] ELSE @[k]]]
        /\ Goto(r, "latest") /\ UNCHANGED reply
    BY <1>2 DEF Payloads
  <2>2. result'[r] = pins[r] /\ \A q \in Readers \ {r} : result'[q] = result[q]
    <3>1. \A k \in Keys \ wanted[r] : result[r][k] = pins[r][k]
      BY <1>1 DEF Holding
    <3>2. [k \in Keys |-> IF k \in wanted[r] THEN pins[r][k] ELSE result[r][k]] = pins[r]
      BY <1>1, <3>1 DEF View
    <3> QED BY <2>1, <3>2 DEF IInv, TypeOK
  <2>3. TypeOK'
    <3>1. result' \in [Readers -> View]
      BY <1>1, <2>1, <2>2 DEF IInv, TypeOK
    <3>2. pc' \in [Processes -> {"idle", "insert", "check", "commit", "cache",
                                 "payloads", "latest", "put"}]
      BY <2>1 DEF Goto, IInv, TypeOK
    <3> QED BY <2>1, <3>1, <3>2 DEF Payloads, IInv, TypeOK
  <2>4. Only(r) /\ pc'[r] = "latest"
    BY <1>1, <2>1 DEF Only, Payloads, Goto, IInv, TypeOK
  <2>5. Holding(pc'[r], reply'[r], pins'[r], result'[r], wanted'[r], rows')
    BY <1>1, <2>2, <2>4 DEF Holding, Payloads
  <2> QED BY <2>2, <2>3, <2>4, <2>5, ReaderStep DEF Payloads
<1>3. CASE ~({pins[r][k] : k \in wanted[r]} \subseteq rows)
  <2>1. Reply(r, "UNAVAILABLE") /\ UNCHANGED result
    BY <1>3 DEF Payloads
  <2>2. budget' \in [ingests : Nat, resolves : Nat, faults : Nat]
    BY DEF Payloads, IInv, TypeOK
  <2> QED BY <1>1, <2>1, <2>2, RefusedInv DEF Payloads
<1> QED BY <1>2, <1>3

LEMMA ResolveFailsInv ==
  ASSUME IInv, NEW r \in Readers, ResolveFails(r)
  PROVE  IInv'
BY FaultBudget, RefusedInv DEF ResolveFails, IInv

-----------------------------------------------------------------------------
(* The refresh of the cache.                                               *)

(* A process that refreshes has the rows it refreshes for.                 *)
LEMMA LatestHeld ==
  ASSUME IInv, NEW p \in Processes, pc[p] = "latest", NEW k \in wanted[p]
  PROVE  /\ Latest(k) \in rows /\ Latest(k).key = k
         /\ \A y \in rows : y.key = k => y.time <= Latest(k).time
<1> DEFINE S == {x \in rows : x.key = k}
<1>1. S # {}
  <2>1. CASE p \in Writers
    <3>1. batch[p] \subseteq rows /\ wanted[p] = {x.key : x \in batch[p]}
      BY <2>1 DEF IInv, WritersOK, Claim
    <3> QED BY <3>1
  <2>2. CASE p \in Readers
    <3>1. k \in Keys
      BY DEF IInv, TypeOK
    <3>2. pins[p][k] \in rows /\ pins[p][k].key = k
      BY <2>2, <3>1 DEF IInv, ReadersOK, Holding
    <3> QED BY <3>2
  <2> QED BY <2>1, <2>2 DEF Processes
<1>2. S \in SUBSET Snapshot /\ IsFiniteSet(S)
  BY FS_Subset DEF IInv, TypeOK, RowsOK
<1>3. Newest(S) \in S /\ \A y \in S : y.time <= Newest(S).time
  <2> HIDE DEF S
  <2> QED BY <1>1, <1>2, NewestFound
<1> QED BY <1>3 DEF Latest

(* A step of a refresh answers at its end, and never less than it had.     *)
LEMMA RefreshStep ==
  ASSUME IInv, NEW p \in Processes, pc[p] \in {"latest", "put"}, TypeOK', Only(p), CacheOK',
         \/ pc'[p] = "put"
         \/ /\ pc'[p] = "idle"
            /\ reply'[p] = IF p \in Writers THEN "STORED" ELSE "RESOLVED",
         UNCHANGED <<rows, mine, batch, todo, pins, result, wanted>>
  PROVE  IInv'
<1>1. WritersOK'
  <2>1. ASSUME p \in Writers
        PROVE  Claim(pc'[p], reply'[p], batch'[p], mine'[p], todo'[p], wanted'[p], rows')
    <3>1. Claim(pc[p], reply[p], batch[p], mine[p], todo[p], wanted[p], rows)
      BY <2>1 DEF IInv, WritersOK
    <3> QED BY <2>1, <3>1 DEF Claim
  <2> QED BY <2>1, WritersKept DEF IInv
<1>2. ReadersOK'
  <2>1. ASSUME p \in Readers
        PROVE  Holding(pc'[p], reply'[p], pins'[p], result'[p], wanted'[p], rows')
    <3>1. Holding(pc[p], reply[p], pins[p], result[p], wanted[p], rows) /\ p \notin Writers
      BY <2>1, ProcessesAssumption DEF IInv, ReadersOK
    <3> QED BY <3>1 DEF Holding
  <2> QED BY <2>1, ReadersKept DEF IInv
<1>3. RowsOK' /\ Exclusive'
  BY DEF IInv, RowsOK, Exclusive
<1> QED BY <1>1, <1>2, <1>3 DEF IInv

LEMMA ReadLatestInv ==
  ASSUME IInv, NEW p \in Processes, ReadLatest(p)
  PROVE  IInv'
<1>1. {Latest(k) : k \in wanted[p]} \subseteq rows
  BY LatestHeld DEF ReadLatest
<1>2. TypeOK'
  <2>1. fill' \in [Processes -> SUBSET Snapshot]
    BY <1>1 DEF ReadLatest, IInv, TypeOK
  <2> QED BY <2>1 DEF ReadLatest, Goto, IInv, TypeOK
<1>3. Only(p) /\ pc'[p] = "put"
  BY DEF Only, ReadLatest, Goto, IInv, TypeOK
<1>4. CacheOK'
  <2>1. \A q \in Processes : fill'[q] = IF q = p THEN {Latest(k) : k \in wanted[p]} ELSE fill[q]
    BY DEF ReadLatest, IInv, TypeOK
  <2> QED BY <1>1, <2>1 DEF ReadLatest, IInv, CacheOK
<1> QED BY <1>2, <1>3, <1>4, RefreshStep DEF ReadLatest

LEMMA PutInv ==
  ASSUME IInv, NEW p \in Processes, NEW x \in fill[p], Put(p, x)
  PROVE  IInv'
<1>1. x \in rows /\ x \in Snapshot /\ x.key \in Keys /\ x # NoSnap
  BY Fields DEF IInv, CacheOK, TypeOK
<1>2. /\ pc[p] = "put"
      /\ \/ Done(p)
         \/ UNCHANGED <<pc, reply>>
      /\ UNCHANGED <<rows, mine, batch, todo, pins, result, wanted, budget>>
  BY DEF Put
<1>3. cache' = cache \/ cache' = [cache EXCEPT ![x.key] = x]
  BY DEF Put
<1>4. TypeOK'
  <2>1. cache' \in View /\ fill' \in [Processes -> SUBSET Snapshot]
    BY <1>1, <1>3 DEF Put, IInv, TypeOK, View
  <2>2. /\ pc' \in [Processes -> {"idle", "insert", "check", "commit", "cache",
                                  "payloads", "latest", "put"}]
        /\ reply' \in [Processes -> {"NONE", "CONFLICT", "UNAVAILABLE", "STORED", "RESOLVED"}]
    BY <1>2 DEF Done, Reply, Goto, IInv, TypeOK
  <2> QED BY <1>2, <2>1, <2>2 DEF IInv, TypeOK
<1>5. /\ Only(p)
      /\ \/ pc'[p] = "put"
         \/ /\ pc'[p] = "idle"
            /\ reply'[p] = IF p \in Writers THEN "STORED" ELSE "RESOLVED"
  BY <1>2 DEF Only, Done, Reply, Goto, IInv, TypeOK
<1>6. CacheOK'
  <2>1. \A q \in Processes : fill'[q] \subseteq fill[q]
    BY DEF Put, IInv, TypeOK
  <2>2. \A k \in Keys : cache'[k] = cache[k] \/ (k = x.key /\ cache'[k] = x)
    BY <1>1, <1>3 DEF IInv, TypeOK, View
  <2> QED BY <1>1, <1>2, <2>1, <2>2 DEF IInv, CacheOK
<1> QED BY <1>2, <1>4, <1>5, <1>6, RefreshStep

LEMMA CacheFailsInv ==
  ASSUME IInv, NEW p \in Processes, CacheFails(p)
  PROVE  IInv'
<1>1. /\ pc[p] \in {"latest", "put"} /\ Done(p)
      /\ fill' = [fill EXCEPT ![p] = {}]
      /\ budget' \in [ingests : Nat, resolves : Nat, faults : Nat]
      /\ UNCHANGED <<rows, mine, batch, todo, pins, result, wanted, cache>>
  BY FaultBudget DEF CacheFails, IInv
<1>2. TypeOK'
  BY <1>1 DEF Done, Reply, Goto, IInv, TypeOK
<1>3. Only(p) /\ pc'[p] = "idle" /\ reply'[p] = IF p \in Writers THEN "STORED" ELSE "RESOLVED"
  BY <1>1 DEF Only, Done, Reply, Goto, IInv, TypeOK
<1>4. CacheOK'
  <2>1. \A q \in Processes : fill'[q] \subseteq fill[q]
    BY <1>1 DEF IInv, TypeOK
  <2> QED BY <1>1, <2>1 DEF IInv, CacheOK
<1> QED BY <1>1, <1>2, <1>3, <1>4, RefreshStep

LEMMA ExpireInv ==
  ASSUME IInv, NEW k \in Keys, Expire(k)
  PROVE  IInv'
<1>1. \A l \in Keys : cache'[l] \in {cache[l], NoSnap}
  BY DEF Expire, IInv, TypeOK, View
<1>2. cache' \in View
  BY DEF Expire, IInv, TypeOK, View
<1>3. UNCHANGED <<rows, mine, batch, todo, pins, result, wanted, fill, pc, reply, budget>>
  BY DEF Expire
<1>4. TypeOK'
  BY <1>2, <1>3 DEF IInv, TypeOK
<1>5. RowsOK' /\ WritersOK' /\ Exclusive' /\ ReadersOK'
  BY <1>3 DEF IInv, RowsOK, WritersOK, Exclusive, ReadersOK
<1>6. CacheOK'
  BY <1>1, <1>3 DEF IInv, CacheOK
<1> QED BY <1>4, <1>5, <1>6 DEF IInv

LEMMA ServeInv ==
  ASSUME IInv, Serve
  PROVE  IInv'
<1>1. CASE \E w \in Writers : Insert(w)
  BY <1>1, InsertInv
<1>2. CASE \E w \in Writers : Check(w)
  BY <1>2, CheckInv
<1>3. ASSUME NEW w \in Writers, Commit(w) PROVE IInv'
  <2>1. budget' \in [ingests : Nat, resolves : Nat, faults : Nat]
    BY <1>3 DEF Commit, IInv, TypeOK
  <2> QED BY <1>3, <2>1, CommitInv DEF Commit
<1>4. CASE \E w \in Writers : DatabaseFails(w)
  BY <1>4, DatabaseFailsInv
<1>5. CASE \E r \in Readers : \/ \E t \in Times : Pin(r, t)
                              \/ ReadCache(r) \/ Payloads(r) \/ ResolveFails(r)
  BY <1>5, PinInv, ReadCacheInv, PayloadsInv, ResolveFailsInv
<1>6. CASE \E p \in Processes : \/ ReadLatest(p) \/ CacheFails(p)
                                \/ \E x \in fill[p] : Put(p, x)
  BY <1>6, ReadLatestInv, CacheFailsInv, PutInv
<1>7. CASE \E k \in Keys : Expire(k)
  BY <1>7, ExpireInv
<1> QED BY <1>1, <1>2, <1>3, <1>4, <1>5, <1>6, <1>7 DEF Serve

LEMMA StepInv == IInv /\ [Next]_vars => IInv'
<1> SUFFICES ASSUME IInv, [Next]_vars PROVE IInv'
  OBVIOUS
<1>1. CASE Next
  BY <1>1, SubmitInv, ServeInv DEF Next
<1>2. CASE UNCHANGED vars
  <2>1. TypeOK' /\ RowsOK' /\ Exclusive'
    BY <1>2 DEF vars, IInv, TypeOK, RowsOK, Exclusive
  <2>2. WritersOK' /\ ReadersOK' /\ CacheOK'
    BY <1>2 DEF vars, IInv, WritersOK, ReadersOK, CacheOK
  <2> QED BY <2>1, <2>2 DEF IInv
<1> QED BY <1>1, <1>2

LEMMA Invariance == Spec => []IInv
BY InitInv, StepInv, PTL DEF Spec

-----------------------------------------------------------------------------
(* The theorems.                                                           *)

(* Every variable stays in its type, whatever is submitted and fails.      *)
THEOREM TypeCorrect == Spec => []TypeOK
<1>1. IInv => TypeOK
  BY DEF IInv
<1> QED BY <1>1, Invariance, PTL

(* Writers never wait in a cycle (repository.py:44): the one whose next    *)
(* row is the last in the order waits for a transaction whose next row is  *)
(* the same, which nobody holds but that transaction itself.               *)
LEMMA NoCycle ==
  ASSUME IInv
  PROVE  NoLockCycle
<1> SUFFICES ASSUME NEW S \in SUBSET Writers, S # {},
                    \A w \in S : \E v \in S : WaitsFor(w, v)
             PROVE  FALSE
  BY DEF NoLockCycle
<1>1. ASSUME NEW w \in S
      PROVE  /\ todo[w] \in SUBSET Snapshot
             /\ mine[w] \in SUBSET Snapshot
             /\ \A y \in mine[w], x \in todo[w] : Ordered(y, x)
             /\ \E x \in todo[w] : NextRow(w, x)
  <2>1. pc[w] = "insert"
    BY DEF WaitsFor
  <2>2. Claim(pc[w], reply[w], batch[w], mine[w], todo[w], wanted[w], rows)
    BY DEF IInv, WritersOK
  <2>3. todo[w] \in SUBSET Snapshot /\ mine[w] \in SUBSET Snapshot /\ todo[w] # {}
    BY <2>1, <2>2 DEF IInv, TypeOK, Claim
  <2>4. \E x \in todo[w] : NextRow(w, x)
    BY <2>3, NextRowExists
  <2> QED BY <2>1, <2>2, <2>3, <2>4 DEF Claim
<1> DEFINE next == [w \in S |-> CHOOSE x \in todo[w] : NextRow(w, x)]
<1>2. \A w \in S : next[w] \in todo[w] /\ NextRow(w, next[w]) /\ next[w] \in Snapshot
  BY <1>1
<1> HIDE DEF next
<1>3. IsFiniteSet(S)
  BY FS_Subset, ProcessesAssumption
<1>4. PICK m \in S : \A w \in S : next[w].key <= next[m].key
  <2> DEFINE key == [w \in S |-> next[w].key]
  <2>1. \A w \in S : key[w] \in Nat
    BY <1>2, Fields
  <2>2. PICK m \in S : \A w \in S : key[w] <= key[m]
    <3> HIDE DEF key
    <3> QED BY <1>3, <2>1, Largest
  <2> QED BY <2>2
<1> DEFINE L == {w \in S : next[w].key = next[m].key}
<1>5. PICK w \in L : \A v \in L : next[v].time <= next[w].time
  <2> DEFINE time == [v \in L |-> next[v].time]
  <2>1. \A v \in L : time[v] \in Nat
    BY <1>2, Fields
  <2>2. IsFiniteSet(L) /\ L # {}
    BY <1>3, <1>4, FS_Subset
  <2>3. PICK w \in L : \A v \in L : time[v] <= time[w]
    <3> HIDE DEF time, L
    <3> QED BY <2>1, <2>2, Largest
  <2> QED BY <2>3
<1>6. PICK v \in S : WaitsFor(w, v)
  BY <1>5
<1>7. PICK y \in mine[v] : SameRow(next[w], y)
  BY <1>2, <1>5, <1>6 DEF WaitsFor, Held
<1>8. SameRow(next[v], y)
  <2>1. Ordered(y, next[v])
    BY <1>1, <1>2
  <2>2. /\ y.key \in Nat /\ y.time \in Nat /\ next[v].key \in Nat /\ next[v].time \in Nat
        /\ next[m].key \in Nat /\ next[w].time \in Nat
    BY <1>1, <1>2, <1>5, Fields
  <2>3. y.key = next[m].key /\ y.time = next[w].time
    BY <1>5, <1>7 DEF SameRow
  <2>4. next[v].key = next[m].key
    BY <1>4, <2>1, <2>2, <2>3 DEF Ordered
  <2>5. next[v].time <= next[w].time
    BY <1>5, <2>4
  <2>6. y.time <= next[v].time
    BY <2>1, <2>2, <2>3, <2>4 DEF Ordered
  <2> QED BY <2>2, <2>3, <2>4, <2>5, <2>6 DEF SameRow
<1>9. PICK u \in S : WaitsFor(v, u)
  OBVIOUS
<1>10. PICK z \in mine[u] : SameRow(next[v], z)
  BY <1>2, <1>9 DEF WaitsFor, Held
<1>11. SameRow(y, z) /\ v # u
  BY <1>8, <1>9, <1>10 DEF SameRow, WaitsFor
<1> QED BY <1>11 DEF IInv, Exclusive

THEOREM NeverDeadlocked == Spec => []NoLockCycle
BY NoCycle, Invariance, PTL

(* STORED and CONFLICT are true for ever.                                  *)
THEOREM AnswersStayTrue == Spec => []AnswersTrue
<1>1. IInv => AnswersTrue
  BY DEF IInv, WritersOK, Claim, AnswersTrue
<1> QED BY <1>1, Invariance, PTL

(* A reader gets the versions it pinned, from wherever they come.          *)
THEOREM ViewsArePinned == Spec => []ViewIsPinned
<1>1. IInv => ViewIsPinned
  BY DEF IInv, ReadersOK, Holding, ViewIsPinned
<1> QED BY <1>1, Invariance, PTL

(* Only committed rows get into the cache, and only newer ones into the    *)
(* place of others (DECISIONS.md:54).                                      *)
LEMMA PutNewer ==
  ASSUME IInv, NEW p \in Processes, NEW x \in fill[p], Put(p, x), NEW k \in Keys,
         cache'[k] # cache[k]
  PROVE  cache'[k] \in rows /\ (cache[k] = NoSnap \/ cache[k].time < cache'[k].time)
<1>1. x \in rows /\ x \in Snapshot /\ x.key \in Keys
  BY Fields DEF IInv, CacheOK, TypeOK
<1>2. /\ k = x.key /\ cache'[k] = x
      /\ cache[k] = NoSnap \/ ~(cache[k].time > x.time)
  BY <1>1 DEF Put, IInv, TypeOK, View
<1>3. ASSUME cache[k] # NoSnap PROVE cache[k].time < x.time
  <2>1. cache[k] \in rows /\ cache[k].key = k /\ cache[k] \in Snapshot
    BY <1>3 DEF IInv, CacheOK, TypeOK
  <2>2. cache[k].time # x.time
    BY <1>1, <1>2, <2>1 DEF IInv, RowsOK, Consistent, SameRow
  <2> QED BY <1>1, <1>2, <1>3, <2>1, <2>2, Fields
<1> QED BY <1>1, <1>2, <1>3

LEMMA CacheStep ==
  ASSUME IInv, [Next]_vars, NEW k \in Keys, cache'[k] \notin {cache[k], NoSnap}
  PROVE  cache'[k] \in rows /\ (cache[k] = NoSnap \/ cache[k].time < cache'[k].time)
<1>1. cache' # cache
  OBVIOUS
<1>2. CASE \E p \in Processes : \E x \in fill[p] : Put(p, x)
  BY <1>2, PutNewer
<1>3. CASE \E l \in Keys : Expire(l)
  BY <1>3 DEF Expire, IInv, TypeOK, View
<1>4. Next
  BY <1>1 DEF vars
<1>5. \A w \in Writers : /\ \A b \in Batches : ~Submit(w, b)
                         /\ ~Insert(w) /\ ~Check(w) /\ ~Commit(w) /\ ~DatabaseFails(w)
  BY <1>1 DEF Submit, Insert, Check, Commit, DatabaseFails
<1>6. \A r \in Readers : /\ \A t \in Times : ~Pin(r, t)
                         /\ ~ReadCache(r) /\ ~Payloads(r) /\ ~ResolveFails(r)
  BY <1>1 DEF Pin, ReadCache, Payloads, ResolveFails
<1>7. \A p \in Processes : ~ReadLatest(p) /\ ~CacheFails(p)
  BY <1>1 DEF ReadLatest, CacheFails
<1> QED BY <1>2, <1>3, <1>4, <1>5, <1>6, <1>7 DEF Next, Serve

THEOREM CacheNeverGoesBack == Spec => CacheNeverOlder
<1>1. IInv /\ [Next]_vars =>
        [\A k \in Keys :
           cache'[k] \notin {cache[k], NoSnap} =>
             /\ cache'[k] \in rows
             /\ cache[k] = NoSnap \/ cache[k].time < cache'[k].time]_vars
  BY CacheStep
<1> QED BY <1>1, Invariance, PTL DEF Spec, CacheNeverOlder

-----------------------------------------------------------------------------
(* The store.                                                              *)

LEMMA SameDefinitions ==
  /\ \A R : Store!Consistent(R) = Consistent(R)
  /\ \A R, t : Store!Heads(R, t) = Heads(R, t)
  /\ Store!NoView = NoView
BY DEF Store!Consistent, Consistent, Store!SameRow, SameRow, Store!Heads, Heads,
       Store!Head, Head, Store!Newest, Newest, Store!UpTo, UpTo, Store!NoView, NoView

(* A commit is one of a whole and consistent batch.                        *)
LEMMA CommitStored ==
  ASSUME IInv, NEW w \in Writers, pc[w] = "commit", rows' = rows \cup mine[w], UNCHANGED pins
  PROVE  Store!Next
<1>1. Store!Commit(batch[w])
  BY CommittedRows, SameDefinitions DEF Store!Commit
<1> QED BY <1>1, CommittedRows DEF Store!Next

LEMMA StoreStep ==
  ASSUME IInv, [Next]_vars
  PROVE  Store!Next \/ UNCHANGED <<rows, pins>>
<1>1. CASE UNCHANGED vars
  BY <1>1 DEF vars
<1>2. ASSUME NEW w \in Writers, NEW b \in Batches, Submit(w, b)
      PROVE  UNCHANGED <<rows, pins>>
  BY <1>2 DEF Submit
<1>3. ASSUME NEW w \in Writers, Insert(w) PROVE UNCHANGED <<rows, pins>>
  BY <1>3 DEF Insert
<1>4. ASSUME NEW w \in Writers, Check(w) PROVE UNCHANGED <<rows, pins>>
  BY <1>4 DEF Check, Rollback
<1>5. ASSUME NEW w \in Writers, Commit(w) PROVE Store!Next
  BY <1>5, CommitStored DEF Commit
<1>6. ASSUME NEW w \in Writers, DatabaseFails(w)
      PROVE  Store!Next \/ UNCHANGED <<rows, pins>>
  BY <1>6, CommitStored DEF DatabaseFails, Rollback
<1>7. ASSUME NEW r \in Readers, NEW t \in Times, Pin(r, t) PROVE Store!Next
  <2>1. Store!Pin(r, t)
    BY <1>7, SameDefinitions DEF Pin, Store!Pin
  <2> QED BY <2>1 DEF Store!Next
<1>8. ASSUME NEW r \in Readers, ReadCache(r) \/ Payloads(r) \/ ResolveFails(r)
      PROVE  UNCHANGED <<rows, pins>>
  BY <1>8 DEF ReadCache, Payloads, ResolveFails
<1>9. ASSUME NEW p \in Processes, ReadLatest(p) \/ CacheFails(p) \/ \E x \in fill[p] : Put(p, x)
      PROVE  UNCHANGED <<rows, pins>>
  BY <1>9 DEF ReadLatest, CacheFails, Put
<1>10. ASSUME NEW k \in Keys, Expire(k) PROVE UNCHANGED <<rows, pins>>
  BY <1>10 DEF Expire
<1> QED BY <1>1, <1>2, <1>3, <1>4, <1>5, <1>6, <1>7, <1>8, <1>9, <1>10 DEF Next, Serve

(* Transactions and resolutions amount to atomic commits and views.        *)
THEOREM StoreImplemented == Spec => ImplementsStore
<1>1. Init => Store!Init
  BY SameDefinitions DEF Init, Store!Init
<1>2. IInv /\ [Next]_vars => [Store!Next]_<<rows, pins>>
  BY StoreStep
<1> QED BY <1>1, <1>2, Invariance, PTL DEF Spec, ImplementsStore, Store!Spec

-----------------------------------------------------------------------------
(* Rows of the simulator come in pairs.                                    *)

Twin(x, k) == [key |-> k, time |-> x.time, body |-> x.body]

Paired(R) ==
  \A x \in R : Simulated(x) =>
    /\ x.key \in {QueueKey, StationKey}
    /\ \A k \in {QueueKey, StationKey} : Twin(x, k) \in R

LEMMA TickPaired ==
  ASSUME NEW t, NEW b, NEW o
  PROVE  Paired(TickBatch(t, b, o))
BY DEF Paired, TickBatch, Twin

LEMMA PostedPaired ==
  ASSUME NEW b \in Posted
  PROVE  Paired(b)
BY SimulatorAssumption DEF Paired

LEMMA UnionPaired ==
  ASSUME NEW R, NEW Q, Paired(R), Paired(Q)
  PROVE  Paired(R \cup Q)
BY DEF Paired

(* The heads of one instant: each has a twin among the rows of the other,  *)
(* so neither is older.                                                    *)
LEMMA HeadsCoherent ==
  ASSUME NEW R \in SUBSET Snapshot, IsFiniteSet(R), Consistent(R), Paired(R),
         NEW t \in Times, NEW k \in Keys, NEW l \in Keys,
         Simulated(Heads(R, t)[k]), Simulated(Heads(R, t)[l])
  PROVE  /\ Heads(R, t)[k].time = Heads(R, t)[l].time
         /\ Heads(R, t)[k].body = Heads(R, t)[l].body
<1> DEFINE x == Heads(R, t)[k]
           y == Heads(R, t)[l]
<1>1. x \in UpTo(R, k, t) /\ \A z \in UpTo(R, k, t) : z.time <= x.time
  BY HeadFound DEF Simulated
<1>2. y \in UpTo(R, l, t) /\ \A z \in UpTo(R, l, t) : z.time <= y.time
  BY HeadFound DEF Simulated
<1> HIDE DEF x, y
<1>3. /\ x \in R /\ x.key = k /\ x.time <= t /\ x.time \in Nat
      /\ y \in R /\ y.key = l /\ y.time <= t /\ y.time \in Nat
  BY <1>1, <1>2, Fields DEF UpTo
<1>4. Twin(x, l) \in R /\ Twin(y, k) \in R
  BY <1>3 DEF Paired, x, y
<1>5. Twin(x, l) \in UpTo(R, l, t) /\ Twin(y, k) \in UpTo(R, k, t)
  BY <1>3, <1>4 DEF UpTo, Twin
<1>6. x.time <= y.time /\ y.time <= x.time
  BY <1>1, <1>2, <1>5 DEF Twin
<1>7. x.time = y.time
  BY <1>3, <1>6
<1>8. Twin(x, l) = y
  BY <1>3, <1>4, <1>7 DEF Consistent, SameRow, Twin
<1>9. x.body = y.body
  BY <1>8 DEF Twin
<1> QED BY <1>7, <1>9 DEF x, y

-----------------------------------------------------------------------------
(* The steps of the simulator are steps of the store.                      *)

WalkOK == loop \in Writers \cup {NoLoop} /\ occupied \in 0..Slots

LEMMA WalkKept == WalkOK /\ [SimNext]_<<vars, simVars>> => WalkOK'
BY DEF WalkOK, SimNext, Post, Tick, Stop, simVars

LEMMA TickSubmits ==
  ASSUME NEW w \in Writers, NEW t \in Times, NEW o \in 0..Slots, WalkOK,
         Tick(w, t, o)
  PROVE  \E b \in Batches : Submit(w, b) /\ b = TickBatch(t, occupied, o)
BY SimulatorAssumption DEF Tick, WalkOK

LEMMA StopServes ==
  ASSUME WalkOK, Stop
  PROVE  Serve \/ UNCHANGED vars
<1>1. loop \in Writers /\ loop \in Processes
  BY DEF WalkOK, Stop, Processes
<1> QED BY <1>1 DEF Stop, Serve

LEMMA StepOfStore ==
  ASSUME WalkOK, [SimNext]_<<vars, simVars>>
  PROVE  [Next]_vars
<1>1. ASSUME NEW w \in Writers, NEW b \in Posted, Post(w, b) PROVE Next
  <2>1. b \in Batches
    BY SimulatorAssumption
  <2> QED BY <1>1, <2>1 DEF Post, Next
<1>2. ASSUME NEW w \in Writers, NEW t \in Times, NEW o \in 0..Slots, Tick(w, t, o) PROVE Next
  BY <1>2, TickSubmits DEF Next
<1>3. CASE Stop
  BY <1>3, StopServes DEF Next
<1>4. CASE UNCHANGED <<vars, simVars>>
  BY <1>4
<1>5. CASE Serve
  BY <1>5 DEF Next
<1> QED BY <1>1, <1>2, <1>3, <1>4, <1>5 DEF SimNext

(* With the simulator among its sources, its loop cancelled at any await,  *)
(* the store is the one of Snapshots.                                      *)
THEOREM SimulatorIngests == SimSpec => Spec
<1>1. SimInit => Init /\ WalkOK
  BY DEF SimInit, WalkOK
<1>2. WalkOK /\ [SimNext]_<<vars, simVars>> => [Next]_vars
  BY StepOfStore
<1> QED BY <1>1, <1>2, WalkKept, PTL DEF SimSpec, Spec

-----------------------------------------------------------------------------
(* Coherence.                                                              *)

PairsOK == Paired(rows) /\ \A w \in Writers : Paired(batch[w])

(* What Serve can do to the table, the batches and the views.              *)
LEMMA ServeEffects ==
  ASSUME IInv, Serve
  PROVE  /\ batch' = batch
         /\ rows' = rows \/ \E w \in Writers : rows' = rows \cup batch[w]
         /\ \/ pins' = pins
            \/ \E r \in Readers, t \in Times : pins' = [pins EXCEPT ![r] = Heads(rows, t)]
<1>1. ASSUME NEW w \in Writers, Insert(w) \/ Check(w)
      PROVE  batch' = batch /\ rows' = rows /\ pins' = pins
  BY <1>1 DEF Insert, Check, Rollback
<1>2. ASSUME NEW w \in Writers, Commit(w) \/ DatabaseFails(w)
      PROVE  batch' = batch /\ (rows' = rows \/ rows' = rows \cup batch[w]) /\ pins' = pins
  BY <1>2, CommittedRows DEF Commit, DatabaseFails, Rollback
<1>3. ASSUME NEW r \in Readers, NEW t \in Times, Pin(r, t)
      PROVE  batch' = batch /\ rows' = rows /\ pins' = [pins EXCEPT ![r] = Heads(rows, t)]
  BY <1>3 DEF Pin
<1>4. ASSUME NEW r \in Readers, ReadCache(r) \/ Payloads(r) \/ ResolveFails(r)
      PROVE  batch' = batch /\ rows' = rows /\ pins' = pins
  BY <1>4 DEF ReadCache, Payloads, ResolveFails
<1>5. ASSUME NEW p \in Processes, ReadLatest(p) \/ CacheFails(p) \/ \E x \in fill[p] : Put(p, x)
      PROVE  batch' = batch /\ rows' = rows /\ pins' = pins
  BY <1>5 DEF ReadLatest, CacheFails, Put
<1>6. ASSUME NEW k \in Keys, Expire(k)
      PROVE  batch' = batch /\ rows' = rows /\ pins' = pins
  BY <1>6 DEF Expire
<1> QED BY <1>1, <1>2, <1>3, <1>4, <1>5, <1>6 DEF Serve

(* A submission changes one batch, and nothing else that matters here.     *)
LEMMA SubmitPairs ==
  ASSUME IInv, PairsOK, ViewsCoherent, NEW w \in Writers, NEW b, Submit(w, b), Paired(b)
  PROVE  PairsOK' /\ ViewsCoherent'
<1>1. rows' = rows /\ pins' = pins /\ batch' = [batch EXCEPT ![w] = b]
  BY DEF Submit
<1>2. \A v \in Writers : Paired(batch'[v])
  BY <1>1 DEF PairsOK, IInv, TypeOK
<1> QED BY <1>1, <1>2 DEF PairsOK, ViewsCoherent

LEMMA ServePairs ==
  ASSUME IInv, PairsOK, ViewsCoherent, Serve
  PROVE  PairsOK' /\ ViewsCoherent'
<1>1. Paired(rows')
  BY ServeEffects, UnionPaired DEF PairsOK
<1>2. PairsOK'
  BY <1>1, ServeEffects DEF PairsOK
<1>3. CASE pins' = pins
  BY <1>2, <1>3 DEF ViewsCoherent
<1>4. ASSUME NEW r \in Readers, NEW t \in Times, pins' = [pins EXCEPT ![r] = Heads(rows, t)]
      PROVE  ViewsCoherent'
  <2>1. pins'[r] = Heads(rows, t) /\ \A q \in Readers \ {r} : pins'[q] = pins[q]
    BY <1>4 DEF IInv, TypeOK
  <2>2. rows \in SUBSET Snapshot /\ IsFiniteSet(rows) /\ Consistent(rows) /\ Paired(rows)
    BY DEF IInv, TypeOK, RowsOK, PairsOK
  <2>3. ASSUME NEW k \in Keys, NEW l \in Keys, Simulated(pins'[r][k]), Simulated(pins'[r][l])
        PROVE  pins'[r][k].time = pins'[r][l].time /\ pins'[r][k].body = pins'[r][l].body
    BY <2>1, <2>2, <2>3, HeadsCoherent
  <2> QED BY <2>1, <2>3 DEF ViewsCoherent
<1> QED BY <1>2, <1>3, <1>4, ServeEffects

LEMMA PairsStep ==
  ASSUME IInv, WalkOK, PairsOK, ViewsCoherent,
         [SimNext]_<<vars, simVars>>
  PROVE  PairsOK' /\ ViewsCoherent'
<1>1. ASSUME NEW w \in Writers, NEW b \in Posted, Post(w, b)
      PROVE  PairsOK' /\ ViewsCoherent'
  BY <1>1, SubmitPairs, PostedPaired DEF Post
<1>2. ASSUME NEW w \in Writers, NEW t \in Times, NEW o \in 0..Slots, Tick(w, t, o)
      PROVE  PairsOK' /\ ViewsCoherent'
  BY <1>2, SubmitPairs, TickPaired DEF Tick
<1>3. CASE UNCHANGED vars
  BY <1>3 DEF vars, PairsOK, ViewsCoherent
<1>4. CASE Serve
  BY <1>4, ServePairs
<1>5. CASE Stop
  BY <1>3, <1>4, <1>5, StopServes
<1>6. CASE UNCHANGED <<vars, simVars>>
  BY <1>3, <1>6
<1> QED BY <1>1, <1>2, <1>4, <1>5, <1>6 DEF SimNext

(* What a view holds of the simulated station comes from one tick          *)
(* (simulator.py:181).                                                     *)
THEOREM ViewsAreCoherent == SimSpec => []ViewsCoherent
<1>1. SimInit => WalkOK /\ PairsOK /\ ViewsCoherent
  <2>1. SimInit => PairsOK
    BY DEF SimInit, Init, PairsOK, Paired
  <2>2. SimInit => ViewsCoherent
    BY NoViewType DEF SimInit, Init, ViewsCoherent, Simulated
  <2> QED BY <2>1, <2>2 DEF SimInit, WalkOK
<1>2. IInv /\ WalkOK /\ PairsOK /\ ViewsCoherent
        /\ [SimNext]_<<vars, simVars>> => PairsOK' /\ ViewsCoherent'
  BY PairsStep
<1> QED BY <1>1, <1>2, WalkKept, SimulatorIngests, Invariance, PTL DEF SimSpec

=============================================================================
