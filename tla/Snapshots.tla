----------------------------- MODULE Snapshots ------------------------------
(***************************************************************************)
(* Snapshot ingestion, the latest-value cache and the resolver             *)
(* (services/snapshots/repository.py, ingestion.py, resolver.py).          *)
(*                                                                         *)
(* A writer commits a batch in one PostgreSQL transaction; a reader pins   *)
(* the heads of its keys and then finds their payloads.  Both refresh the  *)
(* Redis cache afterwards, as best they can.  An action is one statement   *)
(* or command: the processes interleave between them.                      *)
(***************************************************************************)
EXTENDS SnapshotData

CONSTANTS
  Writers, Readers,
  MaxIngests,      \* bound: batches submitted in a behaviour
  MaxResolves,     \* bound: views resolved in a behaviour
  MaxFaults        \* bound: failures of the database and of the cache

ASSUME ProcessesAssumption ==
  /\ Writers \cap Readers = {} /\ IsFiniteSet(Writers)
  /\ MaxIngests \in Nat /\ MaxResolves \in Nat /\ MaxFaults \in Nat

VARIABLES
  rows,      \* state_snapshots, committed
  mine,      \* rows each transaction has inserted and not committed
  batch,     \* the batch of each writer
  todo,      \* its rows not inserted yet
  pins,      \* the heads of each reader's view
  result,    \* the payloads a reader has found
  wanted,    \* keys each process refreshes in the cache
  fill,      \* latest payloads each process has still to put in the cache
  cache,     \* week4:snapshot:<key>:latest
  pc, reply, budget

vars == <<rows, mine, batch, todo, pins, result, wanted, fill, cache, pc, reply, budget>>

Processes == Writers \cup Readers

Init ==
  /\ rows = {}
  /\ mine = [w \in Writers |-> {}]
  /\ batch = [w \in Writers |-> {}]
  /\ todo = [w \in Writers |-> {}]
  /\ pins = [r \in Readers |-> NoView]
  /\ result = [r \in Readers |-> NoView]
  /\ wanted = [p \in Processes |-> {}]
  /\ fill = [p \in Processes |-> {}]
  /\ cache = NoView
  /\ pc = [p \in Processes |-> "idle"]
  /\ reply = [p \in Processes |-> "NONE"]
  /\ budget = [ingests |-> MaxIngests, resolves |-> MaxResolves, faults |-> MaxFaults]

Goto(p, label) == pc' = [pc EXCEPT ![p] = label]

Reply(p, answer) == Goto(p, "idle") /\ reply' = [reply EXCEPT ![p] = answer]

Fault == budget.faults > 0 /\ budget' = [budget EXCEPT !.faults = @ - 1]

-----------------------------------------------------------------------------
(* ingest_many                                                             *)

Submit(w, b) ==
  /\ pc[w] = "idle"
  /\ budget.ingests > 0
  /\ budget' = [budget EXCEPT !.ingests = @ - 1]
  /\ batch' = [batch EXCEPT ![w] = b]
  /\ todo' = [todo EXCEPT ![w] = b]
  /\ wanted' = [wanted EXCEPT ![w] = {x.key : x \in b}]
  /\ Goto(w, "insert")
  /\ UNCHANGED <<rows, mine, pins, result, fill, cache, reply>>

MutatedNextRow(w, x) == x \in todo[w]

(* "Same lock order avoids deadlocks": by kind, entity and timestamp.      *)
NextRow(w, x) ==
  /\ x \in todo[w]
  /\ \A y \in todo[w] : x.key < y.key \/ (x.key = y.key /\ x.time <= y.time)

(* An insert waits for a transaction that holds the same unique key.       *)
Held(v, x) == \E y \in mine[v] : SameRow(x, y)

WaitsFor(w, v) ==
  /\ w # v
  /\ pc[w] = "insert"
  /\ \A x \in todo[w] : NextRow(w, x) => Held(v, x)

MutatedInsert(w) ==
  /\ pc[w] = "insert"
  /\ \E x \in todo[w] :
       /\ NextRow(w, x)
       /\ \A v \in Writers \ {w} : ~Held(v, x)
       /\ rows' = IF \E y \in rows : SameRow(x, y) THEN rows ELSE rows \cup {x}
       /\ todo' = [todo EXCEPT ![w] = @ \ {x}]
  /\ IF todo'[w] = {} THEN Goto(w, "check") ELSE UNCHANGED pc
  /\ UNCHANGED <<mine, batch, pins, result, wanted, fill, cache, reply, budget>>

(* INSERT ... ON CONFLICT DO NOTHING, row by row.                          *)
Insert(w) ==
  /\ pc[w] = "insert"
  /\ \E x \in todo[w] :
       /\ NextRow(w, x)
       /\ \A v \in Writers \ {w} : ~Held(v, x)
       /\ mine' = IF \E y \in rows \cup mine[w] : SameRow(x, y) THEN mine
                  ELSE [mine EXCEPT ![w] = @ \cup {x}]
       /\ todo' = [todo EXCEPT ![w] = @ \ {x}]
  /\ IF todo'[w] = {} THEN Goto(w, "check") ELSE UNCHANGED pc
  /\ UNCHANGED <<rows, batch, pins, result, wanted, fill, cache, reply, budget>>

Rollback(w) ==
  /\ mine' = [mine EXCEPT ![w] = {}]
  /\ todo' = [todo EXCEPT ![w] = {}]
  /\ UNCHANGED rows

MutatedCheck(w) ==
  /\ pc[w] = "check"
  /\ Goto(w, "commit")
  /\ UNCHANGED <<rows, mine, todo, reply, batch, pins, result, wanted, fill, cache, budget>>

(* The second statement sees the winner of an ON CONFLICT: any row of the  *)
(* batch that is not stored rejects the batch.                             *)
Check(w) ==
  /\ pc[w] = "check"
  /\ IF batch[w] \subseteq rows \cup mine[w]
     THEN Goto(w, "commit") /\ UNCHANGED <<rows, mine, todo, reply>>
     ELSE Rollback(w) /\ Reply(w, "CONFLICT")
  /\ UNCHANGED <<batch, pins, result, wanted, fill, cache, budget>>

Commit(w) ==
  /\ pc[w] = "commit"
  /\ rows' = rows \cup mine[w]
  /\ mine' = [mine EXCEPT ![w] = {}]
  /\ Goto(w, "latest")
  /\ UNCHANGED <<batch, todo, pins, result, wanted, fill, cache, reply, budget>>

(* A timeout or an error before the commit is known: the transaction is    *)
(* rolled back, unless it was the answer to the commit that was lost.      *)
DatabaseFails(w) ==
  /\ pc[w] \in {"insert", "check", "commit"}
  /\ Fault
  /\ \/ Rollback(w)
     \/ /\ pc[w] = "commit"
        /\ rows' = rows \cup mine[w]
        /\ mine' = [mine EXCEPT ![w] = {}]
        /\ UNCHANGED todo
  /\ Reply(w, "UNAVAILABLE")
  /\ UNCHANGED <<batch, pins, result, wanted, fill, cache>>

-----------------------------------------------------------------------------
(* SnapshotResolver.resolve                                                *)

(* One statement pins the heads at the request's time.                     *)
Pin(r, t) ==
  /\ pc[r] = "idle"
  /\ budget.resolves > 0
  /\ budget' = [budget EXCEPT !.resolves = @ - 1]
  /\ pins' = [pins EXCEPT ![r] = Heads(rows, t)]
  /\ result' = [result EXCEPT ![r] = NoView]
  /\ Goto(r, "cache")
  /\ UNCHANGED <<rows, mine, batch, todo, wanted, fill, cache, reply>>

MutatedHit(r, k) == pins[r][k] # NoSnap /\ cache[k] # NoSnap

(* A cached payload counts only if it is the pinned version.               *)
Hit(r, k) == pins[r][k] # NoSnap /\ cache[k] = pins[r][k]

(* MGET; a cache that fails is an empty one.                               *)
ReadCache(r) ==
  /\ pc[r] = "cache"
  /\ \/ /\ result' = [result EXCEPT ![r] =
                        [k \in Keys |-> IF Hit(r, k) THEN cache[k] ELSE NoSnap]]
        /\ UNCHANGED budget
     \/ UNCHANGED result /\ Fault
  /\ wanted' = [wanted EXCEPT ![r] =
                   {k \in Keys : pins[r][k] # NoSnap /\ result'[r][k] = NoSnap}]
  /\ IF wanted'[r] = {}
     THEN Reply(r, "RESOLVED")
     ELSE Goto(r, "payloads") /\ UNCHANGED reply
  /\ UNCHANGED <<rows, mine, batch, todo, pins, fill, cache>>

(* The payloads of the other pinned versions come from the database, or    *)
(* the whole resolution is refused.                                        *)
Payloads(r) ==
  /\ pc[r] = "payloads"
  /\ IF {pins[r][k] : k \in wanted[r]} \subseteq rows
     THEN /\ result' = [result EXCEPT ![r] =
                          [k \in Keys |-> IF k \in wanted[r] THEN pins[r][k] ELSE @[k]]]
          /\ Goto(r, "latest")
          /\ UNCHANGED reply
     ELSE Reply(r, "UNAVAILABLE") /\ UNCHANGED result
  /\ UNCHANGED <<rows, mine, batch, todo, pins, wanted, fill, cache, budget>>

(* (A head lookup that fails changes nothing at all.)                      *)
ResolveFails(r) ==
  /\ pc[r] = "payloads"
  /\ Fault
  /\ Reply(r, "UNAVAILABLE")
  /\ UNCHANGED <<rows, mine, batch, todo, pins, result, wanted, fill, cache>>

-----------------------------------------------------------------------------
(* populate_latest: the heads of all time, not the view's, are cached.     *)
(* Rows are immutable, so reading their payloads later changes nothing.    *)

Latest(k) == Newest({x \in rows : x.key = k})

ReadLatest(p) ==
  /\ pc[p] = "latest"
  /\ fill' = [fill EXCEPT ![p] = {Latest(k) : k \in wanted[p]}]
  /\ Goto(p, "put")
  /\ UNCHANGED <<rows, mine, batch, todo, pins, result, wanted, cache, reply, budget>>

Done(p) == Reply(p, IF p \in Writers THEN "STORED" ELSE "RESOLVED")

MutatedPut(p, x) ==
  /\ pc[p] = "put"
  /\ fill' = [fill EXCEPT ![p] = @ \ {x}]
  /\ cache' = [cache EXCEPT ![x.key] = x]
  /\ IF fill'[p] = {} THEN Done(p) ELSE UNCHANGED <<pc, reply>>
  /\ UNCHANGED <<rows, mine, batch, todo, pins, result, wanted, budget>>

(* LATEST_CAS, a Lua script: an older value never replaces a newer one.    *)
Put(p, x) ==
  /\ pc[p] = "put"
  /\ fill' = [fill EXCEPT ![p] = @ \ {x}]
  /\ cache' = IF cache[x.key] # NoSnap /\ cache[x.key].time > x.time
              THEN cache ELSE [cache EXCEPT ![x.key] = x]
  /\ IF fill'[p] = {} THEN Done(p) ELSE UNCHANGED <<pc, reply>>
  /\ UNCHANGED <<rows, mine, batch, todo, pins, result, wanted, budget>>

(* The request succeeds all the same.                                      *)
CacheFails(p) ==
  /\ pc[p] \in {"latest", "put"}
  /\ Fault
  /\ fill' = [fill EXCEPT ![p] = {}]
  /\ Done(p)
  /\ UNCHANGED <<rows, mine, batch, todo, pins, result, wanted, cache>>

(* The entry's TTL runs out.                                               *)
Expire(k) ==
  /\ cache[k] # NoSnap
  /\ cache' = [cache EXCEPT ![k] = NoSnap]
  /\ UNCHANGED <<rows, mine, batch, todo, pins, result, wanted, fill, pc, reply, budget>>

-----------------------------------------------------------------------------
(* Everything but the arrival of a batch.                                  *)
Serve ==
  \/ \E w \in Writers : Insert(w) \/ Check(w) \/ Commit(w) \/ DatabaseFails(w)
  \/ \E r \in Readers : \/ \E t \in Times : Pin(r, t)
                        \/ ReadCache(r) \/ Payloads(r) \/ ResolveFails(r)
  \/ \E p \in Processes : \/ ReadLatest(p) \/ CacheFails(p)
                          \/ \E x \in fill[p] : Put(p, x)
  \/ \E k \in Keys : Expire(k)

Next ==
  \/ \E w \in Writers, b \in Batches : Submit(w, b)
  \/ Serve

Spec == Init /\ [][Next]_vars

-----------------------------------------------------------------------------
TypeOK ==
  /\ rows \subseteq Snapshot
  /\ mine \in [Writers -> SUBSET Snapshot]
  /\ batch \in [Writers -> SUBSET Snapshot]
  /\ todo \in [Writers -> SUBSET Snapshot]
  /\ pins \in [Readers -> View]
  /\ result \in [Readers -> View]
  /\ wanted \in [Processes -> SUBSET Keys]
  /\ fill \in [Processes -> SUBSET Snapshot]
  /\ cache \in View
  /\ pc \in [Processes -> {"idle", "insert", "check", "commit", "cache",
                           "payloads", "latest", "put"}]
  /\ reply \in [Processes -> {"NONE", "CONFLICT", "UNAVAILABLE", "STORED", "RESOLVED"}]
  /\ budget \in [ingests : Nat, resolves : Nat, faults : Nat]

(* "Same lock order avoids deadlocks for concurrent overlapping batches"   *)
(* (repository.py:44): of any writers, one waits for none of the others.   *)
NoLockCycle ==
  \A S \in (SUBSET Writers) \ {{}} :
    \E w \in S : \A v \in S : ~WaitsFor(w, v)

(* A writer's answer is true and stays true, whoever wrote concurrently:   *)
(* an acknowledged batch is stored whole, and a conflict names a batch     *)
(* that no retry can ever store ("identical payload/source retries return  *)
(* the same ID; conflicting retries return 409", DECISIONS.md:53).         *)
AnswersTrue ==
  \A w \in Writers :
    /\ reply[w] = "STORED" /\ pc[w] = "idle" => batch[w] \subseteq rows
    /\ reply[w] = "CONFLICT" /\ pc[w] = "idle" => ~Consistent(rows \cup batch[w])

(* What a reader gets is what it pinned, although the cache holds other    *)
(* versions, expires and fails in between ("Cache entries must match these *)
(* IDs", DECISIONS.md:47): ImplementsStore makes it the state of one       *)
(* instant.                                                                *)
ViewIsPinned ==
  \A r \in Readers :
    pc[r] = "idle" /\ reply[r] = "RESOLVED" => result[r] = pins[r]

(* "An atomic Redis compare-and-set prevents older snapshots from replacing *)
(* newer cache values" (DECISIONS.md:54), and no value gets there that the *)
(* database has not committed.                                             *)
CacheNeverOlder ==
  [][\A k \in Keys :
       cache'[k] \notin {cache[k], NoSnap} =>
         /\ cache'[k] \in rows
         /\ cache[k] = NoSnap \/ cache[k].time < cache'[k].time]_vars

(* Transactions, locks and row-by-row inserts amount to atomic commits of  *)
(* whole, consistent batches, and a view to one read of the store.         *)
Store == INSTANCE StateStore WITH view <- pins
ImplementsStore == Store!Spec
=============================================================================
