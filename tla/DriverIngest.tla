---------------------------- MODULE DriverIngest ----------------------------
(***************************************************************************)
(* GPS ingestion and reset for one driver, as the API processes run them   *)
(* against the shared Redis key (api/v1/realtime.py,                       *)
(* services/realtime/driver_state_manager.py, driver_state_repository.py). *)
(*                                                                         *)
(* A worker is a request being served by any of the API processes; between *)
(* two awaits it runs alone, so an action reaches from one await to the    *)
(* next.  The awaits are the Redis commands and the map-matching call.  A  *)
(* Redis command may fail with the connection: its write may already have  *)
(* been executed, may be executed later than the requests that follow, or  *)
(* never (the set "limbo").                                                *)
(***************************************************************************)
EXTENDS DriverTrace

CONSTANTS
  Ingesters,       \* concurrent POST /drivers/{id}/location requests
  Resetters,       \* concurrent DELETE /drivers/{id}/location requests
  MaxRetries,      \* max_retries of both retry loops (3 in the code)
  MaxIngests,      \* bound: observations submitted in a behaviour
  MaxResets,       \* bound: resets requested in a behaviour
  MaxFaults        \* bound: writes whose reply is lost

ASSUME WorkersAssumption == Ingesters \cap Resetters = {}

ASSUME BoundsAssumption ==
  /\ MaxRetries \in Nat \ {0}
  /\ MaxIngests \in Nat /\ MaxResets \in Nat /\ MaxFaults \in Nat

VARIABLES
  reg,       \* the key: a version and a trace; version 0 is a missing key
  pc,        \* where each worker waits
  obs,       \* the observation of each ingesting worker
  attempt,   \* the loop counter of the retry loops
  base,      \* version and generation read by the current attempt
  work,      \* the trace the worker holds in memory
  reply,     \* the answer under way, or the last one given
  limbo,     \* writes whose connection was lost before the reply
  budget,    \* how much of the bounds is left
  (* History variables: they record what happened and steer nothing.       *)
  begun,     \* <<observation, generation>> of each request at its first read
  acked      \* <<observation, generation>> of each acknowledged acceptance

vars == <<reg, pc, obs, attempt, base, work, reply, limbo, budget, begun, acked>>

Workers == Ingesters \cup Resetters

(* The missing key is read as a fresh trace of generation 1 and the CAS    *)
(* script accepts version 0 with generation 1 for it.                      *)
Absent == [version |-> 0, trace |-> Fresh(1)]

NoBase == [version |-> 0, gen |-> 1]

Init ==
  /\ reg = Absent
  /\ pc = [w \in Workers |-> "idle"]
  /\ obs = [w \in Workers |-> NoObs]
  /\ attempt = [w \in Workers |-> 0]
  /\ base = [w \in Workers |-> NoBase]
  /\ work = [w \in Workers |-> Fresh(1)]
  /\ reply = [w \in Workers |-> "NONE"]
  /\ limbo = {}
  /\ budget = [ingests |-> MaxIngests, resets |-> MaxResets, faults |-> MaxFaults]
  /\ begun = {}
  /\ acked = {}

-----------------------------------------------------------------------------
MutatedMatches(b) == reg.trace.gen = b.gen

(* The compare-and-set script of save_with_expected_version: one atomic    *)
(* step of Redis, comparing version and generation with what was read.     *)
Matches(b) == reg.version = b.version /\ reg.trace.gen = b.gen

Written(t) == [version |-> reg.version + 1, trace |-> t]

Command(w) == [base |-> base[w], trace |-> work[w]]

(* The connection is lost: the caller sees an exception, the write stays   *)
(* out.                                                                    *)
LoseReply(w) ==
  /\ budget.faults > 0
  /\ budget' = [budget EXCEPT !.faults = @ - 1]
  /\ limbo' = limbo \cup {Command(w)}

(* The request is answered and its local variables are gone.               *)
Finish(w, answer) ==
  /\ pc' = [pc EXCEPT ![w] = "idle"]
  /\ reply' = [reply EXCEPT ![w] = answer]
  /\ obs' = [obs EXCEPT ![w] = NoObs]
  /\ attempt' = [attempt EXCEPT ![w] = 0]
  /\ base' = [base EXCEPT ![w] = NoBase]
  /\ work' = [work EXCEPT ![w] = Fresh(1)]

MutatedRetryInPlace(w) == UNCHANGED <<attempt, pc, reply, obs, base, work>>

(* Another turn of the loop, or the error after the last one.              *)
RetryOrGiveUp(w) ==
  IF attempt[w] + 1 < MaxRetries
  THEN /\ attempt' = [attempt EXCEPT ![w] = @ + 1]
       /\ pc' = [pc EXCEPT ![w] = "read"]
       /\ UNCHANGED <<reply, obs, base, work>>
  ELSE Finish(w, "UNAVAILABLE")

-----------------------------------------------------------------------------
(* _add_observation_with_cas: read, apply, compare-and-set, retry.         *)

Receive(w, o) ==
  /\ pc[w] = "idle"
  /\ budget.ingests > 0
  /\ budget' = [budget EXCEPT !.ingests = @ - 1]
  /\ pc' = [pc EXCEPT ![w] = "read"]
  /\ obs' = [obs EXCEPT ![w] = o]
  /\ attempt' = [attempt EXCEPT ![w] = 0]
  /\ reply' = [reply EXCEPT ![w] = "NONE"]
  /\ UNCHANGED <<reg, base, work, limbo, begun, acked>>

MutatedResetSeen(w) == FALSE

(* base_generation is taken on the first attempt; a later attempt that     *)
(* reads another generation must not add the observation.                  *)
ResetSeen(w) == attempt[w] > 0 /\ reg.trace.gen # base[w].gen

NoteBegun(w) ==
  begun' = IF attempt[w] = 0 THEN begun \cup {<<obs[w], reg.trace.gen>>} ELSE begun

Read(w) ==
  /\ pc[w] = "read"
  /\ ~ResetSeen(w)
  /\ ~Stale(reg.trace, obs[w])
  /\ ~Conflicting(reg.trace, obs[w])
  /\ pc' = [pc EXCEPT ![w] = "add"]
  /\ base' = [base EXCEPT ![w] = [version |-> reg.version, gen |-> reg.trace.gen]]
  /\ \E t \in AddResults(reg.trace, obs[w]) : work' = [work EXCEPT ![w] = t]
  /\ NoteBegun(w)
  /\ UNCHANGED <<reg, obs, attempt, reply, limbo, budget, acked>>

(* A stale observation, or one overtaken by a reset, is answered with      *)
(* STALE_OBSERVATION and nothing is written.                               *)
ReadStale(w) ==
  /\ pc[w] = "read"
  /\ ResetSeen(w) \/ Stale(reg.trace, obs[w])
  /\ Finish(w, "STALE_OBSERVATION")
  /\ NoteBegun(w)
  /\ UNCHANGED <<reg, limbo, budget, acked>>

(* The identifier is known with another payload: HTTP 409.                 *)
ReadConflict(w) ==
  /\ pc[w] = "read"
  /\ ~ResetSeen(w)
  /\ ~Stale(reg.trace, obs[w])
  /\ Conflicting(reg.trace, obs[w])
  /\ Finish(w, "CONFLICT")
  /\ NoteBegun(w)
  /\ UNCHANGED <<reg, limbo, budget, acked>>

ReadFails(w) ==
  /\ pc[w] = "read"
  /\ Finish(w, "UNAVAILABLE")
  /\ UNCHANGED <<reg, limbo, budget, begun, acked>>

(* What ingest_location does with the accepted observation, up to its next *)
(* await: answer without writing, persist a status, or call the matcher.   *)
Persist(w, b, status) ==
  /\ pc' = [pc EXCEPT ![w] = "save"]
  /\ base' = [base EXCEPT ![w].version = b]
  /\ work' = [work EXCEPT ![w] = WithStatus(work[w], status)]
  /\ reply' = [reply EXCEPT ![w] = status]
  /\ UNCHANGED <<obs, attempt>>

Dispose(w, b) ==
  IF WarmingUp(work[w]) THEN Persist(w, b, "WARMING_UP")
  ELSE IF StationarySuppressed(work[w]) \/ ~Triggered(work[w], obs[w])
  THEN Persist(w, b, "GPS_ACCEPTED")
  ELSE IF Cardinality(Context(work[w])) < 2
  THEN Finish(w, "WARMING_UP")
  ELSE /\ pc' = [pc EXCEPT ![w] = "match"]
       /\ base' = [base EXCEPT ![w].version = b]
       /\ UNCHANGED <<obs, attempt, work, reply>>

Add(w) ==
  /\ pc[w] = "add"
  /\ Matches(base[w])
  /\ reg' = Written(work[w])
  /\ acked' = acked \cup {<<obs[w], base[w].gen>>}
  /\ Dispose(w, reg.version + 1)
  /\ UNCHANGED <<limbo, budget, begun>>

AddConflict(w) ==
  /\ pc[w] = "add"
  /\ ~Matches(base[w])
  /\ RetryOrGiveUp(w)
  /\ UNCHANGED <<reg, limbo, budget, begun, acked>>

AddFails(w) ==
  /\ pc[w] = "add"
  /\ LoseReply(w)
  /\ RetryOrGiveUp(w)
  /\ UNCHANGED <<reg, begun, acked>>

-----------------------------------------------------------------------------
(* The map-matching call and the final save of ingest_location.            *)

MatchFound(w) ==
  /\ pc[w] = "match"
  /\ pc' = [pc EXCEPT ![w] = "save"]
  /\ work' = [work EXCEPT ![w] = WithMatch(work[w], Latest(work[w]))]
  /\ reply' = [reply EXCEPT ![w] = "MATCHED"]
  /\ UNCHANGED <<reg, obs, attempt, base, limbo, budget, begun, acked>>

(* No path, no matched position for the latest observation, or the engine  *)
(* is down.                                                                *)
MatchNotFound(w) ==
  /\ pc[w] = "match"
  /\ \E s \in {"NO_MATCH", "ENGINE_UNAVAILABLE"} : Persist(w, base[w].version, s)
  /\ UNCHANGED <<reg, limbo, budget, begun, acked>>

(* ValueError (an unknown vehicle category, for one): HTTP 400.            *)
MatchRejected(w) ==
  /\ pc[w] = "match"
  /\ Finish(w, "BAD_REQUEST")
  /\ UNCHANGED <<reg, limbo, budget, begun, acked>>

(* save_with_retry: one compare-and-set with the version of the Add.  Only *)
(* a match must be committed to be answered; every other answer is given   *)
(* whether its save succeeds or not.                                       *)
Save(w) ==
  /\ pc[w] = "save"
  /\ Matches(base[w])
  /\ reg' = Written(work[w])
  /\ Finish(w, reply[w])
  /\ UNCHANGED <<limbo, budget, begun, acked>>

SaveConflict(w) ==
  /\ pc[w] = "save"
  /\ ~Matches(base[w])
  /\ Finish(w, IF reply[w] = "MATCHED" THEN "MATCH_WITHHELD" ELSE reply[w])
  /\ UNCHANGED <<reg, limbo, budget, begun, acked>>

SaveFails(w) ==
  /\ pc[w] = "save"
  /\ LoseReply(w)
  /\ Finish(w, IF reply[w] = "MATCHED" THEN "UNAVAILABLE" ELSE reply[w])
  /\ UNCHANGED <<reg, begun, acked>>

-----------------------------------------------------------------------------
(* DELETE /drivers/{id}/location: update_with_cas with a fresh trace of    *)
(* the next generation.                                                    *)

RequestReset(w) ==
  /\ pc[w] = "idle"
  /\ budget.resets > 0
  /\ budget' = [budget EXCEPT !.resets = @ - 1]
  /\ pc' = [pc EXCEPT ![w] = "read"]
  /\ attempt' = [attempt EXCEPT ![w] = 0]
  /\ reply' = [reply EXCEPT ![w] = "NONE"]
  /\ UNCHANGED <<reg, obs, base, work, limbo, begun, acked>>

ResetRead(w) ==
  /\ pc[w] = "read"
  /\ pc' = [pc EXCEPT ![w] = "reset"]
  /\ base' = [base EXCEPT ![w] = [version |-> reg.version, gen |-> reg.trace.gen]]
  /\ work' = [work EXCEPT ![w] = Fresh(reg.trace.gen + 1)]
  /\ UNCHANGED <<reg, obs, attempt, reply, limbo, budget, begun, acked>>

Reset(w) ==
  /\ pc[w] = "reset"
  /\ Matches(base[w])
  /\ reg' = Written(work[w])
  /\ Finish(w, "RESET")
  /\ UNCHANGED <<limbo, budget, begun, acked>>

ResetConflict(w) ==
  /\ pc[w] = "reset"
  /\ ~Matches(base[w])
  /\ RetryOrGiveUp(w)
  /\ UNCHANGED <<reg, limbo, budget, begun, acked>>

(* Unlike the ingestion loop, this one does not retry after an exception.  *)
ResetFails(w) ==
  /\ pc[w] = "reset"
  /\ LoseReply(w)
  /\ Finish(w, "UNAVAILABLE")
  /\ UNCHANGED <<reg, begun, acked>>

-----------------------------------------------------------------------------
(* Redis itself.                                                           *)

(* A write that lost its connection is executed after all, by the same     *)
(* script; it may find that its version is gone.                           *)
ExecuteLate(c) ==
  /\ limbo' = limbo \ {c}
  /\ reg' = IF Matches(c.base) THEN Written(c.trace) ELSE reg
  /\ UNCHANGED <<pc, obs, attempt, base, work, reply, budget, begun, acked>>

(* The key expires an hour after its last use (DRIVER_STATE_TTL_SECONDS,   *)
(* refreshed by every read and write), so no request is under way.         *)
Expire ==
  /\ reg.version > 0
  /\ \A w \in Workers : pc[w] = "idle"
  /\ reg' = Absent
  /\ limbo' = {}
  /\ begun' = {}
  /\ acked' = {}
  /\ UNCHANGED <<pc, obs, attempt, base, work, reply, budget>>

(* Redis restarts without persistence: the key is gone at any moment.      *)
Restart ==
  /\ reg.version > 0
  /\ budget.faults > 0
  /\ budget' = [budget EXCEPT !.faults = @ - 1]
  /\ reg' = Absent
  /\ limbo' = {}
  /\ begun' = {}
  /\ acked' = {}
  /\ UNCHANGED <<pc, obs, attempt, base, work, reply>>

-----------------------------------------------------------------------------
IngestStep(w) ==
  \/ Read(w) \/ ReadStale(w) \/ ReadConflict(w) \/ ReadFails(w)
  \/ Add(w) \/ AddConflict(w) \/ AddFails(w)
  \/ MatchFound(w) \/ MatchNotFound(w) \/ MatchRejected(w)
  \/ Save(w) \/ SaveConflict(w) \/ SaveFails(w)

ResetStep(w) ==
  \/ ResetRead(w) \/ ReadFails(w)
  \/ Reset(w) \/ ResetConflict(w) \/ ResetFails(w)

Next ==
  \/ \E w \in Ingesters : IngestStep(w) \/ \E o \in Observations : Receive(w, o)
  \/ \E w \in Resetters : ResetStep(w) \/ RequestReset(w)
  \/ \E c \in limbo : ExecuteLate(c)
  \/ Expire

(* A request under way is always carried on: the event loop resumes it and *)
(* every awaited call returns or times out.  Nothing forces a new request, *)
(* a late write or an expiry.                                              *)
Fairness ==
  /\ \A w \in Ingesters : WF_vars(IngestStep(w))
  /\ \A w \in Resetters : WF_vars(ResetStep(w))

Spec == Init /\ [][Next]_vars /\ Fairness

(* The same system when Redis may also restart under the requests.         *)
RestartSpec == Init /\ [][Next \/ Restart]_vars /\ Fairness
-----------------------------------------------------------------------------
(* Properties.                                                             *)

(* The value under the key of the driver, which no write ever truncates.   *)
StoredTrace == [version : Nat, trace : Trace]

Write == [base : [version : Nat, gen : Nat \ {0}], trace : Trace]

Replies == Statuses \cup {"NONE", "STALE_OBSERVATION", "CONFLICT", "UNAVAILABLE",
                          "BAD_REQUEST", "MATCH_WITHHELD", "RESET"}

(* The local variables of the requests have their types.                   *)
LocalsOK ==
  /\ pc \in [Workers -> {"idle", "read", "add", "match", "save", "reset"}]
  /\ obs \in [Workers -> Observations \cup {NoObs}]
  /\ \A w \in Ingesters : pc[w] # "idle" => obs[w] \in Observations
  /\ attempt \in [Workers -> 0..(MaxRetries - 1)]
  /\ base \in [Workers -> [version : Nat, gen : Nat \ {0}]]
  /\ work \in [Workers -> Trace]
  /\ reply \in [Workers -> Replies]

(* Every variable has its type.                                            *)
TypeOK ==
  /\ reg \in StoredTrace
  /\ LocalsOK
  /\ limbo \subseteq Write
  /\ budget \in [ingests : Nat, resets : Nat, faults : Nat]
  /\ begun \subseteq Observations \X (Nat \ {0})
  /\ acked \subseteq Observations \X (Nat \ {0})

(* No lost update: an observation whose acceptance was acknowledged is     *)
(* remembered by the stored trace until a reset or an expiry, whatever     *)
(* other requests, late writes and best-effort saves do meanwhile ("This   *)
(* prevents lost updates", driver_state_manager.py:232).                   *)
AckedKept == \A a \in acked : a[2] = reg.trace.gen => a[1] \in reg.trace.seen

(* A reset isolates: whatever the stored trace holds was submitted by a    *)
(* request that first read this very generation, never by one that was     *)
(* under way when the reset was committed (RESET_DURING_INGEST).           *)
ResetIsolates == \A o \in reg.trace.seen : <<o, reg.trace.gen>> \in begun

(* An observation counts once however often it is sent, retried after a    *)
(* lost reply or executed late, and the buffer never holds it twice.       *)
CountedOnce ==
  /\ reg.trace.received = Cardinality(reg.trace.seen)
  /\ \A i, j \in DOMAIN reg.trace.obs :
        reg.trace.obs[i].id = reg.trace.obs[j].id => i = j

(* The buffer stays in event-time order although requests race: the        *)
(* staleness check is repeated on every re-read.  The trigger, the context *)
(* window and the map matcher all rely on it.                              *)
BufferOrdered ==
  LET t == reg.trace
  IN  /\ \A i, j \in DOMAIN t.obs : i <= j => t.obs[i].ts <= t.obs[j].ts
      /\ NewestIsLast(t)

(* Past the warm-up, the context window holds two observations at least,   *)
(* so a triggered match is never dropped for want of context: the gap that *)
(* clears the buffer is no longer than the window.                         *)
EnoughContext ==
  Len(reg.trace.obs) >= 2 => Cardinality(Context(reg.trace)) >= 2

(* The stored trace is an atomic register of whole operations: every write *)
(* that takes effect, late ones included, is an operation on the trace it  *)
(* replaces, and a match is only stored for the newest observation.        *)
Register == INSTANCE DriverRegister WITH trace <- reg.trace
ImplementsRegister == Register!Spec

(* Why it does: a write still under way is either an operation on the      *)
(* trace stored now, or carries a version that has been passed and will    *)
(* never match again.  This is what a version that only grows buys.        *)
Current(r, b, t) ==
  /\ b.version <= r.version
  /\ b.version = r.version => b.gen = r.trace.gen /\ Register!Operation(r.trace, t)

WriteReady(r, p, b, t) ==
  /\ p \in {"add", "save", "reset"} => Current(r, b, t)
  /\ p = "add" => t.gen = b.gen
  /\ p = "match" => /\ t.obs # <<>>
                    /\ b.version <= r.version
                    /\ b.version = r.version => b.gen = r.trace.gen /\ t = r.trace

WritesCurrent ==
  /\ \A c \in limbo : Current(reg, c.base, c.trace)
  /\ \A w \in Workers : WriteReady(reg, pc[w], base[w], work[w])

(* A recommendation locates the driver by a trace that ingestion replaces  *)
(* at the same time, preferring a match to a newer raw observation         *)
(* (location.py:47-61): at a time that no accepted observation exceeds,    *)
(* its location never goes back, nor is it lost, except by a reset or an   *)
(* expiry.                                                                 *)
LocationAdvances ==
  [][\A when \in {o.ts : o \in Observations} :
       /\ reg'.version > reg.version /\ reg'.trace.gen = reg.trace.gen
       /\ reg'.trace.lastTs <= when
       => LocatedTime(reg.trace, when) <= LocatedTime(reg'.trace, when)]_vars

(* Every request is answered: the retry loops end even if each attempt     *)
(* meets a conflict or a fault.                                            *)
EveryRequestAnswered == \A w \in Workers : (pc[w] # "idle") ~> (pc[w] = "idle")
=============================================================================
