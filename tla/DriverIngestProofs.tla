------------------------- MODULE DriverIngestProofs -------------------------
(***************************************************************************)
(* Proofs about DriverIngest: its type invariant, the invariant that makes *)
(* its compare-and-set retry loops correct, and that it implements the     *)
(* atomic register of DriverRegister.                                      *)
(***************************************************************************)
EXTENDS DriverIngest, SequenceTheorems, FiniteSetTheorems, TLAPS

USE DEF GPSObservation, StoredTrace

-----------------------------------------------------------------------------
(* Lemmas about the operations on a trace.                                 *)

LEMMA FreshType ==
  ASSUME NEW g \in Nat \ {0}
  PROVE  Fresh(g) \in Trace
  BY DEF Fresh, Trace, Statuses

LEMMA StatusType ==
  ASSUME NEW t \in Trace, NEW s \in Statuses
  PROVE  /\ WithStatus(t, s) \in Trace
         /\ WithStatus(t, s).obs = t.obs /\ WithStatus(t, s).lastTs = t.lastTs
         /\ WithStatus(t, s).seen = t.seen /\ WithStatus(t, s).gen = t.gen
  BY DEF WithStatus, Trace

LEMMA MatchType ==
  ASSUME NEW t \in Trace, NEW o \in Observations
  PROVE  /\ WithMatch(t, o) \in Trace
         /\ WithMatch(t, o).obs = t.obs /\ WithMatch(t, o).lastTs = t.lastTs
         /\ WithMatch(t, o).seen = t.seen /\ WithMatch(t, o).gen = t.gen
  BY DEF WithMatch, Trace, Statuses

LEMMA NewestType ==
  ASSUME NEW t \in Trace, t.obs # <<>>
  PROVE  Len(t.obs) \in DOMAIN t.obs /\ Newest(t) \in Observations
  BY DEF Newest, Trace

LEMMA AfterGapType ==
  ASSUME NEW t \in Trace, NEW o \in Observations
  PROVE  /\ AfterGap(t, o) \in Trace
         /\ AfterGap(t, o).seen = t.seen /\ AfterGap(t, o).gen = t.gen
<1> DEFINE cleared == [t EXCEPT !.obs = <<>>, !.matchTime = 0, !.matched = NoObs,
                                !.stationary = 0]
<1>1. <<>> \in Seq(Observations)
  OBVIOUS
<1>2. cleared \in Trace /\ cleared.seen = t.seen /\ cleared.gen = t.gen
  BY <1>1 DEF Trace
<1>3. AfterGap(t, o) \in {cleared, t}
  BY DEF AfterGap
<1> HIDE DEF cleared
<1> QED BY <1>2, <1>3

LEMMA MovedType ==
  ASSUME NEW t \in Trace, NEW o \in Observations
  PROVE  /\ Moved(t, o) \in Trace
         /\ Moved(t, o).obs = t.obs
         /\ Moved(t, o).seen = t.seen /\ Moved(t, o).gen = t.gen
<1>1. CASE t.obs = <<>>
  BY <1>1 DEF Moved
<1>2. CASE t.obs # <<>>
  <2> DEFINE d == Distance[Newest(t).place, o.place]
  <2>1. d \in Nat
    <3>1. Newest(t).place \in Places /\ o.place \in Places
      BY <1>2, NewestType, ObservationsAssumption
    <3> QED BY <3>1, DistanceAssumption
  <2> DEFINE still == IF d < StationaryDistance THEN t.stationary + 1 ELSE 0
  <2>2. Moved(t, o) = [t EXCEPT !.movement = t.movement + d, !.stationary = still]
    BY <1>2 DEF Moved
  <2> HIDE DEF d
  <2>3. t.movement + d \in Nat /\ still \in Nat
    BY <2>1 DEF Trace
  <2> HIDE DEF still
  <2> QED BY <2>2, <2>3 DEF Trace
<1> QED BY <1>1, <1>2

LEMMA PushType ==
  ASSUME NEW b \in Seq(Observations), NEW o \in Observations
  PROVE  /\ Push(b, o) \in Seq(Observations)
         /\ Push(b, o) # <<>>
         /\ Push(b, o)[Len(Push(b, o))] = o
<1> DEFINE c == IF Len(b) = MaxBuffer THEN Tail(b) ELSE b
<1>1. c \in Seq(Observations)
  <2>1. Len(b) = MaxBuffer => b # <<>>
    BY ThresholdsAssumption
  <2> QED BY <2>1
<1>2. Push(b, o) = Append(c, o)
  BY DEF Push
<1> HIDE DEF c
<1> QED BY <1>1, <1>2

(* Adding an observation keeps the type and the generation, remembers no   *)
(* other identifier, and leaves a newest observation that carries lastTs.  *)
LEMMA AddType ==
  ASSUME NEW t \in Trace, NEW o \in Observations, NEW u \in AddResults(t, o)
  PROVE  /\ u \in Trace
         /\ u.gen = t.gen
         /\ u.seen \subseteq t.seen \cup {o}
         /\ NewestIsLast(t) => NewestIsLast(u)
<1>1. CASE Duplicate(t, o)
  BY <1>1 DEF AddResults
<1>2. CASE ~Duplicate(t, o)
  <2> DEFINE v == Moved(AfterGap(t, o), o)
  <2>1. v \in Trace /\ v.seen = t.seen /\ v.gen = t.gen
    BY AfterGapType, MovedType
  <2>2. PICK kept \in CleanedUp(v.seen \cup {o}) :
          u = [v EXCEPT !.obs = Push(v.obs, o), !.seen = kept,
                        !.lastTs = o.ts, !.received = @ + 1]
    BY <1>2 DEF AddResults
  <2> HIDE DEF v
  <2>3. kept \subseteq t.seen \cup {o}
    BY <2>1, <2>2 DEF CleanedUp
  <2>4. v.obs \in Seq(Observations) /\ v.received \in Nat /\ t.seen \subseteq Observations
    BY <2>1 DEF Trace
  <2>5. o.ts \in Nat
    BY ObservationsAssumption
  <2> DEFINE b == Push(v.obs, o)
  <2>6. b \in Seq(Observations) /\ b # <<>> /\ b[Len(b)] = o
    BY <2>4, PushType
  <2>7. kept \in SUBSET Observations /\ v.received + 1 \in Nat
    BY <2>3, <2>4
  <2>8. u = [v EXCEPT !.obs = b, !.seen = kept, !.lastTs = o.ts, !.received = v.received + 1]
    BY <2>2
  <2> HIDE DEF b
  <2>9. u \in Trace /\ u.obs = b /\ u.seen = kept /\ u.gen = v.gen /\ u.lastTs = o.ts
    BY <2>1, <2>5, <2>6, <2>7, <2>8 DEF Trace
  <2> QED BY <2>1, <2>3, <2>6, <2>9 DEF Newest, NewestIsLast
<1> QED BY <1>1, <1>2

(* A match is read off the newest observation.                             *)
LEMMA LatestIsNewest ==
  ASSUME NEW t \in Trace, t.obs # <<>>, NewestIsLast(t)
  PROVE  Latest(t) = Newest(t)
<1> DEFINE n == Len(t.obs)
<1>1. n \in DOMAIN t.obs /\ DOMAIN t.obs = 1..n /\ n \in Nat
  BY DEF Trace
<1>2. t.lastTs \in Nat /\ Window \in Nat
  BY ThresholdsAssumption DEF Trace
<1>3. n \in Recent(t)
  BY <1>1, <1>2 DEF Recent, NewestIsLast, Newest
<1>4. {j \in Recent(t) : j > n} = {}
  BY <1>1 DEF Recent
<1>5. Cardinality({j \in Recent(t) : j > n}) < MaxContext
  <2>1. Cardinality({j \in Recent(t) : j > n}) = 0
    BY <1>4, FS_EmptySet
  <2> QED BY <2>1, ThresholdsAssumption
<1>6. n \in Context(t)
  BY <1>3, <1>5 DEF Context
<1>7. \A j \in Context(t) : j \in Nat /\ j <= n
  BY <1>1 DEF Context, Recent
<1>8. (CHOOSE i \in Context(t) : \A j \in Context(t) : j <= i) = n
  BY <1>1, <1>6, <1>7
<1> QED BY <1>8 DEF Latest, Newest
-----------------------------------------------------------------------------
(* The inductive invariant: types, writes under way, and newest            *)
(* observations carrying the last timestamp in every trace that is held.   *)

NewestKept ==
  /\ NewestIsLast(reg.trace)
  /\ \A c \in limbo : NewestIsLast(c.trace)
  /\ \A w \in Workers : NewestIsLast(work[w])

IInv == TypeOK /\ WritesCurrent /\ NewestKept

(* Answering a request leaves the local variables well typed.              *)
LEMMA FinishType ==
  ASSUME LocalsOK, NEW w \in Workers, NEW answer \in Replies, Finish(w, answer)
  PROVE  LocalsOK'
<1>1. Fresh(1) \in Trace /\ NoBase \in [version : Nat, gen : Nat \ {0}]
  BY FreshType DEF NoBase
<1>2. 0 \in 0..(MaxRetries - 1)
  BY BoundsAssumption
<1> QED BY <1>1, <1>2 DEF LocalsOK, Finish

LEMMA RetryType ==
  ASSUME LocalsOK, NEW w \in Workers, RetryOrGiveUp(w), pc[w] # "idle"
  PROVE  LocalsOK'
<1>1. CASE attempt[w] + 1 < MaxRetries
  <2>1. attempt[w] + 1 \in 0..(MaxRetries - 1)
    BY <1>1, BoundsAssumption DEF LocalsOK
  <2>2. attempt' = [attempt EXCEPT ![w] = attempt[w] + 1] /\ pc' = [pc EXCEPT ![w] = "read"]
    BY <1>1 DEF RetryOrGiveUp
  <2>3. UNCHANGED <<reply, obs, base, work>>
    BY <1>1 DEF RetryOrGiveUp
  <2>4. attempt' \in [Workers -> 0..(MaxRetries - 1)]
    BY <2>1, <2>2 DEF LocalsOK
  <2>5. pc' \in [Workers -> {"idle", "read", "add", "match", "save", "reset"}]
    BY <2>2 DEF LocalsOK
  <2>6. \A v \in Ingesters : pc'[v] # "idle" => obs'[v] \in Observations
    BY <2>2, <2>3 DEF LocalsOK, Workers
  <2> QED BY <2>3, <2>4, <2>5, <2>6 DEF LocalsOK
<1>2. CASE ~(attempt[w] + 1 < MaxRetries)
  BY <1>2, FinishType DEF RetryOrGiveUp, Replies
<1> QED BY <1>1, <1>2

LEMMA PersistType ==
  ASSUME LocalsOK, NEW w \in Workers, NEW b \in Nat, NEW s \in Statuses, Persist(w, b, s),
         pc[w] # "idle"
  PROVE  LocalsOK'
<1>1. WithStatus(work[w], s) \in Trace
  BY StatusType DEF LocalsOK
<1> QED BY <1>1 DEF LocalsOK, Persist, Replies

LEMMA DisposeType ==
  ASSUME LocalsOK, NEW w \in Workers, NEW b \in Nat, Dispose(w, b), pc[w] # "idle"
  PROVE  LocalsOK'
<1> "WARMING_UP" \in Replies /\ "WARMING_UP" \in Statuses /\ "GPS_ACCEPTED" \in Statuses
  BY DEF Replies, Statuses
<1>1. CASE WarmingUp(work[w])
  BY <1>1, PersistType DEF Dispose
<1>2. CASE ~WarmingUp(work[w]) /\ (StationarySuppressed(work[w]) \/ ~Triggered(work[w], obs[w]))
  BY <1>2, PersistType DEF Dispose
<1>3. CASE /\ ~WarmingUp(work[w])
           /\ ~(StationarySuppressed(work[w]) \/ ~Triggered(work[w], obs[w]))
           /\ Cardinality(Context(work[w])) < 2
  BY <1>3, FinishType DEF Dispose
<1>4. CASE /\ ~WarmingUp(work[w])
           /\ ~(StationarySuppressed(work[w]) \/ ~Triggered(work[w], obs[w]))
           /\ ~(Cardinality(Context(work[w])) < 2)
  <2>1. pc' = [pc EXCEPT ![w] = "match"] /\ base' = [base EXCEPT ![w].version = b]
    BY <1>4 DEF Dispose
  <2>2. UNCHANGED <<obs, attempt, work, reply>>
    BY <1>4 DEF Dispose
  <2>3. base' \in [Workers -> [version : Nat, gen : Nat \ {0}]]
    BY <2>1 DEF LocalsOK
  <2>4. pc' \in [Workers -> {"idle", "read", "add", "match", "save", "reset"}]
    BY <2>1 DEF LocalsOK
  <2>5. \A v \in Ingesters : pc'[v] # "idle" => obs'[v] \in Observations
    BY <2>1, <2>2 DEF LocalsOK, Workers
  <2> QED BY <2>2, <2>3, <2>4, <2>5 DEF LocalsOK
<1> QED BY <1>1, <1>2, <1>3, <1>4

LEMMA WrittenType ==
  ASSUME TypeOK, NEW t \in Trace
  PROVE  /\ Written(t) \in StoredTrace
         /\ Written(t).version = reg.version + 1 /\ Written(t).trace = t
  BY DEF TypeOK, Written

LEMMA LoseReplyType ==
  ASSUME TypeOK, NEW w \in Workers, LoseReply(w)
  PROVE  limbo' \subseteq Write /\ budget' \in [ingests : Nat, resets : Nat, faults : Nat]
<1>1. Command(w) \in Write
  BY DEF Command, Write, TypeOK, LocalsOK
<1>2. budget.faults - 1 \in Nat
  BY DEF LoseReply, TypeOK
<1> QED BY <1>1, <1>2 DEF LoseReply, TypeOK

-----------------------------------------------------------------------------
(* Type correctness is preserved, action by action.                        *)

LEMMA TypeStep == IInv /\ [Next]_vars => TypeOK'
<1> SUFFICES ASSUME IInv, [Next]_vars PROVE TypeOK'
  OBVIOUS
<1> USE DEF IInv
<1>0. /\ LocalsOK /\ reg \in StoredTrace /\ limbo \subseteq Write
      /\ budget \in [ingests : Nat, resets : Nat, faults : Nat]
      /\ begun \subseteq Observations \X (Nat \ {0})
      /\ acked \subseteq Observations \X (Nat \ {0})
      /\ reg.trace \in Trace /\ reg.trace.gen \in Nat \ {0} /\ reg.version \in Nat
  BY DEF TypeOK, Trace
<1>1. ASSUME NEW w \in Ingesters, IngestStep(w) PROVE TypeOK'
  <2>0. w \in Workers /\ (pc[w] # "idle" => obs[w] \in Observations)
        /\ work[w] \in Trace /\ base[w] \in [version : Nat, gen : Nat \ {0}]
        /\ reply[w] \in Replies
    BY <1>0 DEF Workers, LocalsOK
  <2>begun. ASSUME NoteBegun(w), pc[w] # "idle"
            PROVE  begun' \subseteq Observations \X (Nat \ {0})
    BY <1>0, <2>0, <2>begun DEF NoteBegun
  <2>answer. {"STALE_OBSERVATION", "CONFLICT", "UNAVAILABLE", "BAD_REQUEST", "MATCHED",
              "MATCH_WITHHELD", "NO_MATCH", "ENGINE_UNAVAILABLE"} \subseteq Replies
    BY DEF Replies, Statuses
  <2>1. CASE Read(w)
    <3>1. PICK t \in AddResults(reg.trace, obs[w]) : work' = [work EXCEPT ![w] = t]
      BY <2>1 DEF Read
    <3>2. t \in Trace
      BY <1>0, <2>0, <2>1, AddType DEF Read
    <3>3. LocalsOK'
      BY <1>0, <2>0, <2>1, <3>1, <3>2 DEF LocalsOK, Read
    <3> QED BY <1>0, <2>1, <2>begun, <3>3 DEF Read, TypeOK
  <2>2. CASE ReadStale(w)
    BY <1>0, <2>0, <2>2, <2>begun, <2>answer, FinishType DEF ReadStale, TypeOK
  <2>3. CASE ReadConflict(w)
    BY <1>0, <2>0, <2>3, <2>begun, <2>answer, FinishType DEF ReadConflict, TypeOK
  <2>4. CASE ReadFails(w)
    BY <1>0, <2>0, <2>4, <2>answer, FinishType DEF ReadFails, TypeOK
  <2>5. CASE Add(w)
    <3>1. LocalsOK'
      BY <1>0, <2>0, <2>5, DisposeType DEF Add
    <3>2. reg' \in StoredTrace
      BY <2>0, <2>5, WrittenType DEF Add
    <3>3. acked' \subseteq Observations \X (Nat \ {0})
      BY <1>0, <2>0, <2>5 DEF Add
    <3> QED BY <1>0, <2>5, <3>1, <3>2, <3>3 DEF Add, TypeOK
  <2>6. CASE AddConflict(w)
    BY <1>0, <2>0, <2>6, RetryType DEF AddConflict, TypeOK
  <2>7. CASE AddFails(w)
    BY <1>0, <2>0, <2>7, RetryType, LoseReplyType DEF AddFails, TypeOK
  <2>8. CASE MatchFound(w)
    <3>1. Latest(work[w]) \in Observations
      BY <2>0, <2>8, LatestIsNewest, NewestType
      DEF MatchFound, WritesCurrent, WriteReady, NewestKept
    <3>2. WithMatch(work[w], Latest(work[w])) \in Trace
      BY <2>0, <3>1, MatchType
    <3>3. LocalsOK'
      BY <1>0, <2>0, <2>8, <2>answer, <3>2 DEF LocalsOK, MatchFound
    <3> QED BY <1>0, <2>8, <3>3 DEF MatchFound, TypeOK
  <2>9. CASE MatchNotFound(w)
    <3>1. PICK s \in {"NO_MATCH", "ENGINE_UNAVAILABLE"} : Persist(w, base[w].version, s)
      BY <2>9 DEF MatchNotFound
    <3>2. s \in Statuses /\ base[w].version \in Nat /\ pc[w] # "idle"
      BY <2>0, <2>9 DEF Statuses, MatchNotFound
    <3>3. LocalsOK'
      BY <1>0, <2>0, <3>1, <3>2, PersistType
    <3> QED BY <1>0, <2>9, <3>3 DEF MatchNotFound, TypeOK
  <2>10. CASE MatchRejected(w)
    BY <1>0, <2>0, <2>10, <2>answer, FinishType DEF MatchRejected, TypeOK
  <2>11. CASE Save(w)
    <3>1. reg' \in StoredTrace
      BY <2>0, <2>11, WrittenType DEF Save
    <3> QED BY <1>0, <2>0, <2>11, <3>1, FinishType DEF Save, TypeOK
  <2>12. CASE SaveConflict(w)
    <3>1. LocalsOK'
      BY <1>0, <2>0, <2>12, <2>answer, FinishType DEF SaveConflict
    <3> QED BY <1>0, <2>12, <3>1 DEF SaveConflict, TypeOK
  <2>13. CASE SaveFails(w)
    <3>1. LocalsOK'
      BY <1>0, <2>0, <2>13, <2>answer, FinishType DEF SaveFails
    <3> QED BY <1>0, <2>0, <2>13, <3>1, LoseReplyType DEF SaveFails, TypeOK
  <2> QED BY <1>1, <2>1, <2>2, <2>3, <2>4, <2>5, <2>6, <2>7, <2>8, <2>9, <2>10, <2>11,
             <2>12, <2>13 DEF IngestStep
<1>2. ASSUME NEW w \in Ingesters, NEW o \in Observations, Receive(w, o) PROVE TypeOK'
  <2>1. 0 \in 0..(MaxRetries - 1) /\ "NONE" \in Replies /\ w \in Workers
    BY BoundsAssumption DEF Replies, Workers
  <2>2. LocalsOK'
    BY <1>0, <1>2, <2>1 DEF LocalsOK, Receive
  <2>3. budget' \in [ingests : Nat, resets : Nat, faults : Nat]
    BY <1>0, <1>2 DEF Receive
  <2> QED BY <1>0, <1>2, <2>2, <2>3 DEF Receive, TypeOK
<1>3. ASSUME NEW w \in Resetters, ResetStep(w) PROVE TypeOK'
  <2>0. w \in Workers /\ w \notin Ingesters /\ work[w] \in Trace
    BY <1>0, WorkersAssumption DEF Workers, LocalsOK
  <2>answer. "RESET" \in Replies /\ "UNAVAILABLE" \in Replies
    BY DEF Replies
  <2>1. CASE ResetRead(w)
    <3>1. Fresh(reg.trace.gen + 1) \in Trace
      BY <1>0, FreshType
    <3>2. LocalsOK'
      BY <1>0, <2>0, <2>1, <3>1 DEF LocalsOK, ResetRead
    <3> QED BY <1>0, <2>1, <3>2 DEF ResetRead, TypeOK
  <2>2. CASE ReadFails(w)
    BY <1>0, <2>0, <2>2, <2>answer, FinishType DEF ReadFails, TypeOK
  <2>3. CASE Reset(w)
    <3>1. reg' \in StoredTrace
      BY <2>0, <2>3, WrittenType DEF Reset
    <3> QED BY <1>0, <2>0, <2>3, <2>answer, <3>1, FinishType DEF Reset, TypeOK
  <2>4. CASE ResetConflict(w)
    BY <1>0, <2>0, <2>4, RetryType DEF ResetConflict, TypeOK
  <2>5. CASE ResetFails(w)
    BY <1>0, <2>0, <2>5, <2>answer, FinishType, LoseReplyType DEF ResetFails, TypeOK
  <2> QED BY <1>3, <2>1, <2>2, <2>3, <2>4, <2>5 DEF ResetStep
<1>4. ASSUME NEW w \in Resetters, RequestReset(w) PROVE TypeOK'
  <2>1. 0 \in 0..(MaxRetries - 1) /\ "NONE" \in Replies /\ w \in Workers /\ w \notin Ingesters
    BY BoundsAssumption, WorkersAssumption DEF Replies, Workers
  <2>2. LocalsOK'
    BY <1>0, <1>4, <2>1 DEF LocalsOK, RequestReset
  <2>3. budget' \in [ingests : Nat, resets : Nat, faults : Nat]
    BY <1>0, <1>4 DEF RequestReset
  <2> QED BY <1>0, <1>4, <2>2, <2>3 DEF RequestReset, TypeOK
<1>5. ASSUME NEW c \in limbo, ExecuteLate(c) PROVE TypeOK'
  <2>1. c.trace \in Trace
    BY <1>0 DEF Write
  <2>2. reg' \in StoredTrace
    BY <1>0, <1>5, <2>1, WrittenType DEF ExecuteLate
  <2>3. LocalsOK'
    BY <1>0, <1>5 DEF ExecuteLate, LocalsOK
  <2> QED BY <1>0, <1>5, <2>2, <2>3 DEF ExecuteLate, TypeOK
<1>6. CASE Expire
  <2>1. Absent \in StoredTrace
    BY FreshType DEF Absent
  <2>2. LocalsOK'
    BY <1>0, <1>6 DEF Expire, LocalsOK
  <2> QED BY <1>0, <1>6, <2>1, <2>2 DEF Expire, TypeOK
<1>7. CASE UNCHANGED vars
  BY <1>7 DEF vars, TypeOK, LocalsOK
<1> QED BY <1>1, <1>2, <1>3, <1>4, <1>5, <1>6, <1>7 DEF Next

-----------------------------------------------------------------------------
(* The operators that the register brings along are those of this module.  *)

LEMMA SameFresh == \A g : Register!Fresh(g) = Fresh(g)
  BY DEF Register!Fresh, Fresh

LEMMA SameGuards ==
  \A t, o : /\ Register!Stale(t, o) = Stale(t, o)
            /\ Register!Conflicting(t, o) = Conflicting(t, o)
            /\ Register!Duplicate(t, o) = Duplicate(t, o)
  BY DEF Register!Stale, Stale, Register!Conflicting, Conflicting,
         Register!Duplicate, Duplicate

LEMMA SameAfterGap == \A t, o : Register!AfterGap(t, o) = AfterGap(t, o)
  BY DEF Register!AfterGap, AfterGap

LEMMA SameMoved == \A t, o : Register!Moved(t, o) = Moved(t, o)
  BY DEF Register!Moved, Moved, Register!Newest, Newest

LEMMA SamePush == \A b, o : Register!Push(b, o) = Push(b, o)
  BY DEF Register!Push, Push

LEMMA SameCardinality == \A s : Register!Cardinality(s) = Cardinality(s)
  BY DEF Register!Cardinality, Cardinality

LEMMA SameCleanedUp == \A s : Register!CleanedUp(s) = CleanedUp(s)
  BY SameCardinality DEF Register!CleanedUp, CleanedUp

LEMMA SameAddResults == \A t, o : Register!AddResults(t, o) = AddResults(t, o)
  BY SameGuards, SameAfterGap, SameMoved, SamePush, SameCleanedUp
  DEF Register!AddResults, AddResults

(* The operations of the register, in the words of this module.            *)
LEMMA AcceptIsOperation ==
  ASSUME NEW t, NEW o \in Observations, ~Stale(t, o), ~Conflicting(t, o),
         NEW u \in AddResults(t, o)
  PROVE  Register!Operation(t, u)
  BY SameGuards, SameAddResults DEF Register!Operation, Register!AcceptStep

LEMMA ReportIsOperation ==
  ASSUME NEW t, NEW s \in Statuses \ {"MATCHED"}
  PROVE  Register!Operation(t, WithStatus(t, s))
  BY DEF Register!Operation, Register!ReportStep, Register!Statuses, Statuses,
         Register!WithStatus, WithStatus

LEMMA MatchIsOperation ==
  ASSUME NEW t, t.obs # <<>>
  PROVE  Register!Operation(t, WithMatch(t, Newest(t)))
  BY DEF Register!Operation, Register!MatchStep, Register!Newest, Newest,
         Register!WithMatch, WithMatch

LEMMA ResetIsOperation ==
  ASSUME NEW t
  PROVE  Register!Operation(t, Fresh(t.gen + 1))
  BY SameFresh DEF Register!Operation, Register!ResetStep
-----------------------------------------------------------------------------
(* Writes under way stay current or passed, action by action.              *)

(* A write whose version is that of an earlier trace is passed for good.   *)
LEMMA StillCurrent ==
  ASSUME NEW r, r.version \in Nat, NEW r2, r2.version \in Nat,
         r2 = r \/ r2.version > r.version,
         NEW b, b.version \in Nat, NEW t
  PROVE  /\ Current(r, b, t) => Current(r2, b, t)
         /\ \A p : WriteReady(r, p, b, t) => WriteReady(r2, p, b, t)
<1>1. CASE r2 = r
  BY <1>1
<1>2. CASE r2.version > r.version
  <2>1. b.version <= r.version => b.version <= r2.version /\ b.version # r2.version
    BY <1>2
  <2>2. Current(r, b, t) => Current(r2, b, t)
    BY <2>1 DEF Current
  <2> QED BY <2>1, <2>2 DEF WriteReady
<1> QED BY <1>1, <1>2

(* A step of worker w that advances the register or leaves it alone, given *)
(* what it establishes for w itself, the register and the writes in limbo. *)
LEMMA WorkerStep ==
  ASSUME IInv, TypeOK', NEW w \in Workers,
         reg' = reg \/ reg'.version > reg.version,
         NewestIsLast(reg'.trace),
         \/ limbo' = limbo
         \/ limbo' = limbo \cup {Command(w)} /\ Current(reg, base[w], work[w]),
         \A v \in Workers \ {w} : pc'[v] = pc[v] /\ base'[v] = base[v] /\ work'[v] = work[v],
         WriteReady(reg', pc'[w], base'[w], work'[w]),
         NewestIsLast(work'[w])
  PROVE  WritesCurrent' /\ NewestKept'
<1>1. reg.version \in Nat /\ reg'.version \in Nat
  BY DEF IInv, TypeOK
<1>2. \A v \in Workers : base[v].version \in Nat
  BY DEF IInv, TypeOK, LocalsOK
<1>3. \A v \in Workers \ {w} : WriteReady(reg', pc'[v], base'[v], work'[v])
  <2> TAKE v \in Workers \ {w}
  <2>1. WriteReady(reg, pc[v], base[v], work[v])
    BY DEF IInv, WritesCurrent
  <2> QED BY <1>1, <1>2, <2>1, StillCurrent
<1>4. \A c \in limbo' : Current(reg', c.base, c.trace) /\ NewestIsLast(c.trace)
  <2> TAKE c \in limbo'
  <2>1. /\ Current(reg, c.base, c.trace) /\ NewestIsLast(c.trace)
        /\ c.base.version \in Nat
    <3>1. CASE c \in limbo
      BY <3>1 DEF IInv, WritesCurrent, NewestKept, TypeOK, Write
    <3>2. CASE c = Command(w) /\ Current(reg, base[w], work[w])
      BY <1>2, <3>2 DEF Command, IInv, NewestKept
    <3> QED BY <3>1, <3>2
  <2> QED BY <1>1, <2>1, StillCurrent
<1>5. \A v \in Workers : NewestIsLast(work'[v])
  BY DEF IInv, NewestKept
<1>6. WritesCurrent'
  BY <1>3, <1>4 DEF WritesCurrent
<1> QED BY <1>4, <1>5, <1>6 DEF NewestKept

(* A request that is answered has nothing left to write.                   *)
LEMMA FinishReady ==
  ASSUME LocalsOK, NEW w \in Workers, NEW answer, Finish(w, answer)
  PROVE  /\ \A r : WriteReady(r, pc'[w], base'[w], work'[w])
         /\ NewestIsLast(work'[w])
         /\ \A v \in Workers \ {w} : /\ pc'[v] = pc[v] /\ base'[v] = base[v]
                                      /\ work'[v] = work[v]
  BY DEF LocalsOK, Finish, WriteReady, NewestIsLast, Fresh

LEMMA RetryReady ==
  ASSUME LocalsOK, NEW w \in Workers, RetryOrGiveUp(w), NewestIsLast(work[w])
  PROVE  /\ \A r : WriteReady(r, pc'[w], base'[w], work'[w])
         /\ NewestIsLast(work'[w])
         /\ \A v \in Workers \ {w} : /\ pc'[v] = pc[v] /\ base'[v] = base[v]
                                      /\ work'[v] = work[v]
<1>1. CASE attempt[w] + 1 < MaxRetries
  <2>1. pc' = [pc EXCEPT ![w] = "read"] /\ base' = base /\ work' = work
    BY <1>1 DEF RetryOrGiveUp
  <2> QED BY <2>1 DEF LocalsOK, WriteReady
<1>2. CASE ~(attempt[w] + 1 < MaxRetries)
  BY <1>2, FinishReady DEF RetryOrGiveUp
<1> QED BY <1>1, <1>2

(* A status saved with the version of the trace it was computed from.      *)
LEMMA PersistReady ==
  ASSUME LocalsOK, NEW w \in Workers, NEW b \in Nat, NEW s \in Statuses \ {"MATCHED"},
         Persist(w, b, s), NewestIsLast(work[w]), NEW r,
         b <= r.version,
         b = r.version => base[w].gen = r.trace.gen /\ work[w] = r.trace
  PROVE  /\ WriteReady(r, pc'[w], base'[w], work'[w])
         /\ NewestIsLast(work'[w])
         /\ \A v \in Workers \ {w} : /\ pc'[v] = pc[v] /\ base'[v] = base[v]
                                      /\ work'[v] = work[v]
<1>1. pc'[w] = "save" /\ base'[w].version = b /\ base'[w].gen = base[w].gen
      /\ work'[w] = WithStatus(work[w], s)
  BY DEF Persist, LocalsOK
<1>2. WithStatus(work[w], s).obs = work[w].obs /\ WithStatus(work[w], s).lastTs = work[w].lastTs
  BY StatusType DEF LocalsOK
<1>3. Current(r, base'[w], work'[w])
  BY <1>1, ReportIsOperation DEF Current
<1>4. WriteReady(r, pc'[w], base'[w], work'[w])
  BY <1>1, <1>3 DEF WriteReady
<1>5. NewestIsLast(work'[w])
  BY <1>1, <1>2 DEF NewestIsLast, Newest
<1> QED BY <1>4, <1>5 DEF Persist, LocalsOK

(* The compare-and-set commits the trace of the worker as an operation on  *)
(* the stored one, and the version grows.                                  *)
LEMMA CommitReady ==
  ASSUME IInv, NEW w \in Workers, pc[w] \in {"add", "save", "reset"},
         Matches(base[w]), reg' = Written(work[w])
  PROVE  /\ reg'.version = reg.version + 1 /\ reg'.version > reg.version
         /\ reg'.trace = work[w] /\ NewestIsLast(reg'.trace)
         /\ Register!Operation(reg.trace, reg'.trace)
         /\ pc[w] = "add" => base[w].gen = reg'.trace.gen
<1>1. work[w] \in Trace /\ reg.version \in Nat
  BY DEF IInv, TypeOK, LocalsOK
<1>2. reg'.version = reg.version + 1 /\ reg'.trace = work[w]
  BY <1>1, WrittenType DEF IInv
<1>3. WriteReady(reg, pc[w], base[w], work[w])
  BY DEF IInv, WritesCurrent
<1>4. Register!Operation(reg.trace, work[w])
  BY <1>3 DEF WriteReady, Current, Matches
<1>5. NewestIsLast(work[w])
  BY DEF IInv, NewestKept
<1> QED BY <1>1, <1>2, <1>3, <1>4, <1>5 DEF WriteReady

(* An accepted observation goes on to a save or to the matcher with the    *)
(* trace that was just committed.                                          *)
LEMMA DisposeReady ==
  ASSUME LocalsOK, NEW w \in Workers, NEW r, r.version \in Nat, Dispose(w, r.version),
         NewestIsLast(work[w]), base[w].gen = r.trace.gen, work[w] = r.trace
  PROVE  /\ WriteReady(r, pc'[w], base'[w], work'[w])
         /\ NewestIsLast(work'[w])
         /\ \A v \in Workers \ {w} : /\ pc'[v] = pc[v] /\ base'[v] = base[v]
                                      /\ work'[v] = work[v]
<1>0. {"WARMING_UP", "GPS_ACCEPTED"} \subseteq Statuses \ {"MATCHED"}
  BY DEF Statuses
<1> DEFINE quiet == StationarySuppressed(work[w]) \/ ~Triggered(work[w], obs[w])
<1>1. CASE WarmingUp(work[w])
  BY <1>0, <1>1, PersistReady DEF Dispose
<1>2. CASE ~WarmingUp(work[w]) /\ quiet
  BY <1>0, <1>2, PersistReady DEF Dispose
<1>3. CASE ~WarmingUp(work[w]) /\ ~quiet /\ Cardinality(Context(work[w])) < 2
  BY <1>3, FinishReady DEF Dispose
<1>4. CASE ~WarmingUp(work[w]) /\ ~quiet /\ ~(Cardinality(Context(work[w])) < 2)
  <2>1. /\ pc' = [pc EXCEPT ![w] = "match"] /\ base' = [base EXCEPT ![w].version = r.version]
        /\ work' = work
    BY <1>4 DEF Dispose
  <2>2. work[w].obs # <<>>
    <3>1. SUFFICES ASSUME work[w].obs = <<>> PROVE FALSE
      OBVIOUS
    <3>2. Context(work[w]) = {}
      BY <3>1 DEF Context, Recent
    <3> QED BY <1>4, <3>2, FS_EmptySet
  <2>3. pc'[w] = "match" /\ base'[w].version = r.version /\ base'[w].gen = base[w].gen
    BY <2>1 DEF LocalsOK
  <2>4. \A v \in Workers \ {w} : pc'[v] = pc[v] /\ base'[v] = base[v] /\ work'[v] = work[v]
    BY <2>1 DEF LocalsOK
  <2> QED BY <2>1, <2>2, <2>3, <2>4 DEF WriteReady
<1> QED BY <1>1, <1>2, <1>3, <1>4

LEMMA WritesStep == IInv /\ [Next]_vars => WritesCurrent' /\ NewestKept'
<1> SUFFICES ASSUME IInv, [Next]_vars PROVE WritesCurrent' /\ NewestKept'
  OBVIOUS
<1>0. /\ TypeOK' /\ LocalsOK /\ reg.version \in Nat /\ reg.trace \in Trace
      /\ NewestIsLast(reg.trace)
  BY TypeStep DEF IInv, TypeOK, NewestKept
<1>a. \A w \in Workers : /\ work[w] \in Trace /\ NewestIsLast(work[w])
                         /\ WriteReady(reg, pc[w], base[w], work[w])
                         /\ base[w].version \in Nat
  BY <1>0 DEF IInv, LocalsOK, NewestKept, WritesCurrent
<1>1. ASSUME NEW w \in Ingesters, IngestStep(w) PROVE WritesCurrent' /\ NewestKept'
  <2>0. w \in Workers
    BY DEF Workers
  <2>1. CASE Read(w)
    <3>1. PICK t \in AddResults(reg.trace, obs[w]) : work' = [work EXCEPT ![w] = t]
      BY <2>1 DEF Read
    <3>2. obs[w] \in Observations /\ ~Stale(reg.trace, obs[w]) /\ ~Conflicting(reg.trace, obs[w])
      BY <1>0, <2>1 DEF Read, LocalsOK
    <3>3. Register!Operation(reg.trace, t) /\ t.gen = reg.trace.gen /\ NewestIsLast(t)
      BY <1>0, <3>2, AcceptIsOperation, AddType
    <3>4. pc'[w] = "add" /\ base'[w] = [version |-> reg.version, gen |-> reg.trace.gen]
          /\ work'[w] = t /\ reg' = reg /\ limbo' = limbo
      BY <1>0, <2>0, <2>1, <3>1 DEF Read, LocalsOK
    <3>5. WriteReady(reg', pc'[w], base'[w], work'[w])
      BY <1>0, <3>3, <3>4 DEF WriteReady, Current
    <3>6. \A v \in Workers \ {w} : pc'[v] = pc[v] /\ base'[v] = base[v] /\ work'[v] = work[v]
      BY <1>0, <2>1, <3>1 DEF Read, LocalsOK
    <3> QED BY <1>0, <2>0, <3>3, <3>4, <3>5, <3>6, WorkerStep
  <2>2. CASE \/ ReadStale(w) \/ ReadConflict(w) \/ ReadFails(w)
           \/ MatchRejected(w) \/ SaveConflict(w)
    <3>1. (\E a : Finish(w, a)) /\ reg' = reg /\ limbo' = limbo
      BY <2>2 DEF ReadStale, ReadConflict, ReadFails, MatchRejected, SaveConflict
    <3> QED BY <1>0, <2>0, <3>1, FinishReady, WorkerStep
  <2>3. CASE Add(w)
    <3>1. /\ reg'.version = reg.version + 1 /\ reg'.version > reg.version
          /\ reg'.trace = work[w] /\ NewestIsLast(reg'.trace) /\ base[w].gen = reg'.trace.gen
      BY <2>0, <2>3, CommitReady DEF Add
    <3>2. Dispose(w, reg'.version) /\ reg'.version \in Nat
      BY <1>0, <2>3, <3>1 DEF Add
    <3>3. /\ WriteReady(reg', pc'[w], base'[w], work'[w]) /\ NewestIsLast(work'[w])
          /\ \A v \in Workers \ {w} : /\ pc'[v] = pc[v] /\ base'[v] = base[v]
                                       /\ work'[v] = work[v]
      BY <1>0, <1>a, <2>0, <3>1, <3>2, DisposeReady
    <3> QED BY <1>0, <2>0, <2>3, <3>1, <3>3, WorkerStep DEF Add
  <2>4. CASE AddConflict(w)
    BY <1>0, <1>a, <2>0, <2>4, RetryReady, WorkerStep DEF AddConflict
  <2>5. CASE AddFails(w)
    <3>1. Current(reg, base[w], work[w])
      BY <1>a, <2>0, <2>5 DEF AddFails, WriteReady
    <3> QED BY <1>0, <1>a, <2>0, <2>5, <3>1, RetryReady, WorkerStep DEF AddFails, LoseReply
  <2>6. CASE MatchFound(w)
    <3>1. /\ work[w].obs # <<>> /\ base[w].version <= reg.version
          /\ base[w].version = reg.version => base[w].gen = reg.trace.gen /\ work[w] = reg.trace
      BY <1>a, <2>0, <2>6 DEF MatchFound, WriteReady
    <3> DEFINE u == WithMatch(work[w], Newest(work[w]))
    <3>2. pc'[w] = "save" /\ base' = base /\ work'[w] = u /\ reg' = reg /\ limbo' = limbo
      BY <1>0, <1>a, <2>0, <2>6, <3>1, LatestIsNewest DEF MatchFound, LocalsOK
    <3>3. Register!Operation(work[w], u)
      BY <3>1, MatchIsOperation
    <3>4. u.obs = work[w].obs /\ u.lastTs = work[w].lastTs
      BY <1>a, <2>0, <3>1, MatchType, NewestType
    <3> HIDE DEF u
    <3>5. Current(reg', base'[w], work'[w])
      BY <3>1, <3>2, <3>3 DEF Current
    <3>6. WriteReady(reg', pc'[w], base'[w], work'[w])
      BY <3>2, <3>5 DEF WriteReady
    <3>7. NewestIsLast(work'[w])
      BY <1>a, <2>0, <3>2, <3>4 DEF NewestIsLast, Newest
    <3>8. \A v \in Workers \ {w} : pc'[v] = pc[v] /\ base'[v] = base[v] /\ work'[v] = work[v]
      BY <1>0, <2>6 DEF MatchFound, LocalsOK
    <3> QED BY <1>0, <2>0, <3>2, <3>6, <3>7, <3>8, WorkerStep
  <2>7. CASE MatchNotFound(w)
    <3>1. PICK s \in {"NO_MATCH", "ENGINE_UNAVAILABLE"} : Persist(w, base[w].version, s)
      BY <2>7 DEF MatchNotFound
    <3>2. s \in Statuses \ {"MATCHED"}
      BY DEF Statuses
    <3>3. /\ base[w].version <= reg.version
          /\ base[w].version = reg.version => base[w].gen = reg.trace.gen /\ work[w] = reg.trace
      BY <1>a, <2>0, <2>7 DEF MatchNotFound, WriteReady
    <3>4. reg' = reg /\ limbo' = limbo
      BY <2>7 DEF MatchNotFound
    <3>5. /\ WriteReady(reg', pc'[w], base'[w], work'[w]) /\ NewestIsLast(work'[w])
          /\ \A v \in Workers \ {w} : /\ pc'[v] = pc[v] /\ base'[v] = base[v]
                                       /\ work'[v] = work[v]
      BY <1>0, <1>a, <2>0, <3>1, <3>2, <3>3, <3>4, PersistReady
    <3> QED BY <1>0, <2>0, <3>4, <3>5, WorkerStep
  <2>8. CASE Save(w)
    <3>1. /\ reg'.version = reg.version + 1 /\ reg'.version > reg.version
          /\ NewestIsLast(reg'.trace)
      BY <2>0, <2>8, CommitReady DEF Save
    <3> QED BY <1>0, <2>0, <2>8, <3>1, FinishReady, WorkerStep DEF Save
  <2>9. CASE SaveFails(w)
    <3>1. Current(reg, base[w], work[w])
      BY <1>a, <2>0, <2>9 DEF SaveFails, WriteReady
    <3>2. (\E a : Finish(w, a)) /\ reg' = reg
      BY <2>9 DEF SaveFails
    <3>3. limbo' = limbo \cup {Command(w)}
      BY <2>9 DEF SaveFails, LoseReply
    <3> QED BY <1>0, <2>0, <3>1, <3>2, <3>3, FinishReady, WorkerStep
  <2> QED BY <1>1, <2>1, <2>2, <2>3, <2>4, <2>5, <2>6, <2>7, <2>8, <2>9 DEF IngestStep
<1>2. ASSUME NEW w \in Ingesters, NEW o \in Observations, Receive(w, o)
      PROVE WritesCurrent' /\ NewestKept'
  <2>1. w \in Workers /\ pc'[w] = "read" /\ base' = base /\ work' = work /\ reg' = reg
        /\ limbo' = limbo /\ \A v \in Workers \ {w} : pc'[v] = pc[v]
    BY <1>0, <1>2 DEF Receive, LocalsOK, Workers
  <2>2. WriteReady(reg', pc'[w], base'[w], work'[w])
    BY <2>1 DEF WriteReady
  <2> QED BY <1>0, <1>a, <2>1, <2>2, WorkerStep
<1>3. ASSUME NEW w \in Resetters, ResetStep(w) PROVE WritesCurrent' /\ NewestKept'
  <2>0. w \in Workers
    BY DEF Workers
  <2>1. CASE ResetRead(w)
    <3>1. pc'[w] = "reset" /\ base'[w] = [version |-> reg.version, gen |-> reg.trace.gen]
          /\ work'[w] = Fresh(reg.trace.gen + 1) /\ reg' = reg /\ limbo' = limbo
      BY <1>0, <2>0, <2>1 DEF ResetRead, LocalsOK
    <3>2. WriteReady(reg', pc'[w], base'[w], work'[w])
      BY <1>0, <3>1, ResetIsOperation DEF WriteReady, Current
    <3>3. NewestIsLast(work'[w])
      BY <3>1 DEF NewestIsLast, Fresh
    <3>4. \A v \in Workers \ {w} : pc'[v] = pc[v] /\ base'[v] = base[v] /\ work'[v] = work[v]
      BY <1>0, <2>1 DEF ResetRead, LocalsOK
    <3> QED BY <1>0, <2>0, <3>1, <3>2, <3>3, <3>4, WorkerStep
  <2>2. CASE ReadFails(w)
    BY <1>0, <2>0, <2>2, FinishReady, WorkerStep DEF ReadFails
  <2>3. CASE Reset(w)
    <3>1. /\ reg'.version = reg.version + 1 /\ reg'.version > reg.version
          /\ NewestIsLast(reg'.trace)
      BY <2>0, <2>3, CommitReady DEF Reset
    <3> QED BY <1>0, <2>0, <2>3, <3>1, FinishReady, WorkerStep DEF Reset
  <2>4. CASE ResetConflict(w)
    BY <1>0, <1>a, <2>0, <2>4, RetryReady, WorkerStep DEF ResetConflict
  <2>5. CASE ResetFails(w)
    <3>1. Current(reg, base[w], work[w])
      BY <1>a, <2>0, <2>5 DEF ResetFails, WriteReady
    <3> QED BY <1>0, <2>0, <2>5, <3>1, FinishReady, WorkerStep DEF ResetFails, LoseReply
  <2> QED BY <1>3, <2>1, <2>2, <2>3, <2>4, <2>5 DEF ResetStep
<1>4. ASSUME NEW w \in Resetters, RequestReset(w) PROVE WritesCurrent' /\ NewestKept'
  <2>1. w \in Workers /\ pc'[w] = "read" /\ base' = base /\ work' = work /\ reg' = reg
        /\ limbo' = limbo /\ \A v \in Workers \ {w} : pc'[v] = pc[v]
    BY <1>0, <1>4 DEF RequestReset, LocalsOK, Workers
  <2>2. WriteReady(reg', pc'[w], base'[w], work'[w])
    BY <2>1 DEF WriteReady
  <2> QED BY <1>0, <1>a, <2>1, <2>2, WorkerStep
<1>5. ASSUME NEW c \in limbo, ExecuteLate(c) PROVE WritesCurrent' /\ NewestKept'
  <2>1. c.trace \in Trace /\ NewestIsLast(c.trace)
    BY DEF IInv, TypeOK, Write, NewestKept
  <2>2. /\ reg' = reg \/ reg'.version > reg.version
        /\ reg'.version \in Nat /\ NewestIsLast(reg'.trace)
    BY <1>0, <1>5, <2>1, WrittenType DEF ExecuteLate, IInv
  <2>3. UNCHANGED <<pc, base, work>> /\ limbo' \subseteq limbo
    BY <1>5 DEF ExecuteLate
  <2>4. \A v \in Workers : WriteReady(reg', pc'[v], base'[v], work'[v])
    BY <1>0, <1>a, <2>2, <2>3, StillCurrent
  <2>5. \A d \in limbo' : Current(reg', d.base, d.trace) /\ NewestIsLast(d.trace)
    <3> TAKE d \in limbo'
    <3>1. Current(reg, d.base, d.trace) /\ NewestIsLast(d.trace) /\ d.base.version \in Nat
      BY <2>3 DEF IInv, WritesCurrent, NewestKept, TypeOK, Write
    <3> QED BY <1>0, <2>2, <3>1, StillCurrent
  <2>6. WritesCurrent'
    BY <2>4, <2>5 DEF WritesCurrent
  <2> QED BY <1>a, <2>2, <2>3, <2>5, <2>6 DEF NewestKept
<1>6. CASE Expire
  <2>1. \A v \in Workers : pc'[v] = "idle" /\ work'[v] = work[v]
    BY <1>6 DEF Expire
  <2>2. limbo' = {} /\ NewestIsLast(reg'.trace)
    BY <1>6 DEF Expire, Absent, Fresh, NewestIsLast
  <2>3. WritesCurrent'
    BY <2>1, <2>2 DEF WritesCurrent, WriteReady
  <2> QED BY <1>a, <2>1, <2>2, <2>3 DEF NewestKept
<1>7. CASE UNCHANGED vars
  <2>1. UNCHANGED <<reg, pc, base, work, limbo>>
    BY <1>7 DEF vars
  <2> QED BY <1>0, <1>a, <2>1 DEF IInv, WritesCurrent, NewestKept
<1> QED BY <1>1, <1>2, <1>3, <1>4, <1>5, <1>6, <1>7 DEF Next
-----------------------------------------------------------------------------
(* The theorems.                                                           *)

LEMMA InitInv == Init => IInv
<1> SUFFICES ASSUME Init PROVE IInv
  OBVIOUS
<1>1. Fresh(1) \in Trace /\ NewestIsLast(Fresh(1))
  BY FreshType DEF NewestIsLast, Fresh
<1>2. 0 \in 0..(MaxRetries - 1) /\ MaxIngests \in Nat /\ MaxResets \in Nat /\ MaxFaults \in Nat
  BY BoundsAssumption
<1>3. LocalsOK
  BY <1>1, <1>2 DEF Init, LocalsOK, NoBase, Replies, Workers
<1>4. TypeOK
  BY <1>1, <1>2, <1>3 DEF Init, TypeOK, Absent
<1>5. WritesCurrent /\ NewestKept
  BY <1>1 DEF Init, WritesCurrent, WriteReady, NewestKept, Absent
<1> QED BY <1>4, <1>5 DEF IInv

LEMMA Invariance == Spec => []IInv
<1>1. IInv /\ [Next]_vars => IInv'
  BY TypeStep, WritesStep DEF IInv
<1> QED BY InitInv, <1>1, PTL DEF Spec

(* Every variable keeps its type, for any number of requests, retries,     *)
(* lost replies and resets.                                                *)
THEOREM TypeCorrect == Spec => []TypeOK
<1>1. IInv => TypeOK
  BY DEF IInv
<1> QED BY Invariance, <1>1, PTL

(* A write under way is always an operation on the stored trace or carries *)
(* a version that is gone: what save_with_expected_version lets through is *)
(* never computed from an older trace.                                     *)
THEOREM WritesAlwaysCurrent == Spec => []WritesCurrent
<1>1. IInv => WritesCurrent
  BY DEF IInv
<1> QED BY Invariance, <1>1, PTL

(* Every step is one operation of the atomic register, its expiry, or      *)
(* leaves the register alone.                                              *)
Stored == Register!Operation(reg.trace, reg'.trace) \/ (Expire /\ reg' = Absent)

LEMMA StoreStep == IInv /\ [Next]_vars => reg' = reg \/ Stored
<1> SUFFICES ASSUME IInv, [Next]_vars, reg' # reg PROVE Stored
  OBVIOUS
<1>1. ASSUME NEW w \in Workers, pc[w] \in {"add", "save", "reset"},
             Matches(base[w]), reg' = Written(work[w])
      PROVE  Stored
  BY <1>1, CommitReady DEF Stored
<1>2. ASSUME NEW w \in Ingesters, IngestStep(w) PROVE Stored
  <2>1. CASE Add(w) \/ Save(w)
    BY <1>1, <2>1 DEF Add, Save, Workers
  <2>2. CASE ~(Add(w) \/ Save(w))
    BY <1>2, <2>2 DEF IngestStep, Read, ReadStale, ReadConflict, ReadFails, AddConflict,
       AddFails, MatchFound, MatchNotFound, MatchRejected, SaveConflict, SaveFails
  <2> QED BY <2>1, <2>2
<1>3. ASSUME NEW w \in Resetters, ResetStep(w) PROVE Stored
  <2>1. CASE Reset(w)
    BY <1>1, <2>1 DEF Reset, Workers
  <2>2. CASE ~Reset(w)
    BY <1>3, <2>2 DEF ResetStep, ResetRead, ReadFails, ResetConflict, ResetFails
  <2> QED BY <2>1, <2>2
<1>4. ASSUME NEW c \in limbo, ExecuteLate(c) PROVE Stored
  <2>1. Matches(c.base) /\ reg' = Written(c.trace)
    BY <1>4 DEF ExecuteLate
  <2>2. Register!Operation(reg.trace, c.trace)
    BY <2>1 DEF IInv, WritesCurrent, Current, Matches
  <2>3. reg'.trace = c.trace
    BY <2>1 DEF Written
  <2> QED BY <2>2, <2>3 DEF Stored
<1>5. CASE Expire
  BY <1>5 DEF Expire, Stored
<1> QED BY <1>2, <1>3, <1>4, <1>5 DEF Next, vars, Receive, RequestReset

LEMMA RegisterStep == IInv /\ [Next]_vars => [Register!Next]_(reg.trace)
  BY StoreStep, SameFresh DEF Stored, Absent, Register!Next, Register!Forget

(* The retry loops over compare-and-set implement the atomic register: no  *)
(* interleaving of requests, lost replies and late writes loses an update  *)
(* or records a match for an observation that is not the newest.           *)
THEOREM RegisterImplemented == Spec => ImplementsRegister
<1>1. Init => Register!Init
  BY SameFresh DEF Init, Absent, Register!Init
<1> QED BY Invariance, RegisterStep, <1>1, PTL DEF Spec, ImplementsRegister, Register!Spec
-----------------------------------------------------------------------------
(* Reset isolation.  Its inductive invariant: every trace that may still   *)
(* be stored holds only observations begun in its own generation, and an   *)
(* ingestion past its first read was begun in the generation it last read. *)

Isolated(t) == \A o \in t.seen : <<o, t.gen>> \in begun

Holding == {"add", "match", "save", "reset"}

BegunKept ==
  /\ Isolated(reg.trace)
  /\ \A c \in limbo : Isolated(c.trace)
  /\ \A w \in Workers : pc[w] \in Holding => Isolated(work[w])
  /\ \A w \in Ingesters :
        pc[w] = "add" \/ (pc[w] = "read" /\ attempt[w] > 0) => <<obs[w], base[w].gen>> \in begun

(* A step of worker w, given what it establishes for w itself.             *)
LEMMA BegunWorker ==
  ASSUME BegunKept, NEW w \in Workers, begun \subseteq begun',
         reg' = reg \/ (pc[w] \in Holding /\ reg'.trace = work[w]),
         limbo' = limbo \/ (pc[w] \in Holding /\ limbo' = limbo \cup {Command(w)}),
         \A v \in Workers \ {w} : /\ pc'[v] = pc[v] /\ base'[v] = base[v] /\ work'[v] = work[v]
                                  /\ obs'[v] = obs[v] /\ attempt'[v] = attempt[v],
         pc'[w] \in Holding => \A o \in work'[w].seen : <<o, work'[w].gen>> \in begun',
         w \in Ingesters /\ (pc'[w] = "add" \/ (pc'[w] = "read" /\ attempt'[w] > 0))
           => <<obs'[w], base'[w].gen>> \in begun'
  PROVE  BegunKept'
<1>1. Isolated(reg.trace)' /\ \A c \in limbo' : Isolated(c.trace)'
  BY DEF BegunKept, Isolated, Command
<1>2. \A v \in Workers : pc'[v] \in Holding => Isolated(work[v])'
  BY DEF BegunKept, Isolated
<1>3. \A v \in Ingesters :
        pc'[v] = "add" \/ (pc'[v] = "read" /\ attempt'[v] > 0) => <<obs'[v], base'[v].gen>> \in begun'
  BY DEF BegunKept, Workers
<1> QED BY <1>1, <1>2, <1>3 DEF BegunKept

(* A request that is answered or tried again leaves the others alone.      *)
LEMMA FinishOthers ==
  ASSUME LocalsOK, NEW w \in Workers, NEW answer, Finish(w, answer)
  PROVE  /\ pc'[w] = "idle"
         /\ \A v \in Workers \ {w} : /\ pc'[v] = pc[v] /\ base'[v] = base[v]
                                      /\ work'[v] = work[v] /\ obs'[v] = obs[v]
                                      /\ attempt'[v] = attempt[v]
  BY DEF LocalsOK, Finish

LEMMA RetryOthers ==
  ASSUME LocalsOK, NEW w \in Workers, RetryOrGiveUp(w)
  PROVE  /\ pc'[w] \in {"idle", "read"}
         /\ pc'[w] = "read" => obs'[w] = obs[w] /\ base'[w] = base[w]
         /\ \A v \in Workers \ {w} : /\ pc'[v] = pc[v] /\ base'[v] = base[v]
                                      /\ work'[v] = work[v] /\ obs'[v] = obs[v]
                                      /\ attempt'[v] = attempt[v]
<1>1. CASE attempt[w] + 1 < MaxRetries
  BY <1>1 DEF RetryOrGiveUp, LocalsOK
<1>2. CASE ~(attempt[w] + 1 < MaxRetries)
  BY <1>2, FinishOthers DEF RetryOrGiveUp
<1> QED BY <1>1, <1>2

LEMMA DisposeOthers ==
  ASSUME LocalsOK, NEW w \in Workers, NEW b, Dispose(w, b)
  PROVE  /\ pc'[w] \in {"idle", "save", "match"}
         /\ pc'[w] # "idle" => work'[w].seen = work[w].seen /\ work'[w].gen = work[w].gen
         /\ \A v \in Workers \ {w} : /\ pc'[v] = pc[v] /\ base'[v] = base[v]
                                      /\ work'[v] = work[v] /\ obs'[v] = obs[v]
                                      /\ attempt'[v] = attempt[v]
<1>0. /\ work[w] \in Trace /\ {"WARMING_UP", "GPS_ACCEPTED"} \subseteq Statuses
  BY DEF LocalsOK, Statuses
<1>1. CASE \E s \in Statuses : Persist(w, b, s)
  <2>1. PICK s \in Statuses : Persist(w, b, s)
    BY <1>1
  <2>2. work'[w] = WithStatus(work[w], s) /\ pc'[w] = "save"
    BY <2>1 DEF Persist, LocalsOK
  <2>3. work'[w].seen = work[w].seen /\ work'[w].gen = work[w].gen
    BY <1>0, <2>2, StatusType
  <2> QED BY <2>1, <2>2, <2>3 DEF Persist, LocalsOK
<1>2. CASE Finish(w, "WARMING_UP")
  BY <1>2, FinishOthers
<1>3. CASE /\ pc' = [pc EXCEPT ![w] = "match"]
           /\ base' = [base EXCEPT ![w].version = b]
           /\ UNCHANGED <<obs, attempt, work, reply>>
  BY <1>3 DEF LocalsOK
<1> QED BY <1>0, <1>1, <1>2, <1>3 DEF Dispose

LEMMA BegunStep == IInv /\ BegunKept /\ [Next]_vars => BegunKept'
<1> SUFFICES ASSUME IInv, BegunKept, [Next]_vars PROVE BegunKept'
  OBVIOUS
<1>0. LocalsOK /\ reg.trace \in Trace
  BY DEF IInv, TypeOK
<1>1. ASSUME NEW w \in Ingesters, IngestStep(w) PROVE BegunKept'
  <2>0. w \in Workers /\ work[w] \in Trace /\ attempt[w] \in Nat
    BY <1>0, BoundsAssumption DEF Workers, LocalsOK
  <2>1. CASE Read(w)
    <3>1. PICK t \in AddResults(reg.trace, obs[w]) : work' = [work EXCEPT ![w] = t]
      BY <2>1 DEF Read
    <3>2. obs[w] \in Observations
      BY <1>0, <2>1 DEF Read, LocalsOK
    <3>3. t.seen \subseteq reg.trace.seen \cup {obs[w]} /\ t.gen = reg.trace.gen
      BY <1>0, <3>2, AddType
    <3>4. begun \subseteq begun'
      BY <2>1 DEF Read, NoteBegun
    <3>5. <<obs[w], reg.trace.gen>> \in begun'
      <4>1. CASE attempt[w] = 0
        BY <2>1, <4>1 DEF Read, NoteBegun
      <4>2. CASE attempt[w] # 0
        BY <2>0, <2>1, <3>4, <4>2 DEF Read, ResetSeen, BegunKept
      <4> QED BY <4>1, <4>2
    <3>6. /\ pc'[w] = "add" /\ work'[w] = t /\ obs' = obs /\ base'[w].gen = reg.trace.gen
          /\ reg' = reg /\ limbo' = limbo
      BY <1>0, <2>0, <2>1, <3>1 DEF Read, LocalsOK
    <3>7. \A o \in t.seen : <<o, t.gen>> \in begun'
      BY <3>3, <3>4, <3>5 DEF BegunKept, Isolated
    <3>8. \A v \in Workers \ {w} : /\ pc'[v] = pc[v] /\ base'[v] = base[v] /\ work'[v] = work[v]
                                   /\ obs'[v] = obs[v] /\ attempt'[v] = attempt[v]
      BY <1>0, <2>1, <3>1 DEF Read, LocalsOK
    <3> QED BY <2>0, <3>4, <3>5, <3>6, <3>7, <3>8, BegunWorker
  <2>2. CASE \/ ReadStale(w) \/ ReadConflict(w) \/ ReadFails(w)
           \/ MatchRejected(w) \/ SaveConflict(w)
    <3>1. (\E a : Finish(w, a)) /\ reg' = reg /\ limbo' = limbo /\ begun \subseteq begun'
      BY <2>2 DEF ReadStale, ReadConflict, ReadFails, MatchRejected, SaveConflict, NoteBegun
    <3> QED BY <1>0, <2>0, <3>1, FinishOthers, BegunWorker DEF Holding
  <2>3. CASE Add(w)
    <3>1. reg'.trace = work[w] /\ pc[w] \in Holding /\ limbo' = limbo /\ begun' = begun
      BY <2>3 DEF Add, Written, Holding
    <3>2. Isolated(work[w])
      BY <2>0, <3>1 DEF BegunKept
    <3> QED BY <1>0, <2>0, <2>3, <3>1, <3>2, DisposeOthers, BegunWorker DEF Add, Isolated, Holding
  <2>4. CASE AddConflict(w) \/ AddFails(w)
    <3>1. /\ pc[w] = "add" /\ reg' = reg /\ begun' = begun /\ RetryOrGiveUp(w)
          /\ limbo' = limbo \/ limbo' = limbo \cup {Command(w)}
      BY <2>4 DEF AddConflict, AddFails, LoseReply
    <3> QED BY <1>0, <2>0, <3>1, RetryOthers, BegunWorker DEF BegunKept, Holding
  <2>5. CASE MatchFound(w) \/ MatchNotFound(w)
    <3>1. /\ pc[w] = "match" /\ pc' = [pc EXCEPT ![w] = "save"] /\ UNCHANGED <<reg, limbo, begun, obs, attempt>>
          /\ work'[w].seen = work[w].seen /\ work'[w].gen = work[w].gen
          /\ \A v \in Workers \ {w} : work'[v] = work[v] /\ base'[v] = base[v]
      <4>1. CASE MatchFound(w)
        <5>1. Latest(work[w]) \in Observations
          BY <2>0, <4>1, LatestIsNewest, NewestType
          DEF MatchFound, IInv, WritesCurrent, WriteReady, NewestKept
        <5>2. work'[w] = WithMatch(work[w], Latest(work[w]))
          BY <1>0, <2>0, <4>1 DEF MatchFound, LocalsOK
        <5> QED BY <1>0, <2>0, <4>1, <5>1, <5>2, MatchType DEF MatchFound, LocalsOK
      <4>2. CASE MatchNotFound(w)
        <5>1. PICK s \in {"NO_MATCH", "ENGINE_UNAVAILABLE"} : Persist(w, base[w].version, s)
          BY <4>2 DEF MatchNotFound
        <5>2. s \in Statuses /\ work'[w] = WithStatus(work[w], s)
          BY <1>0, <2>0, <5>1 DEF Statuses, Persist, LocalsOK
        <5> QED BY <1>0, <2>0, <4>2, <5>1, <5>2, StatusType DEF MatchNotFound, Persist, LocalsOK
      <4> QED BY <2>5, <4>1, <4>2
    <3>2. Isolated(work[w])
      BY <2>0, <3>1 DEF BegunKept, Holding
    <3>3. pc'[w] = "save" /\ \A v \in Workers \ {w} : pc'[v] = pc[v]
      BY <1>0, <2>0, <3>1 DEF LocalsOK
    <3> QED BY <2>0, <3>1, <3>2, <3>3, BegunWorker DEF Isolated
  <2>6. CASE Save(w)
    <3>1. reg'.trace = work[w] /\ pc[w] \in Holding /\ limbo' = limbo /\ begun' = begun
      BY <2>6 DEF Save, Written, Holding
    <3> QED BY <1>0, <2>0, <2>6, <3>1, FinishOthers, BegunWorker DEF Save, Holding
  <2>7. CASE SaveFails(w)
    <3>1. /\ pc[w] \in Holding /\ limbo' = limbo \cup {Command(w)}
          /\ reg' = reg /\ begun' = begun /\ \E a : Finish(w, a)
      BY <2>7 DEF SaveFails, LoseReply, Holding
    <3> QED BY <1>0, <2>0, <3>1, FinishOthers, BegunWorker DEF Holding
  <2> QED BY <1>1, <2>1, <2>2, <2>3, <2>4, <2>5, <2>6, <2>7 DEF IngestStep
<1>2. ASSUME NEW w \in Ingesters, NEW o \in Observations, Receive(w, o) PROVE BegunKept'
  <2>1. /\ w \in Workers /\ pc'[w] = "read" /\ attempt'[w] = 0
        /\ UNCHANGED <<reg, base, work, limbo, begun>>
        /\ \A v \in Workers \ {w} : pc'[v] = pc[v] /\ obs'[v] = obs[v] /\ attempt'[v] = attempt[v]
    BY <1>0, <1>2 DEF Receive, LocalsOK, Workers
  <2>2. ~(pc'[w] = "add" \/ (pc'[w] = "read" /\ attempt'[w] > 0)) /\ pc'[w] \notin Holding
    BY <2>1 DEF Holding
  <2>3. \A v \in Workers \ {w} : /\ pc'[v] = pc[v] /\ base'[v] = base[v] /\ work'[v] = work[v]
                                 /\ obs'[v] = obs[v] /\ attempt'[v] = attempt[v]
    BY <2>1
  <2> QED BY <2>1, <2>2, <2>3, BegunWorker
<1>3. ASSUME NEW w \in Resetters, ResetStep(w) PROVE BegunKept'
  <2>0. w \in Workers /\ w \notin Ingesters
    BY WorkersAssumption DEF Workers
  <2>1. CASE ResetRead(w)
    <3>1. /\ work'[w].seen = {} /\ UNCHANGED <<reg, limbo, begun, obs, attempt>>
          /\ \A v \in Workers \ {w} : pc'[v] = pc[v] /\ base'[v] = base[v] /\ work'[v] = work[v]
      BY <1>0, <2>0, <2>1 DEF ResetRead, LocalsOK, Fresh
    <3> QED BY <2>0, <3>1, BegunWorker
  <2>2. CASE ReadFails(w)
    BY <1>0, <2>0, <2>2, FinishOthers, BegunWorker DEF ReadFails, Holding
  <2>3. CASE Reset(w)
    <3>1. reg'.trace = work[w] /\ pc[w] \in Holding /\ limbo' = limbo /\ begun' = begun
      BY <2>3 DEF Reset, Written, Holding
    <3> QED BY <1>0, <2>0, <2>3, <3>1, FinishOthers, BegunWorker DEF Reset, Holding
  <2>4. CASE ResetConflict(w)
    BY <1>0, <2>0, <2>4, RetryOthers, BegunWorker DEF ResetConflict, Holding
  <2>5. CASE ResetFails(w)
    <3>1. /\ pc[w] \in Holding /\ limbo' = limbo \cup {Command(w)}
          /\ reg' = reg /\ begun' = begun /\ \E a : Finish(w, a)
      BY <2>5 DEF ResetFails, LoseReply, Holding
    <3> QED BY <1>0, <2>0, <3>1, FinishOthers, BegunWorker DEF Holding
  <2> QED BY <1>3, <2>1, <2>2, <2>3, <2>4, <2>5 DEF ResetStep
<1>4. ASSUME NEW w \in Resetters, RequestReset(w) PROVE BegunKept'
  <2>1. /\ w \in Workers /\ w \notin Ingesters /\ pc'[w] = "read"
        /\ UNCHANGED <<reg, obs, base, work, limbo, begun>>
        /\ \A v \in Workers \ {w} : pc'[v] = pc[v] /\ attempt'[v] = attempt[v]
    BY <1>0, <1>4, WorkersAssumption DEF RequestReset, LocalsOK, Workers
  <2> QED BY <2>1, BegunWorker DEF Holding
<1>5. ASSUME NEW c \in limbo, ExecuteLate(c) PROVE BegunKept'
  <2>1. UNCHANGED <<pc, obs, attempt, base, work, begun>> /\ limbo' \subseteq limbo
        /\ (reg' = reg \/ reg'.trace = c.trace)
    BY <1>5 DEF ExecuteLate, Written
  <2> QED BY <2>1 DEF BegunKept, Isolated
<1>6. CASE Expire
  BY <1>6 DEF Expire, Absent, Fresh, BegunKept, Isolated, Holding, Workers
<1>7. CASE UNCHANGED vars
  BY <1>7 DEF vars, BegunKept, Isolated
<1> QED BY <1>1, <1>2, <1>3, <1>4, <1>5, <1>6, <1>7 DEF Next

(* A reset isolates: the stored trace holds only observations of requests  *)
(* that first read its own generation (realtime.py:166-170).               *)
THEOREM ResetIsolated == Spec => []ResetIsolates
<1>1. Init => BegunKept
  BY DEF Init, Absent, Fresh, BegunKept, Isolated, Holding, Workers
<1>2. BegunKept => ResetIsolates
  BY DEF BegunKept, Isolated, ResetIsolates
<1> QED BY Invariance, BegunStep, <1>1, <1>2, PTL DEF Spec
-----------------------------------------------------------------------------
(* Where a driver is located.                                              *)

MatchBehind(t) == t.matchTime <= t.lastTs

(* An observation added leaves the match or clears it, and is the newest.  *)
LEMMA AddedNewest ==
  ASSUME NEW t \in Trace, NEW o \in Observations, NEW u \in AddResults(t, o), u # t
  PROVE  /\ u.lastTs = o.ts /\ u.obs # <<>> /\ Newest(u) = o
         /\ \/ u.matchTime = t.matchTime /\ u.matched = t.matched
            \/ u.matchTime = 0
<1> DEFINE a == AfterGap(t, o)
           v == Moved(a, o)
<1>1. a \in Trace /\ v \in Trace
  BY AfterGapType, MovedType
<1>2. \/ a.matchTime = t.matchTime /\ a.matched = t.matched
      \/ a.matchTime = 0
  BY DEF AfterGap, Trace
<1> HIDE DEF a
<1>3. v.matchTime = a.matchTime /\ v.matched = a.matched
  BY <1>1 DEF Moved, Trace
<1>4. PICK kept \in CleanedUp(v.seen \cup {o}) :
        u = [v EXCEPT !.obs = Push(v.obs, o), !.seen = kept, !.lastTs = o.ts,
                      !.received = @ + 1]
  BY DEF AddResults, a
<1> HIDE DEF v
<1>5. v.obs \in Seq(Observations)
  BY <1>1 DEF Trace
<1>6. u.obs = Push(v.obs, o) /\ u.lastTs = o.ts /\ u.matchTime = v.matchTime
        /\ u.matched = v.matched
  BY <1>1, <1>4 DEF Trace
<1> QED BY <1>2, <1>3, <1>5, <1>6, PushType DEF Newest

(* The location is that of the last accepted time at the latest.           *)
LEMMA LocatedBehind ==
  ASSUME NEW t \in Trace, MatchBehind(t), NewestIsLast(t), NEW when \in Nat
  PROVE  LocatedTime(t, when) \in Nat /\ LocatedTime(t, when) <= t.lastTs
  BY DEF LocatedTime, MatchBehind, NewestIsLast, Trace

LEMMA AcceptAdvances ==
  ASSUME NEW t \in Trace, MatchBehind(t), NewestIsLast(t),
         NEW o \in Observations, ~Stale(t, o), NEW u \in AddResults(t, o)
  PROVE  /\ MatchBehind(u)
         /\ \A when \in Nat : u.lastTs <= when => LocatedTime(t, when) <= LocatedTime(u, when)
<1>1. t.lastTs \in Nat /\ t.matchTime \in Nat /\ o.ts \in Nat /\ t.lastTs <= o.ts
  BY ObservationsAssumption DEF Trace, Stale
<1>2. CASE u = t
  BY <1>2, LocatedBehind
<1>3. CASE u # t
  <2>1. /\ u.lastTs = o.ts /\ u.obs # <<>> /\ Newest(u) = o
        /\ \/ u.matchTime = t.matchTime /\ u.matched = t.matched
           \/ u.matchTime = 0
    BY <1>3, AddedNewest
  <2>2. MatchBehind(u)
    BY <1>1, <2>1 DEF MatchBehind
  <2>3. ASSUME NEW when \in Nat, u.lastTs <= when
        PROVE  LocatedTime(t, when) <= LocatedTime(u, when)
    <3>1. LocatedTime(t, when) \in Nat /\ LocatedTime(t, when) <= o.ts
      BY <1>1, LocatedBehind
    <3>2. CASE u.matched # NoObs /\ u.matchTime # 0
      BY <1>1, <2>1, <2>3, <3>2 DEF LocatedTime, MatchBehind
    <3>3. CASE ~(u.matched # NoObs /\ u.matchTime # 0)
      <4>1. LocatedTime(u, when) = o.ts
        BY <2>1, <2>3, <3>3 DEF LocatedTime
      <4> QED BY <3>1, <4>1
    <3> QED BY <3>2, <3>3
  <2> QED BY <2>2, <2>3
<1> QED BY <1>2, <1>3

LEMMA OperationAdvances ==
  ASSUME NEW t \in Trace, MatchBehind(t), NewestIsLast(t),
         NEW u, Register!Operation(t, u)
  PROVE  /\ MatchBehind(u)
         /\ u.gen = t.gen =>
              \A when \in Nat : u.lastTs <= when => LocatedTime(t, when) <= LocatedTime(u, when)
<1>1. CASE Register!AcceptStep(t, u)
  BY <1>1, AcceptAdvances, SameGuards, SameAddResults DEF Register!AcceptStep
<1>2. CASE Register!ReportStep(t, u)
  <2>1. PICK s \in Statuses : u = WithStatus(t, s)
    BY <1>2 DEF Register!ReportStep, Register!Statuses, Statuses,
       Register!WithStatus, WithStatus
  <2>2. u.matchTime = t.matchTime /\ u.matched = t.matched /\ u.obs = t.obs
          /\ u.lastTs = t.lastTs
    BY <2>1 DEF WithStatus, Trace
  <2>3. \A when \in Nat : LocatedTime(u, when) = LocatedTime(t, when)
    BY <2>2 DEF LocatedTime, Newest
  <2> QED BY <2>2, <2>3, LocatedBehind DEF MatchBehind
<1>3. CASE Register!MatchStep(t, u)
  <2>1. t.obs # <<>> /\ u = WithMatch(t, Newest(t))
    BY <1>3 DEF Register!MatchStep, Register!Newest, Newest, Register!WithMatch, WithMatch
  <2>2. Newest(t) \in Observations /\ t.lastTs \in Nat \ {0}
    BY <2>1, NewestType, ObservationsAssumption DEF NewestIsLast
  <2>3. u.matchTime = t.lastTs /\ u.matched # NoObs /\ u.lastTs = t.lastTs
    BY <2>1, <2>2, ObservationsAssumption DEF WithMatch, Trace
  <2>4. \A when \in Nat : u.lastTs <= when => LocatedTime(u, when) = t.lastTs
    BY <2>2, <2>3 DEF LocatedTime
  <2> QED BY <2>2, <2>3, <2>4, LocatedBehind DEF MatchBehind
<1>4. CASE Register!ResetStep(t, u)
  <2>1. u = Fresh(t.gen + 1)
    BY <1>4, SameFresh DEF Register!ResetStep
  <2>2. u.gen # t.gen /\ u.matchTime = 0 /\ u.lastTs = 0
    BY <2>1 DEF Fresh, Trace
  <2> QED BY <2>2 DEF MatchBehind
<1> QED BY <1>1, <1>2, <1>3, <1>4 DEF Register!Operation

LEMMA LocationStep ==
  IInv /\ MatchBehind(reg.trace) /\ [Next]_vars =>
    /\ MatchBehind(reg.trace)'
    /\ \A when \in Nat :
         /\ reg'.version > reg.version /\ reg'.trace.gen = reg.trace.gen
         /\ reg'.trace.lastTs <= when
         => LocatedTime(reg.trace, when) <= LocatedTime(reg'.trace, when)
<1> SUFFICES ASSUME IInv, MatchBehind(reg.trace), [Next]_vars
             PROVE  /\ MatchBehind(reg'.trace)
                    /\ \A when \in Nat :
                         /\ reg'.version > reg.version /\ reg'.trace.gen = reg.trace.gen
                         /\ reg'.trace.lastTs <= when
                         => LocatedTime(reg.trace, when) <= LocatedTime(reg'.trace, when)
  BY DEF MatchBehind
<1>1. reg.trace \in Trace /\ NewestIsLast(reg.trace) /\ reg.version \in Nat
  BY DEF IInv, TypeOK, NewestKept
<1>2. CASE reg' = reg
  BY <1>1, <1>2
<1>3. CASE reg' = Absent
  BY <1>1, <1>3 DEF Absent, Fresh, MatchBehind
<1>4. CASE Register!Operation(reg.trace, reg'.trace)
  BY <1>1, <1>4, OperationAdvances
<1> QED BY <1>2, <1>3, <1>4, StoreStep DEF Stored

(* A driver's location never goes back nor is lost, although it is taken   *)
(* from a match that may be older than the newest observation, for any     *)
(* number of requests that race with it.                                   *)
THEOREM LocationNeverBack == Spec => LocationAdvances
<1> DEFINE Step == \A when \in {o.ts : o \in Observations} :
                     /\ reg'.version > reg.version /\ reg'.trace.gen = reg.trace.gen
                     /\ reg'.trace.lastTs <= when
                     => LocatedTime(reg.trace, when) <= LocatedTime(reg'.trace, when)
<1>1. Init => MatchBehind(reg.trace)
  BY DEF Init, Absent, Fresh, MatchBehind
<1>2. IInv /\ MatchBehind(reg.trace) /\ [Next]_vars => MatchBehind(reg.trace)'
  BY LocationStep
<1>3. IInv /\ MatchBehind(reg.trace) /\ [Next]_vars => [Step]_vars
  BY LocationStep, ObservationsAssumption
<1> QED BY Invariance, <1>1, <1>2, <1>3, PTL DEF Spec, LocationAdvances
-----------------------------------------------------------------------------
(* The order and the spacing of the buffer.                                *)

(* Neighbours are in event order and no further apart than the gap.        *)
SpacedOut(b) ==
  /\ \A i, j \in DOMAIN b : i <= j => b[i].ts <= b[j].ts
  /\ \A i \in DOMAIN b : i + 1 \in DOMAIN b => b[i + 1].ts <= b[i].ts + GapThreshold

(* Appending at the end, after dropping the oldest, keeps the spacing.     *)
LEMMA PushSpaced ==
  ASSUME NEW b \in Seq(Observations), SpacedOut(b), NEW o \in Observations,
         b # <<>> => /\ b[Len(b)].ts <= o.ts
                     /\ o.ts <= b[Len(b)].ts + GapThreshold
  PROVE  SpacedOut(Push(b, o))
<1> DEFINE c == IF Len(b) = MaxBuffer THEN Tail(b) ELSE b
<1>1. c \in Seq(Observations) /\ SpacedOut(c)
        /\ (c # <<>> => b # <<>> /\ c[Len(c)] = b[Len(b)])
  <2>1. CASE Len(b) = MaxBuffer
    <3>1. b # <<>> /\ Len(b) \in Nat \ {0}
      BY <2>1, ThresholdsAssumption
    <3>2. /\ Tail(b) \in Seq(Observations) /\ Len(Tail(b)) = Len(b) - 1
          /\ DOMAIN Tail(b) = 1..(Len(b) - 1) /\ DOMAIN b = 1..Len(b)
          /\ \A i \in 1..(Len(b) - 1) : Tail(b)[i] = b[i + 1]
      BY <3>1
    <3>3. SpacedOut(Tail(b))
      <4>1. \A i, j \in DOMAIN Tail(b) : i <= j => Tail(b)[i].ts <= Tail(b)[j].ts
        BY <3>1, <3>2 DEF SpacedOut
      <4>2. \A i \in DOMAIN Tail(b) : i + 1 \in DOMAIN Tail(b) =>
              Tail(b)[i + 1].ts <= Tail(b)[i].ts + GapThreshold
        BY <3>1, <3>2 DEF SpacedOut
      <4> QED BY <4>1, <4>2 DEF SpacedOut
    <3>4. Tail(b) # <<>> => Tail(b)[Len(Tail(b))] = b[Len(b)]
      BY <3>1, <3>2
    <3> QED BY <2>1, <3>1, <3>2, <3>3, <3>4
  <2>2. CASE Len(b) # MaxBuffer
    BY <2>2
  <2> QED BY <2>1, <2>2
<1>2. Push(b, o) = Append(c, o)
  BY DEF Push
<1>3. c # <<>> => c[Len(c)].ts <= o.ts /\ o.ts <= c[Len(c)].ts + GapThreshold
  BY <1>1
<1> HIDE DEF c
<1> DEFINE d == Append(c, o)
<1>4. /\ DOMAIN d = 1..(Len(c) + 1) /\ DOMAIN c = 1..Len(c) /\ Len(c) \in Nat
      /\ d[Len(c) + 1] = o /\ \A i \in 1..Len(c) : d[i] = c[i]
      /\ Len(c) # 0 => c # <<>>
  BY <1>1
<1>5. \A i \in DOMAIN d : d[i].ts \in Nat
  BY <1>1, <1>4, ObservationsAssumption
<1> HIDE DEF d
<1>6. \A i, j \in DOMAIN d : i <= j => d[i].ts <= d[j].ts
  <2> SUFFICES ASSUME NEW i \in DOMAIN d, NEW j \in DOMAIN d, i <= j
               PROVE  d[i].ts <= d[j].ts
    OBVIOUS
  <2>1. CASE i = j
    BY <1>5, <2>1
  <2>2. CASE j <= Len(c)
    BY <1>1, <1>4, <2>2 DEF SpacedOut
  <2>3. CASE i <= Len(c) /\ j = Len(c) + 1
    <3>1. Len(c) \in DOMAIN d /\ c[Len(c)].ts \in Nat /\ o.ts \in Nat
      BY <1>4, <1>5, <2>3
    <3>2. d[i].ts <= c[Len(c)].ts
      BY <1>1, <1>4, <2>3 DEF SpacedOut
    <3> QED BY <1>3, <1>4, <1>5, <2>3, <3>1, <3>2
  <2> QED BY <1>4, <2>1, <2>2, <2>3
<1>7. \A i \in DOMAIN d : i + 1 \in DOMAIN d => d[i + 1].ts <= d[i].ts + GapThreshold
  <2> SUFFICES ASSUME NEW i \in DOMAIN d, i + 1 \in DOMAIN d
               PROVE  d[i + 1].ts <= d[i].ts + GapThreshold
    OBVIOUS
  <2>1. CASE i + 1 <= Len(c)
    BY <1>1, <1>4, <2>1 DEF SpacedOut
  <2>2. CASE i = Len(c)
    BY <1>3, <1>4, <2>2
  <2> QED BY <1>4, <2>1, <2>2
<1> QED BY <1>2, <1>6, <1>7 DEF d, SpacedOut

LEMMA AcceptSpaced ==
  ASSUME NEW t \in Trace, NewestIsLast(t), SpacedOut(t.obs),
         NEW o \in Observations, ~Stale(t, o), NEW u \in AddResults(t, o)
  PROVE  SpacedOut(u.obs)
<1>1. CASE Duplicate(t, o)
  BY <1>1 DEF AddResults
<1>2. CASE ~Duplicate(t, o)
  <2> DEFINE a == AfterGap(t, o)
             v == Moved(a, o)
  <2>1. a \in Trace /\ v \in Trace /\ v.obs = a.obs
    BY AfterGapType, MovedType
  <2>2. \/ a.obs = <<>>
        \/ a.obs = t.obs /\ ~(t.lastTs # 0 /\ o.ts - t.lastTs > GapThreshold)
    BY DEF AfterGap, Trace
  <2>3. PICK kept \in CleanedUp(v.seen \cup {o}) :
          u = [v EXCEPT !.obs = Push(v.obs, o), !.seen = kept, !.lastTs = o.ts,
                        !.received = @ + 1]
    BY <1>2 DEF AddResults
  <2> HIDE DEF a, v
  <2>4. u.obs = Push(a.obs, o) /\ a.obs \in Seq(Observations)
    BY <2>1, <2>3 DEF Trace
  <2>5. SpacedOut(a.obs)
    BY <2>2 DEF SpacedOut
  <2>6. a.obs # <<>> => /\ a.obs[Len(a.obs)].ts <= o.ts
                        /\ o.ts <= a.obs[Len(a.obs)].ts + GapThreshold
    <3> SUFFICES ASSUME a.obs # <<>>
                 PROVE  t.lastTs <= o.ts /\ o.ts <= t.lastTs + GapThreshold
      BY <2>2 DEF NewestIsLast, Newest
    <3>1. t.lastTs \in Nat \ {0} /\ o.ts \in Nat /\ GapThreshold \in Nat
      BY <2>2, NewestType, ObservationsAssumption, ThresholdsAssumption DEF NewestIsLast
    <3> QED BY <2>2, <3>1 DEF Stale
  <2> QED BY <2>4, <2>5, <2>6, PushSpaced
<1> QED BY <1>1, <1>2

LEMMA OperationSpaced ==
  ASSUME NEW t \in Trace, NewestIsLast(t), SpacedOut(t.obs), NEW u, Register!Operation(t, u)
  PROVE  SpacedOut(u.obs)
<1>1. CASE Register!AcceptStep(t, u)
  BY <1>1, AcceptSpaced, SameGuards, SameAddResults DEF Register!AcceptStep
<1>2. CASE Register!ReportStep(t, u) \/ Register!MatchStep(t, u)
  <2>1. u.obs = t.obs
    BY <1>2 DEF Register!ReportStep, Register!WithStatus, Register!MatchStep,
       Register!WithMatch, Trace
  <2> QED BY <2>1
<1>3. CASE Register!ResetStep(t, u)
  <2>1. u.obs = <<>>
    BY <1>3, SameFresh DEF Register!ResetStep, Fresh
  <2> QED BY <2>1 DEF SpacedOut
<1> QED BY <1>1, <1>2, <1>3 DEF Register!Operation

LEMMA Spacing == Spec => [](IInv /\ SpacedOut(reg.trace.obs))
<1>1. Init => SpacedOut(reg.trace.obs)
  BY DEF Init, Absent, Fresh, SpacedOut
<1>2. IInv /\ SpacedOut(reg.trace.obs) /\ [Next]_vars => SpacedOut(reg.trace.obs)'
  <2> SUFFICES ASSUME IInv, SpacedOut(reg.trace.obs), [Next]_vars
               PROVE  SpacedOut(reg'.trace.obs)
    BY DEF SpacedOut
  <2>1. reg.trace \in Trace /\ NewestIsLast(reg.trace)
    BY DEF IInv, TypeOK, NewestKept
  <2>2. CASE reg' = reg
    BY <2>2
  <2>3. CASE reg' = Absent
    BY <2>3 DEF Absent, Fresh, SpacedOut
  <2>4. CASE Register!Operation(reg.trace, reg'.trace)
    BY <2>1, <2>4, OperationSpaced
  <2> QED BY <2>2, <2>3, <2>4, StoreStep DEF Stored
<1> QED BY Invariance, <1>1, <1>2, PTL DEF Spec

(* The buffer stays in event-time order and its newest observation carries *)
(* the last timestamp, whatever races with whatever (state.py:175-199).    *)
THEOREM BufferInOrder == Spec => []BufferOrdered
<1>1. IInv /\ SpacedOut(reg.trace.obs) => BufferOrdered
  BY DEF IInv, NewestKept, SpacedOut, BufferOrdered
<1> QED BY Spacing, <1>1, PTL

(* A gap that clears the buffer no later than the window forgets leaves    *)
(* two observations of context whenever two are buffered, for any buffer   *)
(* size and any context of at least two points.  Without that hypothesis   *)
(* on the two thresholds a match would be dropped (realtime.py:381).       *)
THEOREM ContextSuffices ==
  ASSUME GapThreshold <= Window, MaxContext >= 2
  PROVE  Spec => []EnoughContext
<1>1. IInv /\ SpacedOut(reg.trace.obs) => EnoughContext
  <2> SUFFICES ASSUME IInv, SpacedOut(reg.trace.obs), Len(reg.trace.obs) >= 2
               PROVE  Cardinality(Context(reg.trace)) >= 2
    BY DEF EnoughContext
  <2> DEFINE t == reg.trace
             n == Len(t.obs)
  <2>1. /\ t \in Trace /\ NewestIsLast(t) /\ n \in Nat /\ DOMAIN t.obs = 1..n
        /\ n - 1 \in 1..n /\ n \in 1..n /\ t.obs # <<>>
    BY DEF IInv, TypeOK, NewestKept, Trace
  <2>2. t.obs[n].ts \in Nat /\ t.obs[n - 1].ts \in Nat /\ t.obs[n].ts = t.lastTs
    BY <2>1, ObservationsAssumption DEF Trace, NewestIsLast, Newest
  <2>3. t.obs[n].ts <= t.obs[n - 1].ts + GapThreshold
    <3>1. n - 1 \in DOMAIN t.obs /\ (n - 1) + 1 = n /\ n \in DOMAIN t.obs
      BY <2>1
    <3>2. t.obs[(n - 1) + 1].ts <= t.obs[n - 1].ts + GapThreshold
      BY <3>1 DEF SpacedOut
    <3> QED BY <3>1, <3>2
  <2>4. n \in Recent(t) /\ n - 1 \in Recent(t)
    <3>1. t.obs[n].ts >= t.lastTs - Window /\ t.obs[n - 1].ts >= t.lastTs - Window
      BY <2>2, <2>3, ThresholdsAssumption
    <3> HIDE DEF t, n
    <3> QED BY <2>1, <3>1 DEF Recent
  <2>5. Recent(t) \subseteq 1..n
    BY <2>1 DEF Recent
  <2> HIDE DEF t, n
  <2>6. {j \in Recent(t) : j > n} = {} /\ {j \in Recent(t) : j > n - 1} = {n}
    BY <2>1, <2>4, <2>5
  <2>7. Cardinality({j \in Recent(t) : j > n}) = 0
    BY <2>6, FS_EmptySet
  <2>8. Cardinality({j \in Recent(t) : j > n - 1}) = 1
    BY <2>6, FS_Singleton
  <2>9. {n - 1, n} \subseteq Context(t)
    BY <2>4, <2>7, <2>8, ThresholdsAssumption DEF Context
  <2>10. IsFiniteSet(Context(t))
    <3>1. Context(t) \subseteq 1..n
      BY <2>5 DEF Context
    <3>2. IsFiniteSet(1..n)
      BY <2>1, FS_Interval
    <3> QED BY <3>1, <3>2, FS_Subset
  <2>11. Cardinality({n - 1, n}) = 2
    <3>1. IsFiniteSet({n - 1}) /\ Cardinality({n - 1}) = 1
      BY FS_Singleton
    <3>2. n \notin {n - 1} /\ {n - 1, n} = {n - 1} \cup {n}
      BY <2>1
    <3>3. Cardinality({n - 1} \cup {n}) = Cardinality({n - 1}) + 1
      BY <3>1, <3>2, FS_AddElement
    <3> QED BY <3>1, <3>2, <3>3
  <2>12. Cardinality({n - 1, n}) <= Cardinality(Context(t))
    BY <2>9, <2>10, FS_Subset
  <2>13. Cardinality(Context(t)) \in Nat
    BY <2>10, FS_CardinalityType
  <2> QED BY <2>11, <2>12, <2>13 DEF t
<1> QED BY Spacing, <1>1, PTL
-----------------------------------------------------------------------------
(* What is remembered.  Past MaxDedup identifiers the code forgets some, so *)
(* that both facts need a limit that the observations of a generation do    *)
(* not reach.                                                               *)

FewObservations == IsFiniteSet(Observations) /\ Cardinality(Observations) <= MaxDedup

LEMMA NothingForgotten ==
  ASSUME FewObservations, NEW s \in SUBSET Observations
  PROVE  CleanedUp(s) = {s} /\ IsFiniteSet(s)
<1>1. IsFiniteSet(s) /\ Cardinality(s) <= Cardinality(Observations)
  BY FS_Subset DEF FewObservations
<1>2. Cardinality(s) \in Nat /\ Cardinality(Observations) \in Nat
  BY <1>1, FS_CardinalityType DEF FewObservations
<1>3. ~(Cardinality(s) > MaxDedup)
  BY <1>1, <1>2, ThresholdsAssumption DEF FewObservations
<1> QED BY <1>1, <1>3 DEF CleanedUp

Unequal(b) == \A i, j \in DOMAIN b : b[i].id = b[j].id => i = j

Counted(t) ==
  /\ t.received = Cardinality(t.seen)
  /\ Unequal(t.obs)
  /\ \A i \in DOMAIN t.obs : t.obs[i] \in t.seen

LEMMA FreshCounted == \A g : Counted(Fresh(g))
<1> SUFFICES ASSUME NEW g PROVE Counted(Fresh(g))
  OBVIOUS
<1>1. Fresh(g).obs = <<>> /\ Fresh(g).seen = {} /\ Fresh(g).received = 0
  BY DEF Fresh
<1>2. Unequal(<<>>) /\ \A i \in DOMAIN <<>> : FALSE
  BY DEF Unequal
<1> QED BY <1>1, <1>2, FS_EmptySet DEF Counted

(* What a push leaves in the buffer was there or is the new observation.   *)
LEMMA PushUnequal ==
  ASSUME NEW b \in Seq(Observations), Unequal(b), NEW o \in Observations,
         \A i \in DOMAIN b : b[i].id # o.id
  PROVE  /\ Unequal(Push(b, o))
         /\ \A k \in DOMAIN Push(b, o) : Push(b, o)[k] = o \/ \E i \in DOMAIN b : Push(b, o)[k] = b[i]
<1> DEFINE c == IF Len(b) = MaxBuffer THEN Tail(b) ELSE b
<1>1. c \in Seq(Observations) /\ Unequal(c) /\ \A k \in DOMAIN c : \E i \in DOMAIN b : c[k] = b[i]
  <2>1. CASE Len(b) = MaxBuffer
    <3>1. b # <<>> /\ Len(b) \in Nat \ {0}
      BY <2>1, ThresholdsAssumption
    <3>2. /\ Tail(b) \in Seq(Observations)
          /\ DOMAIN Tail(b) = 1..(Len(b) - 1) /\ DOMAIN b = 1..Len(b)
          /\ \A i \in 1..(Len(b) - 1) : Tail(b)[i] = b[i + 1]
      BY <3>1
    <3>3. \A k \in DOMAIN Tail(b) : k + 1 \in DOMAIN b /\ Tail(b)[k] = b[k + 1]
      BY <3>1, <3>2
    <3>4. Unequal(Tail(b))
      BY <3>1, <3>2, <3>3 DEF Unequal
    <3> QED BY <2>1, <3>2, <3>3, <3>4
  <2>2. CASE Len(b) # MaxBuffer
    BY <2>2
  <2> QED BY <2>1, <2>2
<1>2. Push(b, o) = Append(c, o)
  BY DEF Push
<1> HIDE DEF c
<1> DEFINE d == Append(c, o)
<1>3. /\ DOMAIN d = 1..(Len(c) + 1) /\ DOMAIN c = 1..Len(c) /\ Len(c) \in Nat
      /\ d[Len(c) + 1] = o /\ \A i \in 1..Len(c) : d[i] = c[i]
  BY <1>1
<1> HIDE DEF d
<1>4. \A k \in DOMAIN d : \/ k \in DOMAIN c /\ d[k] = c[k]
                          \/ k = Len(c) + 1 /\ d[k] = o
  <2> SUFFICES ASSUME NEW k \in DOMAIN d
               PROVE  \/ k \in DOMAIN c /\ d[k] = c[k]
                      \/ k = Len(c) + 1 /\ d[k] = o
    OBVIOUS
  <2>1. k \in 1..Len(c) \/ k = Len(c) + 1
    BY <1>3
  <2> QED BY <1>3, <2>1
<1>5. \A k \in DOMAIN c : c[k].id # o.id
  BY <1>1
<1>6. Unequal(d)
  BY <1>1, <1>4, <1>5 DEF Unequal
<1>7. \A k \in DOMAIN d : d[k] = o \/ \E i \in DOMAIN b : d[k] = b[i]
  BY <1>1, <1>4
<1> QED BY <1>2, <1>6, <1>7 DEF d

LEMMA AcceptCounted ==
  ASSUME FewObservations, NEW t \in Trace, NEW o \in Observations, NEW u \in AddResults(t, o)
  PROVE  /\ Counted(t) => Counted(u)
         /\ u.seen = t.seen \/ u.seen = t.seen \cup {o}
         /\ ~Conflicting(t, o) => o \in u.seen
<1>1. CASE Duplicate(t, o)
  BY <1>1 DEF AddResults, Duplicate, Conflicting
<1>2. CASE ~Duplicate(t, o)
  <2> DEFINE a == AfterGap(t, o)
             v == Moved(a, o)
  <2>1. /\ a \in Trace /\ v \in Trace /\ v.obs = a.obs
        /\ v.seen = t.seen /\ t.seen \subseteq Observations
    BY AfterGapType, MovedType DEF Trace
  <2>2. a.obs = <<>> \/ a.obs = t.obs
    BY DEF AfterGap, Trace
  <2>3. v.received = t.received
    <3>1. a.received = t.received
      BY DEF AfterGap, Trace
    <3> HIDE DEF a
    <3> QED BY <2>1, <3>1 DEF Moved, Trace
  <2>4. PICK kept \in CleanedUp(v.seen \cup {o}) :
          u = [v EXCEPT !.obs = Push(v.obs, o), !.seen = kept, !.lastTs = o.ts,
                        !.received = @ + 1]
    BY <1>2 DEF AddResults
  <2> HIDE DEF a, v
  <2>5. kept = t.seen \cup {o}
    BY <2>1, <2>4, NothingForgotten
  <2>6. u.obs = Push(a.obs, o) /\ u.seen = t.seen \cup {o} /\ u.received = t.received + 1
          /\ a.obs \in Seq(Observations)
    BY <2>1, <2>3, <2>4, <2>5 DEF Trace
  <2>7. ASSUME Counted(t) PROVE Counted(u)
    <3>1. o \notin t.seen /\ IsFiniteSet(t.seen)
      BY <1>2, <2>1, NothingForgotten DEF Duplicate
    <3>2. u.received = Cardinality(u.seen)
      <4>1. Cardinality(t.seen \cup {o}) = Cardinality(t.seen) + 1
        BY <3>1, FS_AddElement
      <4> QED BY <2>6, <2>7, <4>1 DEF Counted
    <3>3. Unequal(a.obs) /\ \A i \in DOMAIN a.obs : a.obs[i] \in t.seen
      BY <2>2, <2>7 DEF Counted, Unequal
    <3>4. \A i \in DOMAIN a.obs : a.obs[i].id # o.id
      BY <1>2, <3>3 DEF Duplicate
    <3>5. Unequal(u.obs) /\ \A i \in DOMAIN u.obs : u.obs[i] \in u.seen
      BY <2>6, <3>3, <3>4, PushUnequal
    <3> QED BY <3>2, <3>5 DEF Counted
  <2> QED BY <2>6, <2>7
<1> QED BY <1>1, <1>2

(* An operation keeps the count, and remembers within its generation.      *)
LEMMA OperationCounted ==
  ASSUME FewObservations, NEW t \in Trace, NEW u, Register!Operation(t, u)
  PROVE  /\ Counted(t) => Counted(u)
         /\ \/ u.gen = t.gen /\ t.seen \subseteq u.seen
            \/ u.gen = t.gen + 1
<1>1. CASE Register!AcceptStep(t, u)
  <2>1. PICK o \in Observations : u \in AddResults(t, o)
    BY <1>1, SameAddResults DEF Register!AcceptStep
  <2> QED BY <2>1, AcceptCounted, AddType
<1>2. CASE Register!ReportStep(t, u) \/ Register!MatchStep(t, u)
  <2>1. u.obs = t.obs /\ u.seen = t.seen /\ u.received = t.received /\ u.gen = t.gen
    BY <1>2 DEF Register!ReportStep, Register!WithStatus, Register!MatchStep,
       Register!WithMatch, Trace
  <2> QED BY <2>1 DEF Counted
<1>3. CASE Register!ResetStep(t, u)
  <2>1. u = Fresh(t.gen + 1)
    BY <1>3, SameFresh DEF Register!ResetStep
  <2>2. Counted(u) /\ u.gen = t.gen + 1
    BY <2>1, FreshCounted DEF Fresh
  <2> QED BY <2>2
<1> QED BY <1>1, <1>2, <1>3 DEF Register!Operation

(* An observation counts once however often it is sent, retried or         *)
(* executed late (state.py:200-270), while no identifier is forgotten.     *)
THEOREM EachCountsOnce == ASSUME FewObservations PROVE Spec => []CountedOnce
<1>1. Init => Counted(reg.trace)
  BY FreshCounted DEF Init, Absent
<1>2. IInv /\ Counted(reg.trace) /\ [Next]_vars => Counted(reg.trace)'
  <2> SUFFICES ASSUME IInv, Counted(reg.trace), [Next]_vars
               PROVE  Counted(reg'.trace)
    BY DEF Counted, Unequal
  <2>1. reg.trace \in Trace
    BY DEF IInv, TypeOK
  <2>2. CASE reg' = reg
    BY <2>2
  <2>3. CASE reg' = Absent
    BY <2>3, FreshCounted DEF Absent
  <2>4. CASE Register!Operation(reg.trace, reg'.trace)
    BY <2>1, <2>4, OperationCounted
  <2> QED BY <2>2, <2>3, <2>4, StoreStep DEF Stored
<1>3. Counted(reg.trace) => CountedOnce
  BY DEF Counted, Unequal, CountedOnce
<1> QED BY Invariance, <1>1, <1>2, <1>3, PTL DEF Spec

(* The trace a worker is about to write remembers its observation.         *)
AboutToAck == \A w \in Ingesters : pc[w] = "add" => obs[w] \in work[w].seen

(* What was acknowledged is of this generation and remembered, or of one   *)
(* that is over.                                                           *)
Remembered ==
  \A a \in acked : \/ a[2] < reg.trace.gen
                   \/ a[2] = reg.trace.gen /\ a[1] \in reg.trace.seen

LEMMA AboutToAckStep ==
  ASSUME FewObservations
  PROVE  IInv /\ AboutToAck /\ [Next]_vars => AboutToAck'
<1> SUFFICES ASSUME IInv, AboutToAck, [Next]_vars PROVE AboutToAck'
  OBVIOUS
<1>0. LocalsOK /\ reg.trace \in Trace /\ Ingesters \subseteq Workers
  BY DEF IInv, TypeOK, Workers
<1>keep. ASSUME NEW w \in Workers, pc'[w] # "add",
                \A v \in Workers \ {w} : pc'[v] = pc[v] /\ work'[v] = work[v] /\ obs'[v] = obs[v]
         PROVE  AboutToAck'
  BY <1>0, <1>keep DEF AboutToAck
<1>1. ASSUME NEW w \in Ingesters, IngestStep(w) PROVE AboutToAck'
  <2>0. w \in Workers
    BY <1>0
  <2>1. CASE Read(w)
    <3>1. PICK t \in AddResults(reg.trace, obs[w]) : work' = [work EXCEPT ![w] = t]
      BY <2>1 DEF Read
    <3>2. obs[w] \in Observations
      BY <1>0, <2>1 DEF Read, LocalsOK
    <3>3. obs[w] \in t.seen
      BY <1>0, <2>1, <3>2, AcceptCounted DEF Read
    <3>4. /\ work'[w] = t /\ obs' = obs
          /\ \A v \in Workers \ {w} : pc'[v] = pc[v] /\ work'[v] = work[v]
      BY <1>0, <2>0, <2>1, <3>1 DEF Read, LocalsOK
    <3> QED BY <1>0, <3>3, <3>4 DEF AboutToAck
  <2>2. CASE \/ ReadStale(w) \/ ReadConflict(w) \/ ReadFails(w) \/ MatchRejected(w)
             \/ Save(w) \/ SaveConflict(w) \/ SaveFails(w)
    <3>1. \E a : Finish(w, a)
      BY <2>2 DEF ReadStale, ReadConflict, ReadFails, MatchRejected, Save, SaveConflict, SaveFails
    <3> QED BY <1>0, <1>keep, <2>0, <3>1, FinishOthers
  <2>3. CASE Add(w)
    BY <1>0, <1>keep, <2>0, <2>3, DisposeOthers DEF Add
  <2>4. CASE AddConflict(w) \/ AddFails(w)
    BY <1>0, <1>keep, <2>0, <2>4, RetryOthers DEF AddConflict, AddFails
  <2>5. CASE MatchFound(w) \/ MatchNotFound(w)
    <3>1. /\ pc' = [pc EXCEPT ![w] = "save"] /\ obs' = obs
          /\ \A v \in Workers \ {w} : work'[v] = work[v]
      BY <1>0, <2>5 DEF MatchFound, MatchNotFound, Persist, LocalsOK
    <3>2. pc'[w] = "save" /\ \A v \in Workers \ {w} : pc'[v] = pc[v]
      BY <1>0, <2>0, <3>1 DEF LocalsOK
    <3> QED BY <1>keep, <2>0, <3>1, <3>2
  <2> QED BY <1>1, <2>1, <2>2, <2>3, <2>4, <2>5 DEF IngestStep
<1>2. ASSUME NEW w \in Ingesters, NEW o \in Observations, Receive(w, o) PROVE AboutToAck'
  <2>1. /\ w \in Workers /\ pc'[w] = "read" /\ work' = work
        /\ \A v \in Workers \ {w} : pc'[v] = pc[v] /\ obs'[v] = obs[v]
    BY <1>0, <1>2 DEF Receive, LocalsOK
  <2> QED BY <1>keep, <2>1
<1>3. ASSUME NEW w \in Resetters, ResetStep(w) \/ RequestReset(w) PROVE AboutToAck'
  <2>0. w \in Workers
    BY DEF Workers
  <2>1. CASE ReadFails(w) \/ Reset(w) \/ ResetFails(w)
    <3>1. \E a : Finish(w, a)
      BY <2>1 DEF ReadFails, Reset, ResetFails
    <3> QED BY <1>0, <1>keep, <2>0, <3>1, FinishOthers
  <2>2. CASE ResetConflict(w)
    BY <1>0, <1>keep, <2>0, <2>2, RetryOthers DEF ResetConflict
  <2>3. CASE ResetRead(w) \/ RequestReset(w)
    <3>1. /\ pc'[w] # "add" /\ obs' = obs
          /\ \A v \in Workers \ {w} : pc'[v] = pc[v] /\ work'[v] = work[v]
      BY <1>0, <2>0, <2>3 DEF ResetRead, RequestReset, LocalsOK
    <3> QED BY <1>keep, <2>0, <3>1
  <2> QED BY <1>3, <2>1, <2>2, <2>3 DEF ResetStep
<1>4. CASE (\E c \in limbo : ExecuteLate(c)) \/ Expire \/ UNCHANGED vars
  BY <1>4 DEF ExecuteLate, Expire, vars, AboutToAck
<1> QED BY <1>1, <1>2, <1>3, <1>4 DEF Next

LEMMA RememberedStep ==
  ASSUME FewObservations
  PROVE  IInv /\ AboutToAck /\ Remembered /\ [Next]_vars => Remembered'
<1> SUFFICES ASSUME IInv, AboutToAck, Remembered, [Next]_vars PROVE Remembered'
  OBVIOUS
<1>0. /\ LocalsOK /\ reg.trace \in Trace /\ reg.trace.gen \in Nat
      /\ acked \subseteq Observations \X (Nat \ {0})
  BY DEF IInv, TypeOK, Trace
<1>1. CASE Expire
  BY <1>1 DEF Expire, Remembered
<1>2. CASE ~Expire
  <2>1. reg' = reg \/ Register!Operation(reg.trace, reg'.trace)
    BY <1>2, StoreStep DEF Stored
  <2>2. \/ reg' = reg
        \/ reg'.trace.gen = reg.trace.gen /\ reg.trace.seen \subseteq reg'.trace.seen
        \/ reg'.trace.gen = reg.trace.gen + 1
    BY <1>0, <2>1, OperationCounted
  <2>3. \A a \in acked : \/ a[2] < reg'.trace.gen
                         \/ a[2] = reg'.trace.gen /\ a[1] \in reg'.trace.seen
    BY <1>0, <2>2 DEF Remembered
  <2>4. CASE acked' = acked
    BY <2>3, <2>4 DEF Remembered
  <2>5. CASE acked' # acked
    <3>1. PICK w \in Ingesters : Add(w)
      BY <1>2, <2>5 DEF Next, vars, IngestStep, ResetStep, Read, ReadStale, ReadConflict,
         ReadFails, AddConflict, AddFails, MatchFound, MatchNotFound, MatchRejected, Save,
         SaveConflict, SaveFails, Receive, RequestReset, ResetRead, Reset, ResetConflict,
         ResetFails, ExecuteLate
    <3>2. /\ acked' = acked \cup {<<obs[w], base[w].gen>>}
          /\ reg'.trace = work[w] /\ obs[w] \in work[w].seen
      BY <3>1 DEF Add, Written, AboutToAck
    <3>3. work[w].gen = base[w].gen
      BY <3>1 DEF Add, IInv, WritesCurrent, WriteReady, Workers
    <3> QED BY <2>3, <3>2, <3>3 DEF Remembered
  <2> QED BY <2>4, <2>5
<1> QED BY <1>1, <1>2

(* No lost update: while no identifier is forgotten, the stored trace      *)
(* remembers every observation whose acceptance was acknowledged in its    *)
(* generation, for any number of requests ("This prevents lost updates",   *)
(* driver_state_manager.py:232).                                           *)
THEOREM NoLostUpdate == ASSUME FewObservations PROVE Spec => []AckedKept
<1>1. Init => AboutToAck /\ Remembered
  BY DEF Init, AboutToAck, Remembered, Workers
<1>2. IInv /\ Remembered => AckedKept
  <2> SUFFICES ASSUME IInv, Remembered PROVE AckedKept
    OBVIOUS
  <2>1. reg.trace.gen \in Nat /\ acked \subseteq Observations \X (Nat \ {0})
    BY DEF IInv, TypeOK, Trace
  <2> QED BY <2>1 DEF Remembered, AckedKept
<1>3. IInv /\ AboutToAck /\ [Next]_vars => AboutToAck'
  BY AboutToAckStep
<1>4. IInv /\ AboutToAck /\ Remembered /\ [Next]_vars => Remembered'
  BY RememberedStep
<1> QED BY Invariance, <1>1, <1>2, <1>3, <1>4, PTL DEF Spec
=============================================================================
