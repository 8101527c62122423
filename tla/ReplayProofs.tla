---------------------------- MODULE ReplayProofs ----------------------------
(***************************************************************************)
(* Proofs about Replay: its type invariant, that playback has one loop     *)
(* behind it, that progress is confirmed, that the flag is always released *)
(* and that ended sessions change nothing, for any tracks and any number   *)
(* of user actions.                                                        *)
(***************************************************************************)
EXTENDS Replay, FiniteSetTheorems, WellFoundedInduction, TLAPS

-----------------------------------------------------------------------------
(* The inductive invariant.                                                *)

In(a) == a.phase \in {"sent", "answered", "evaluating"}

(* c holds all indices below i.                                            *)
Confirmed(i, c) == \A j \in Nat : j < i => j \in c

(* An activity a, given the generation, the token, the track and what the  *)
(* backend has accepted of it.                                             *)
SlotOK(a, g, t, o, c) ==
  /\ a \in Activity
  /\ a.token <= t /\ a.gen <= g
  /\ a.phase = "idle" => a = Idle
  /\ a.phase = "sleeping" => a.token # 0
  /\ In(a) /\ a.gen = g => a.index < Len(o) /\ Confirmed(a.index, c)
  /\ a.gen = g /\ (a.phase = "evaluating" \/ (a.phase = "answered" /\ a.reply = "accepted"))
       => a.index \in c

SlotsOK == \A s \in Slots : SlotOK(act[s], generation, playbackToken, observations, accepted)

(* No two loops have one token.                                            *)
Distinct ==
  \A r, s \in Slots : r # s /\ act[s].token # 0 => act[r].token # act[s].token

FlagOK == isStepInProgress => \E s \in Slots : In(act[s])

(* The loop whose generation and token are current.                        *)
Owner(a, g, t) == a.phase # "idle" /\ a.token # 0 /\ a.token = t /\ a.gen = g

Owned == state = "PLAYING" => \E s \in Slots : Owner(act[s], generation, playbackToken)

ProgressOK == currentIndex <= Len(observations) /\ Confirmed(currentIndex, accepted)

(* Every activity, and the fetch that may start one, is the work of an     *)
(* action.                                                                 *)
Busy == {s \in Slots : act[s].phase # "idle"}
Waiting(l) == IF l = NoLoad THEN 0 ELSE 1
BusyOK == Cardinality(Busy) + Waiting(load) <= actions

(* A track that is awaited is empty.                                       *)
LoadOK == load # NoLoad => observations = <<>>

TypeSession ==
  /\ generation \in Nat
  /\ observations \in Seq(Nat)
  /\ lastAccepted \in Nat
  /\ load = NoLoad \/ load \in [track : Seq(Nat), resume : BOOLEAN]
  /\ backend \in Nat /\ late \subseteq Nat /\ deletes \in Nat
  /\ actions \in 0..MaxActions
  /\ accepted \subseteq Nat

TypePlayback ==
  /\ state \in States
  /\ playbackToken \in Nat
  /\ isStepInProgress \in BOOLEAN
  /\ currentIndex \in Nat
  /\ act \in [Slots -> Activity]

LEMMA TypeParts == TypeOK <=> TypeSession /\ TypePlayback
BY DEF TypeOK, TypeSession, TypePlayback

IInv ==
  /\ TypeSession /\ TypePlayback
  /\ SlotsOK /\ Distinct /\ FlagOK /\ Owned /\ ProgressOK /\ BusyOK /\ LoadOK

-----------------------------------------------------------------------------
(* Slots.                                                                  *)

LEMMA SlotsFinite ==
  /\ IsFiniteSet(Slots) /\ Cardinality(Slots) = MaxActions
  /\ Slots \subseteq Nat
BY FS_Interval, LimitsAssumption DEF Slots

LEMMA BusyFinite ==
  /\ IsFiniteSet(Busy) /\ Cardinality(Busy) \in Nat
  /\ Busy \subseteq Slots
BY SlotsFinite, FS_Subset, FS_CardinalityType DEF Busy

LEMMA IdleType == Idle \in Activity /\ Idle.phase = "idle" /\ Idle.token = 0 /\ Idle.gen = 0
BY DEF Idle, Activity, Phases, Replies

(* While fewer slots are busy than there are, one is free.                 *)
LEMMA FreeSlotIdle ==
  ASSUME Cardinality(Busy) < MaxActions
  PROVE  FreeSlot \in Slots /\ act[FreeSlot].phase = "idle"
<1> DEFINE free == {s \in Slots : act[s].phase = "idle"}
<1>1. free # {}
  <2>1. SUFFICES ASSUME free = {} PROVE FALSE
    OBVIOUS
  <2>2. Busy = Slots
    BY <2>1 DEF Busy
  <2> QED BY <2>2, SlotsFinite, LimitsAssumption
<1>2. free \in SUBSET Nat
  BY SlotsFinite
<1>3. PICK s \in free : \A r \in free : s <= r
  <2> HIDE DEF free
  <2>1. PICK s \in free : \A r \in free : <<r, s>> \notin OpToRel(<, Nat)
    BY <1>1, <1>2, WFMin, NatLessThanWellFounded
  <2>2. \A r \in free : s \in Nat /\ r \in Nat /\ ~(r < s)
    BY <1>2, <2>1 DEF OpToRel
  <2> QED BY <2>2
<1>4. /\ s \in Slots /\ act[s].phase = "idle"
      /\ \A r \in Slots : act[r].phase = "idle" => s <= r
  BY <1>3
<1> QED BY <1>4 DEF FreeSlot

(* An activity outlives its session, or its track and what was accepted of *)
(* it are kept.                                                            *)
LEMMA SlotAged ==
  ASSUME NEW a, NEW g \in Nat, NEW t \in Nat, NEW o \in Seq(Nat), NEW c,
         NEW h \in Nat, NEW u \in Nat, NEW p, NEW d,
         SlotOK(a, g, t, o, c), t <= u,
         g < h \/ (g = h /\ c \subseteq d /\ (p = o \/ o = <<>>))
  PROVE  SlotOK(a, h, u, p, d)
<1>1. a \in Activity /\ a.token \in Nat /\ a.gen \in Nat /\ a.index \in Nat
  BY DEF SlotOK, Activity
<1>2. CASE g < h
  BY <1>1, <1>2 DEF SlotOK
<1>3. CASE g = h /\ c \subseteq d /\ p = o
  BY <1>1, <1>3 DEF SlotOK, Confirmed
<1>4. CASE g = h /\ c \subseteq d /\ o = <<>>
  <2>1. ~(In(a) /\ a.gen = g)
    BY <1>1, <1>4 DEF SlotOK
  <2> QED BY <1>1, <1>4, <2>1 DEF SlotOK, In
<1> QED BY <1>2, <1>3, <1>4

(* What may happen to the session of the activities left alone.            *)
Aged ==
  /\ playbackToken \in Nat /\ playbackToken' \in Nat /\ playbackToken <= playbackToken'
  /\ generation \in Nat /\ generation' \in Nat /\ observations \in Seq(Nat)
  /\ \/ generation < generation'
     \/ /\ generation = generation' /\ accepted \subseteq accepted'
        /\ observations' = observations \/ observations = <<>>

LEMMA SlotsAged ==
  ASSUME SlotsOK, Aged, NEW s \in Slots
  PROVE  SlotOK(act[s], generation', playbackToken', observations', accepted')
BY SlotAged DEF SlotsOK, Aged

(* A slot is given to an activity, or an activity goes on.                 *)
LEMMA SlotChanged ==
  ASSUME IInv, Aged, NEW s \in Slots, NEW a, act' = [act EXCEPT ![s] = a],
         SlotOK(a, generation', playbackToken', observations', accepted'),
         \/ a.token = 0
         \/ a.token = act[s].token
         \/ a.token > playbackToken
  PROVE  SlotsOK' /\ Distinct' /\ act' \in [Slots -> Activity]
<1>1. act'[s] = a /\ \A r \in Slots \ {s} : act'[r] = act[r]
  BY DEF IInv, TypePlayback
<1>2. SlotsOK'
  <2>1. ASSUME NEW r \in Slots
        PROVE  SlotOK(act'[r], generation', playbackToken', observations', accepted')
    BY <1>1, SlotsAged DEF IInv
  <2> QED BY <2>1 DEF SlotsOK
<1>3. Distinct'
  <2>1. \A r \in Slots : act[r].token \in Nat /\ act[r].token <= playbackToken
    BY DEF IInv, SlotsOK, SlotOK, TypePlayback, Activity
  <2>2. a.token \in Nat /\ playbackToken \in Nat
    BY DEF SlotOK, Activity, Aged
  <2>3. \A r \in Slots \ {s} : a.token # 0 => act[r].token # a.token
    BY <2>1, <2>2 DEF IInv, Distinct
  <2> QED BY <1>1, <2>3 DEF IInv, Distinct
<1>4. a \in Activity
  BY DEF SlotOK
<1> QED BY <1>2, <1>3, <1>4 DEF IInv, TypePlayback

LEMMA BusyChanged ==
  ASSUME IInv, NEW s \in Slots, NEW a, act' = [act EXCEPT ![s] = a]
  PROVE  /\ Cardinality(Busy') \in Nat /\ Cardinality(Busy) \in Nat
         /\ Cardinality(Busy') <= Cardinality(Busy) + 1
         /\ a.phase = "idle" \/ act[s].phase # "idle" => Cardinality(Busy') <= Cardinality(Busy)
<1>1. act'[s] = a /\ \A r \in Slots \ {s} : act'[r] = act[r]
  BY DEF IInv, TypePlayback
<1>2. Busy' \subseteq Busy \cup {s}
  BY <1>1 DEF Busy
<1>3. IsFiniteSet(Busy) /\ Cardinality(Busy) \in Nat
  BY BusyFinite
<1>4. IsFiniteSet(Busy \cup {s}) /\ Cardinality(Busy \cup {s}) <= Cardinality(Busy) + 1
  BY <1>3, FS_AddElement
<1>5. IsFiniteSet(Busy') /\ Cardinality(Busy') <= Cardinality(Busy \cup {s})
  BY <1>2, <1>4, FS_Subset
<1>6. Cardinality(Busy') \in Nat /\ Cardinality(Busy \cup {s}) \in Nat
  BY <1>4, <1>5, FS_CardinalityType
<1>7. ASSUME a.phase = "idle" \/ act[s].phase # "idle"
      PROVE  Cardinality(Busy') <= Cardinality(Busy)
  <2>1. Busy' \subseteq Busy
    BY <1>1, <1>7 DEF Busy
  <2> QED BY <1>3, <2>1, FS_Subset
<1> QED BY <1>3, <1>4, <1>5, <1>6, <1>7

-----------------------------------------------------------------------------
(* Steps.                                                                  *)

TypeControls ==
  state \in States /\ playbackToken \in Nat /\ isStepInProgress \in BOOLEAN /\ currentIndex \in Nat

(* A step changes one slot: it takes a step up, ends one, or neither.      *)
LEMMA SlotStep ==
  ASSUME IInv, Aged, TypeSession', TypeControls', NEW s \in Slots, NEW a,
         act' = [act EXCEPT ![s] = a],
         SlotOK(a, generation', playbackToken', observations', accepted'),
         a.token = 0 \/ a.token = act[s].token \/ a.token > playbackToken,
         \/ (In(a) <=> In(act[s])) /\ UNCHANGED isStepInProgress
         \/ In(act[s]) /\ ~In(a) /\ isStepInProgress' = FALSE
         \/ isStepInProgress = FALSE /\ In(a) /\ isStepInProgress' = TRUE,
         state' = "PLAYING" =>
           \/ Owner(a, generation', playbackToken')
           \/ /\ state = "PLAYING" /\ UNCHANGED <<generation, playbackToken>>
              /\ ~Owner(act[s], generation, playbackToken),
         ProgressOK', BusyOK', LoadOK'
  PROVE  IInv'
<1>1. act'[s] = a /\ \A r \in Slots \ {s} : act'[r] = act[r]
  BY DEF IInv, TypePlayback
<1>2. SlotsOK' /\ Distinct' /\ act' \in [Slots -> Activity]
  BY SlotChanged
<1>3. FlagOK'
  BY <1>1 DEF IInv, FlagOK, TypePlayback
<1>4. Owned'
  <2>1. CASE Owner(a, generation', playbackToken')
    BY <1>1, <2>1 DEF Owned
  <2>2. CASE /\ state = "PLAYING" /\ UNCHANGED <<generation, playbackToken>>
             /\ ~Owner(act[s], generation, playbackToken)
    <3>1. PICK r \in Slots : Owner(act[r], generation, playbackToken)
      BY <2>2 DEF IInv, Owned
    <3>2. act'[r] = act[r]
      BY <1>1, <2>2, <3>1
    <3> QED BY <2>2, <3>1, <3>2 DEF Owned
  <2> QED BY <2>1, <2>2 DEF Owned
<1> QED BY <1>2, <1>3, <1>4 DEF IInv, TypePlayback, TypeControls

(* A step changes no slot.                                                 *)
LEMMA QuietStep ==
  ASSUME IInv, Aged, TypeSession', TypeControls', UNCHANGED act, FlagOK',
         state' = "PLAYING" => state = "PLAYING" /\ UNCHANGED <<generation, playbackToken>>,
         ProgressOK', Waiting(load') + actions <= Waiting(load) + actions', LoadOK'
  PROVE  IInv'
<1>1. SlotsOK'
  <2>1. ASSUME NEW r \in Slots
        PROVE  SlotOK(act'[r], generation', playbackToken', observations', accepted')
    BY SlotsAged DEF IInv
  <2> QED BY <2>1 DEF SlotsOK
<1>2. Distinct' /\ Owned'
  BY DEF IInv, Distinct, Owned
<1>3. BusyOK'
  <2>1. Busy' = Busy
    BY DEF Busy
  <2>2. Cardinality(Busy) \in Nat /\ actions \in Nat /\ actions' \in Nat
    BY BusyFinite, LimitsAssumption DEF IInv, TypeSession
  <2>3. Cardinality(Busy) + Waiting(load) <= actions
    BY DEF IInv, BusyOK
  <2>4. Waiting(load) \in Nat /\ Waiting(load') \in Nat
    BY DEF Waiting
  <2>5. Cardinality(Busy) + Waiting(load') <= actions'
    BY <2>2, <2>3, <2>4
  <2> QED BY <2>1, <2>5 DEF BusyOK
<1> QED BY <1>1, <1>2, <1>3 DEF IInv, TypePlayback, TypeControls

LEMMA SentTimeType ==
  ASSUME NEW t \in Nat
  PROVE  SentTime(t) \in Nat
BY TimesAssumption DEF SentTime

(* What a slot holds after StepBegins.                                     *)
LEMMA Begun ==
  ASSUME IInv, TypeSession', playbackToken' \in Nat, NEW s \in Slots,
         NEW token \in Nat, token <= playbackToken', NEW i \in Nat, NEW n \in Nat,
         i < Len(observations'), Confirmed(i, accepted'), isStepInProgress => token # 0,
         StepBegins(s, token, i, n)
  PROVE  \E a :
           /\ act' = [act EXCEPT ![s] = a]
           /\ SlotOK(a, generation', playbackToken', observations', accepted')
           /\ a.phase # "idle" /\ a.token = token /\ a.gen = generation'
           /\ \/ ~In(a) /\ isStepInProgress = TRUE /\ UNCHANGED isStepInProgress
              \/ isStepInProgress = FALSE /\ In(a) /\ isStepInProgress' = TRUE
<1>1. CASE isStepInProgress
  <2> DEFINE a == Sleeping(token, 0)
  <2>1. /\ a \in Activity /\ a.phase = "sleeping" /\ a.token = token /\ a.gen = generation'
        /\ a.reply = "none"
    BY DEF Sleeping, Idle, Activity, Phases, Replies, TypeSession
  <2>2. act' = [act EXCEPT ![s] = a] /\ UNCHANGED isStepInProgress
    BY <1>1 DEF StepBegins
  <2> HIDE DEF a
  <2>3. SlotOK(a, generation', playbackToken', observations', accepted') /\ ~In(a)
    BY <1>1, <2>1 DEF SlotOK, In, TypeSession
  <2> QED BY <1>1, <2>1, <2>2, <2>3 DEF IInv, TypePlayback
<1>2. CASE ~isStepInProgress
  <2> DEFINE a == Sending(token, i, n)
  <2>1. observations'[i + 1] \in Nat
    BY DEF TypeSession
  <2>2. /\ a \in Activity /\ a.phase = "sent" /\ a.token = token /\ a.gen = generation'
        /\ a.reply = "none" /\ a.index = i
    BY <2>1, SentTimeType DEF Sending, Activity, Phases, Replies, TypeSession
  <2>3. act' = [act EXCEPT ![s] = a] /\ isStepInProgress' = TRUE
    BY <1>2 DEF StepBegins
  <2> HIDE DEF a
  <2>4. SlotOK(a, generation', playbackToken', observations', accepted') /\ In(a)
    BY <2>2 DEF SlotOK, In, TypeSession
  <2> QED BY <1>2, <2>2, <2>3, <2>4 DEF IInv, TypePlayback
<1> QED BY <1>1, <1>2

LEMMA IdleOK ==
  ASSUME NEW g \in Nat, NEW t \in Nat, NEW o, NEW c
  PROVE  SlotOK(Idle, g, t, o, c) /\ ~In(Idle)
BY IdleType DEF SlotOK, In

(* Playback starts in a free slot, on the track of now or on a new one.    *)
LEMMA StartInv ==
  ASSUME IInv, Aged, TypeSession', NEW i \in Nat, i <= Len(observations'),
         Confirmed(i, accepted'), StartPlaying(i),
         Cardinality(Busy) + 1 + Waiting(load') <= actions', LoadOK'
  PROVE  IInv'
<1> DEFINE first == IF i >= Len(observations') THEN 0 ELSE i
<1>1. /\ first \in Nat /\ first <= Len(observations') /\ Confirmed(first, accepted')
      /\ Len(observations') \in Nat
  BY DEF Confirmed, TypeSession
<1> HIDE DEF first
<1>2. /\ currentIndex' = first /\ playbackToken' = playbackToken + 1
      /\ playbackToken \in Nat /\ playbackToken' \in Nat
      /\ LoopTurn(FreeSlot, playbackToken + 1, first, 0)
  BY DEF StartPlaying, first, IInv, TypePlayback
<1>3. Cardinality(Busy) \in Nat /\ Cardinality(Busy) < MaxActions
  BY BusyFinite, LimitsAssumption DEF Waiting, TypeSession
<1>4. FreeSlot \in Slots /\ act[FreeSlot].phase = "idle" /\ ~In(act[FreeSlot])
  BY <1>3, FreeSlotIdle DEF In
<1>5. ProgressOK'
  BY <1>1, <1>2 DEF ProgressOK
<1>6. ASSUME NEW a, act' = [act EXCEPT ![FreeSlot] = a] PROVE BusyOK'
  <2>1. /\ Cardinality(Busy') <= Cardinality(Busy) + 1 /\ Cardinality(Busy') \in Nat
    BY <1>4, <1>6, BusyChanged
  <2>2. actions' \in Nat /\ Waiting(load') \in Nat
    BY LimitsAssumption DEF TypeSession, Waiting
  <2> QED BY <1>3, <2>1, <2>2 DEF BusyOK
<1>7. CASE first >= Len(observations')
  <2>1. state' = "COMPLETE" /\ act' = [act EXCEPT ![FreeSlot] = Idle] /\ UNCHANGED isStepInProgress
    BY <1>2, <1>7 DEF LoopTurn
  <2>2. TypeControls'
    BY <1>1, <1>2, <2>1 DEF TypeControls, States, IInv, TypePlayback
  <2>3. SlotOK(Idle, generation', playbackToken', observations', accepted') /\ ~In(Idle) /\ Idle.token = 0
    BY <1>2, IdleOK, IdleType DEF TypeSession
  <2> QED BY <1>4, <1>5, <1>6, <2>1, <2>2, <2>3, SlotStep
<1>8. CASE ~(first >= Len(observations'))
  <2>1. state' = "PLAYING" /\ StepBegins(FreeSlot, playbackToken + 1, first, 0)
    BY <1>2, <1>8 DEF LoopTurn
  <2>2. PICK a :
           /\ act' = [act EXCEPT ![FreeSlot] = a]
           /\ SlotOK(a, generation', playbackToken', observations', accepted')
           /\ a.phase # "idle" /\ a.token = playbackToken + 1 /\ a.gen = generation'
           /\ \/ ~In(a) /\ isStepInProgress = TRUE /\ UNCHANGED isStepInProgress
              \/ isStepInProgress = FALSE /\ In(a) /\ isStepInProgress' = TRUE
    <3>1. first < Len(observations') /\ playbackToken + 1 <= playbackToken' /\ playbackToken + 1 # 0
      BY <1>1, <1>2, <1>8
    <3> QED BY <1>1, <1>2, <1>4, <2>1, <3>1, Begun
  <2>3. Owner(a, generation', playbackToken') /\ a.token > playbackToken
    BY <1>2, <2>2 DEF Owner
  <2>4. TypeControls'
    BY <1>1, <1>2, <2>1, <2>2 DEF TypeControls, States
  <2> QED BY <1>4, <1>5, <1>6, <2>2, <2>3, <2>4, SlotStep
<1> QED BY <1>7, <1>8

-----------------------------------------------------------------------------
(* The user's actions.                                                     *)

LEMMA AgedNow ==
  ASSUME IInv
  PROVE  /\ playbackToken \in Nat /\ generation \in Nat /\ observations \in Seq(Nat)
         /\ actions \in Nat /\ actions + 1 \in Nat
BY LimitsAssumption DEF IInv, TypeSession, TypePlayback

LEMMA LoadTrajectoryInv ==
  ASSUME IInv, NEW tr \in Trajectories, LoadTrajectory(tr)
  PROVE  IInv'
<1>1. Aged /\ generation < generation' /\ playbackToken' = playbackToken
  BY AgedNow DEF LoadTrajectory, Aged
<1>2. TypeSession'
  <2>1. tr \in Seq(Nat)
    BY TracksAssumption
  <2>2. load' \in [track : Seq(Nat), resume : BOOLEAN]
    BY <2>1 DEF LoadTrajectory
  <2>3. actions' \in 0..MaxActions
    BY LimitsAssumption DEF LoadTrajectory, UserActs, IInv, TypeSession
  <2> QED BY <2>2, <2>3 DEF LoadTrajectory, IInv, TypeSession
<1>3. TypeControls'
  BY DEF LoadTrajectory, IInv, TypePlayback, TypeControls, States
<1>4. FlagOK'
  BY DEF LoadTrajectory, IInv, FlagOK
<1>5. ProgressOK'
  BY DEF LoadTrajectory, ProgressOK, Confirmed
<1>6. Waiting(load') + actions <= Waiting(load) + actions'
  BY AgedNow DEF LoadTrajectory, UserActs, Waiting
<1> QED BY <1>1, <1>2, <1>3, <1>4, <1>5, <1>6, QuietStep DEF LoadTrajectory, LoadOK

LEMMA PauseInv ==
  ASSUME IInv, Pause
  PROVE  IInv'
<1>1. Aged
  BY AgedNow DEF Pause, Aged
<1>2. TypeSession'
  <2>1. actions' \in 0..MaxActions
    BY LimitsAssumption DEF Pause, UserActs, IInv, TypeSession
  <2> QED BY <2>1 DEF Pause, IInv, TypeSession
<1>3. TypeControls' /\ state' # "PLAYING"
  BY DEF Pause, Stopped, IInv, TypePlayback, TypeControls, States
<1>4. FlagOK' /\ ProgressOK' /\ LoadOK'
  BY DEF Pause, IInv, FlagOK, ProgressOK, LoadOK
<1>5. Waiting(load') + actions <= Waiting(load) + actions'
  BY AgedNow DEF Pause, UserActs, Waiting
<1> QED BY <1>1, <1>2, <1>3, <1>4, <1>5, QuietStep DEF Pause

LEMMA ResetInv ==
  ASSUME IInv, NEW n \in {1, 2}, Reset(n)
  PROVE  IInv'
<1>1. Aged /\ generation < generation'
  BY AgedNow DEF Reset, Aged
<1>2. TypeSession'
  <2>1. actions' \in 0..MaxActions
    BY LimitsAssumption DEF Reset, UserActs, IInv, TypeSession
  <2> QED BY <2>1 DEF Reset, IInv, TypeSession
<1>3. TypeControls' /\ state' # "PLAYING"
  <2>1. /\ state' = "READY" /\ playbackToken' = playbackToken + 1
        /\ isStepInProgress' = FALSE /\ currentIndex' = 0
    BY DEF Reset
  <2>2. playbackToken' \in Nat /\ state' \in States
    BY <2>1, AgedNow DEF States
  <2> QED BY <2>1, <2>2 DEF TypeControls
<1>4. FlagOK'
  BY DEF Reset, FlagOK
<1>5. ProgressOK' /\ LoadOK'
  BY DEF Reset, ProgressOK, LoadOK, Confirmed, IInv, TypeSession
<1>6. Waiting(load') + actions <= Waiting(load) + actions'
  BY AgedNow DEF Reset, UserActs, Waiting
<1> QED BY <1>1, <1>2, <1>3, <1>4, <1>5, <1>6, QuietStep DEF Reset

LEMMA SuspendInv ==
  ASSUME IInv, Suspend
  PROVE  IInv'
<1>1. Aged
  BY AgedNow DEF Suspend, Aged
<1>2. TypeSession'
  <2>1. actions' \in 0..MaxActions
    BY LimitsAssumption DEF Suspend, UserActs, IInv, TypeSession
  <2> QED BY <2>1 DEF Suspend, IInv, TypeSession
<1>3. TypeControls' /\ state' # "PLAYING"
  BY DEF Suspend, Stopped, IInv, TypePlayback, TypeControls, States
<1>4. FlagOK' /\ ProgressOK' /\ LoadOK'
  BY DEF Suspend, IInv, FlagOK, ProgressOK, LoadOK
<1>5. Waiting(load') + actions <= Waiting(load) + actions'
  BY AgedNow DEF Suspend, UserActs, Waiting
<1> QED BY <1>1, <1>2, <1>3, <1>4, <1>5, QuietStep DEF Suspend

(* Room for one more activity, in an action of the user.                   *)
LEMMA Room ==
  ASSUME IInv, UserActs
  PROVE  /\ actions' \in 0..MaxActions
         /\ Cardinality(Busy) + 1 + Waiting(load) <= actions'
         /\ Cardinality(Busy) \in Nat /\ Cardinality(Busy) < MaxActions
         /\ Cardinality(Busy) + 1 <= actions'
<1>1. Cardinality(Busy) \in Nat /\ actions \in Nat /\ Waiting(load) \in Nat
  BY AgedNow, BusyFinite DEF Waiting
<1>2. Cardinality(Busy) + Waiting(load) <= actions
  BY DEF IInv, BusyOK
<1> QED BY <1>1, <1>2, LimitsAssumption DEF UserActs

LEMMA PlayInv ==
  ASSUME IInv, Play
  PROVE  IInv'
<1>1. /\ UNCHANGED <<generation, observations, lastAccepted, load, backend, late, deletes,
                     accepted>>
      /\ StartPlaying(currentIndex) /\ UserActs
  BY DEF Play
<1>2. Aged
  BY <1>1, AgedNow DEF StartPlaying, Aged
<1>3. TypeSession'
  BY <1>1, Room DEF IInv, TypeSession
<1>4. /\ currentIndex \in Nat /\ currentIndex <= Len(observations')
      /\ Confirmed(currentIndex, accepted') /\ LoadOK'
  BY <1>1 DEF IInv, ProgressOK, LoadOK, TypePlayback
<1> QED BY <1>1, <1>2, <1>3, <1>4, Room, StartInv

LEMMA RouteTrackType ==
  ASSUME lastAccepted \in Nat, NEW n \in RouteLengths
  PROVE  RouteTrack(n) \in Seq(Nat)
<1> DEFINE base == IF lastAccepted > 0 THEN lastAccepted + RerouteGap ELSE PastBase
<1>1. base \in Nat /\ n \in Nat /\ Interval \in Nat
  BY TimesAssumption, TracksAssumption
<1> HIDE DEF base
<1>2. \A i \in 1..n : base + (i - 1) * Interval \in Nat
  <2>1. \A i \in 1..n : i - 1 \in Nat
    OBVIOUS
  <2>2. \A j \in Nat : j * Interval \in Nat
    BY <1>1
  <2> QED BY <1>1, <2>1, <2>2
<1>3. [i \in 1..n |-> base + (i - 1) * Interval] \in Seq(Nat)
  BY <1>1, <1>2
<1> QED BY <1>3 DEF RouteTrack, base

LEMMA RerouteInv ==
  ASSUME IInv, NEW n \in RouteLengths, Reroute(n)
  PROVE  IInv'
<1>1. /\ generation' = generation + 1 /\ observations' = RouteTrack(n)
      /\ load' = NoLoad /\ accepted' = {} /\ UserActs
      /\ UNCHANGED <<lastAccepted, backend, late, deletes>>
  BY DEF Reroute
<1>2. TypeSession'
  BY <1>1, Room, RouteTrackType DEF IInv, TypeSession
<1>3. LoadOK' /\ Waiting(load') = 0
  BY <1>1 DEF LoadOK, Waiting
<1>4. CASE state = "PLAYING"
  <2>1. StartPlaying(0)
    BY <1>4 DEF Reroute, TrackReady
  <2>2. Aged
    BY <1>1, <2>1, AgedNow DEF StartPlaying, Aged
  <2>3. 0 <= Len(observations') /\ Confirmed(0, accepted')
    BY <1>2 DEF TypeSession, Confirmed
  <2>4. Cardinality(Busy) + 1 + Waiting(load') <= actions'
    BY <1>1, <1>3, Room
  <2> QED BY <1>1, <1>2, <1>3, <2>1, <2>2, <2>3, <2>4, StartInv
<1>5. CASE state # "PLAYING"
  <2>1. /\ state' = "READY" /\ currentIndex' = 0
        /\ UNCHANGED <<playbackToken, isStepInProgress, act>>
    BY <1>5 DEF Reroute, TrackReady
  <2>2. Aged
    BY <1>1, <2>1, AgedNow DEF Aged
  <2>3. TypeControls'
    BY <2>1 DEF TypeControls, States, IInv, TypePlayback
  <2>4. FlagOK'
    BY <1>1, <2>1 DEF IInv, FlagOK
  <2>5. ProgressOK'
    BY <1>2, <2>1 DEF ProgressOK, TypeSession, Confirmed
  <2>6. Waiting(load') + actions <= Waiting(load) + actions'
    BY <1>1, AgedNow DEF UserActs, Waiting
  <2> QED BY <1>2, <1>3, <2>1, <2>2, <2>3, <2>4, <2>5, <2>6, QuietStep
<1> QED BY <1>4, <1>5

LEMMA StepInv ==
  ASSUME IInv, Step
  PROVE  IInv'
<1>1. /\ UserActs /\ ~isStepInProgress
      /\ UNCHANGED <<generation, observations, playbackToken, currentIndex, lastAccepted, load,
                     backend, late, deletes, accepted>>
  BY DEF Step
<1>2. Aged
  BY <1>1, AgedNow DEF Aged
<1>3. TypeSession'
  BY <1>1, Room DEF IInv, TypeSession
<1>4. ProgressOK' /\ LoadOK'
  BY <1>1 DEF IInv, ProgressOK, LoadOK
<1>5. CASE currentIndex >= Len(observations)
  <2>1. state' = "COMPLETE" /\ UNCHANGED <<isStepInProgress, act>>
    BY <1>5 DEF Step
  <2>2. TypeControls'
    BY <1>1, <2>1 DEF TypeControls, States, IInv, TypePlayback
  <2>3. FlagOK'
    BY <1>1, <2>1 DEF IInv, FlagOK
  <2>4. Waiting(load') + actions <= Waiting(load) + actions'
    BY <1>1, AgedNow DEF UserActs, Waiting
  <2> QED BY <1>2, <1>3, <1>4, <2>1, <2>2, <2>3, <2>4, QuietStep
<1>6. CASE ~(currentIndex >= Len(observations))
  <2>1. StepBegins(FreeSlot, 0, currentIndex, 0) /\ UNCHANGED state
    BY <1>6 DEF Step
  <2>2. FreeSlot \in Slots /\ act[FreeSlot].phase = "idle"
    BY <1>1, Room, FreeSlotIdle
  <2>3. /\ currentIndex \in Nat /\ currentIndex < Len(observations')
        /\ Confirmed(currentIndex, accepted') /\ playbackToken' \in Nat
        /\ 0 <= playbackToken'
    BY <1>1, <1>6 DEF IInv, ProgressOK, TypePlayback, TypeSession
  <2>4. PICK a :
          /\ act' = [act EXCEPT ![FreeSlot] = a]
          /\ SlotOK(a, generation', playbackToken', observations', accepted')
          /\ a.phase # "idle" /\ a.token = 0 /\ a.gen = generation'
          /\ \/ ~In(a) /\ isStepInProgress = TRUE /\ UNCHANGED isStepInProgress
             \/ isStepInProgress = FALSE /\ In(a) /\ isStepInProgress' = TRUE
    BY <1>1, <1>3, <2>1, <2>2, <2>3, Begun
  <2>5. isStepInProgress = FALSE /\ In(a) /\ isStepInProgress' = TRUE
    BY <1>1, <2>4
  <2>6. TypeControls'
    BY <1>1, <2>1, <2>5 DEF TypeControls, IInv, TypePlayback
  <2>7. BusyOK'
    <3>1. Cardinality(Busy') <= Cardinality(Busy) + 1 /\ Cardinality(Busy') \in Nat
      BY <2>2, <2>4, BusyChanged
    <3>2. actions' \in Nat /\ Waiting(load) \in Nat /\ load' = load
      BY <1>1, AgedNow DEF UserActs, Waiting
    <3> QED BY <1>1, <3>1, <3>2, Room DEF BusyOK
  <2>8. ~Owner(act[FreeSlot], generation, playbackToken)
    BY <2>2 DEF Owner
  <2> QED BY <1>1, <1>2, <1>3, <1>4, <2>1, <2>2, <2>4, <2>5, <2>6, <2>7, <2>8, SlotStep
<1> QED BY <1>5, <1>6

LEMMA LoadArrivesInv ==
  ASSUME IInv, LoadArrives
  PROVE  IInv'
<1>1. /\ load # NoLoad /\ observations' = load.track /\ load' = NoLoad
      /\ UNCHANGED <<generation, lastAccepted, backend, late, deletes, actions, accepted>>
  BY DEF LoadArrives
<1>2. load.track \in Seq(Nat)
  BY <1>1 DEF IInv, TypeSession
<1>3. TypeSession' /\ observations = <<>>
  BY <1>1, <1>2 DEF IInv, TypeSession, LoadOK
<1>4. LoadOK' /\ Waiting(load') = 0 /\ Waiting(load) = 1
  BY <1>1 DEF LoadOK, Waiting
<1>5. CASE load.resume
  <2>1. StartPlaying(0)
    BY <1>5 DEF LoadArrives, TrackReady
  <2>2. Aged
    BY <1>1, <1>3, <2>1, AgedNow DEF StartPlaying, Aged
  <2>3. 0 <= Len(observations') /\ Confirmed(0, accepted')
    BY <1>3 DEF TypeSession, Confirmed
  <2>4. Cardinality(Busy) + 1 + Waiting(load') <= actions'
    BY <1>1, <1>4, BusyFinite, AgedNow DEF IInv, BusyOK
  <2> QED BY <1>1, <1>3, <1>4, <2>1, <2>2, <2>3, <2>4, StartInv
<1>6. CASE ~load.resume
  <2>1. /\ state' = "READY" /\ currentIndex' = 0
        /\ UNCHANGED <<playbackToken, isStepInProgress, act>>
    BY <1>6 DEF LoadArrives, TrackReady
  <2>2. Aged
    BY <1>1, <1>3, <2>1, AgedNow DEF Aged
  <2>3. TypeControls'
    BY <2>1 DEF TypeControls, States, IInv, TypePlayback
  <2>4. FlagOK'
    BY <1>1, <2>1 DEF IInv, FlagOK
  <2>5. ProgressOK'
    BY <1>3, <2>1 DEF ProgressOK, TypeSession, Confirmed
  <2>6. Waiting(load') + actions <= Waiting(load) + actions'
    BY <1>1, <1>4, AgedNow
  <2> QED BY <1>3, <1>4, <2>1, <2>2, <2>3, <2>4, <2>5, <2>6, QuietStep
<1> QED BY <1>5, <1>6

LEMMA LoadFailsInv ==
  ASSUME IInv, LoadFails
  PROVE  IInv'
<1>1. Aged
  BY AgedNow DEF LoadFails, Aged
<1>2. TypeSession' /\ TypeControls' /\ state' # "PLAYING"
  BY DEF LoadFails, IInv, TypeSession, TypePlayback, TypeControls, States
<1>3. FlagOK' /\ ProgressOK' /\ LoadOK'
  BY DEF LoadFails, IInv, FlagOK, ProgressOK, LoadOK
<1>4. Waiting(load') + actions <= Waiting(load) + actions'
  BY AgedNow DEF LoadFails, Waiting
<1> QED BY <1>1, <1>2, <1>3, <1>4, QuietStep DEF LoadFails

-----------------------------------------------------------------------------
(* The network.                                                            *)

LEMMA IngestLateInv ==
  ASSUME IInv, NEW t \in late, IngestLate(t)
  PROVE  IInv'
<1>1. UNCHANGED <<client, act, deletes, actions, accepted>>
  BY DEF IngestLate
<1>2. Aged /\ TypeControls' /\ FlagOK' /\ ProgressOK' /\ LoadOK'
  BY <1>1, AgedNow DEF client, Aged, IInv, TypePlayback, TypeControls, FlagOK, ProgressOK, LoadOK
<1>3. TypeSession'
  <2>1. t \in Nat /\ backend' \in {backend, t} /\ late' \subseteq late
    BY DEF IngestLate, IInv, TypeSession
  <2> QED BY <1>1, <2>1 DEF client, IInv, TypeSession
<1>4. Waiting(load') + actions <= Waiting(load) + actions'
  BY <1>1, AgedNow DEF client, Waiting
<1> QED BY <1>1, <1>2, <1>3, <1>4, QuietStep DEF client

LEMMA DeleteInv ==
  ASSUME IInv, Delete
  PROVE  IInv'
<1>1. UNCHANGED <<client, act, late, actions, accepted>>
  BY DEF Delete
<1>2. Aged /\ TypeControls' /\ FlagOK' /\ ProgressOK' /\ LoadOK'
  BY <1>1, AgedNow DEF client, Aged, IInv, TypePlayback, TypeControls, FlagOK, ProgressOK, LoadOK
<1>3. TypeSession'
  <2>1. deletes' \in Nat /\ backend' \in Nat
    BY DEF Delete, IInv, TypeSession
  <2> QED BY <1>1, <2>1 DEF client, IInv, TypeSession
<1>4. Waiting(load') + actions <= Waiting(load) + actions'
  BY <1>1, AgedNow DEF client, Waiting
<1> QED BY <1>1, <1>2, <1>3, <1>4, QuietStep DEF client

(* An activity that goes on, or ends.                                      *)
LEMMA ActivityStep ==
  ASSUME IInv, TypeSession', TypeControls', NEW s \in Slots, act[s].phase # "idle", NEW a,
         act' = [act EXCEPT ![s] = a],
         UNCHANGED <<generation, playbackToken, observations, load, actions>>,
         accepted \subseteq accepted',
         SlotOK(a, generation, playbackToken, observations, accepted'),
         a.token = 0 \/ a.token = act[s].token,
         \/ (In(a) <=> In(act[s])) /\ UNCHANGED isStepInProgress
         \/ In(act[s]) /\ ~In(a) /\ isStepInProgress' = FALSE
         \/ isStepInProgress = FALSE /\ In(a) /\ isStepInProgress' = TRUE,
         state' = "PLAYING" =>
           /\ state = "PLAYING"
           /\ Owner(act[s], generation, playbackToken) => Owner(a, generation, playbackToken),
         ProgressOK'
  PROVE  IInv'
<1>1. Aged
  BY AgedNow DEF Aged
<1>2. BusyOK'
  <2>1. Cardinality(Busy') <= Cardinality(Busy) /\ Cardinality(Busy') \in Nat /\ Cardinality(Busy) \in Nat
    BY BusyChanged
  <2>2. Cardinality(Busy) + Waiting(load) <= actions /\ Waiting(load) \in Nat /\ actions \in Nat
    BY AgedNow DEF IInv, BusyOK, Waiting
  <2> QED BY <2>1, <2>2 DEF BusyOK
<1>3. LoadOK'
  BY DEF IInv, LoadOK
<1>4. state' = "PLAYING" =>
        \/ Owner(a, generation', playbackToken')
        \/ /\ state = "PLAYING" /\ UNCHANGED <<generation, playbackToken>>
           /\ ~Owner(act[s], generation, playbackToken)
  OBVIOUS
<1>5. SlotOK(a, generation', playbackToken', observations', accepted')
  OBVIOUS
<1> QED BY <1>1, <1>2, <1>3, <1>4, <1>5, SlotStep

(* What is known of an activity.                                           *)
LEMMA SlotFacts ==
  ASSUME IInv, NEW s \in Slots
  PROVE  /\ act[s] \in Activity
         /\ SlotOK(act[s], generation, playbackToken, observations, accepted)
         /\ act[s].token \in Nat /\ act[s].gen \in Nat /\ act[s].index \in Nat
         /\ act[s].time \in Nat /\ act[s].retries \in Nat
BY DEF IInv, SlotsOK, SlotOK, Activity

LEMMA AnswerInv ==
  ASSUME IInv, NEW s \in Slots, act[s].phase = "sent",
         NEW reply \in {"accepted", "stale", "transient", "fatal"}, Answer(s, reply),
         accepted' \subseteq Nat, accepted \subseteq accepted',
         reply = "accepted" /\ act[s].gen = generation => act[s].index \in accepted',
         backend' \in Nat, late' \subseteq Nat,
         UNCHANGED <<client, deletes, actions>>
  PROVE  IInv'
<1> DEFINE a == [act[s] EXCEPT !.phase = "answered", !.reply = reply]
<1>1. act' = [act EXCEPT ![s] = a]
  BY DEF Answer, IInv, TypePlayback
<1>2. /\ a \in Activity /\ a.phase = "answered" /\ a.reply = reply
      /\ a.token = act[s].token /\ a.gen = act[s].gen /\ a.index = act[s].index
  BY SlotFacts DEF Activity, Phases, Replies
<1> HIDE DEF a
<1>3. SlotOK(a, generation, playbackToken, observations, accepted') /\ In(a) /\ In(act[s])
  BY <1>2, SlotFacts DEF SlotOK, In, Confirmed
<1>4. TypeSession' /\ TypeControls' /\ ProgressOK'
  BY DEF client, IInv, TypeSession, TypePlayback, TypeControls, ProgressOK, Confirmed
<1>5. Owner(act[s], generation, playbackToken) => Owner(a, generation, playbackToken)
  BY <1>2 DEF Owner
<1> QED BY <1>1, <1>2, <1>3, <1>4, <1>5, ActivityStep DEF client

LEMMA BackendInv ==
  ASSUME IInv, NEW s \in Slots, Backend(s)
  PROVE  IInv'
<1>1. accepted \subseteq Nat /\ backend \in Nat /\ late \subseteq Nat
  BY DEF IInv, TypeSession
<1>2. CASE Ingest(s)
  <2>1. CASE OlderThanBackend(act[s].time)
    BY <1>1, <1>2, <2>1, AnswerInv DEF Ingest
  <2>2. CASE ~OlderThanBackend(act[s].time)
    <3>1. /\ accepted' = IF act[s].gen = generation THEN accepted \cup {act[s].index} ELSE accepted
          /\ backend' = act[s].time
          /\ act[s].phase = "sent"
          /\ UNCHANGED <<client, late, deletes, actions>>
      BY <1>2, <2>2 DEF Ingest
    <3>2. PICK reply \in {"accepted", "transient", "fatal"} : Answer(s, reply)
      BY <1>2, <2>2 DEF Ingest
    <3>3. accepted' \subseteq Nat /\ backend' \in Nat /\ late' \subseteq Nat
      BY <1>1, <3>1, SlotFacts
    <3> QED BY <3>1, <3>2, <3>3, AnswerInv
  <2> QED BY <2>1, <2>2
<1>3. CASE Refuse(s)
  BY <1>1, <1>3, AnswerInv DEF Refuse
<1>4. CASE TimeOut(s)
  BY <1>1, <1>4, SlotFacts, AnswerInv DEF TimeOut
<1> QED BY <1>2, <1>3, <1>4 DEF Backend

-----------------------------------------------------------------------------
(* The continuations.                                                      *)

(* A step ends: its slot is free, or its loop sleeps.                      *)
LEMMA EndsInv ==
  ASSUME IInv, TypeSession', TypeControls', NEW s \in Slots, In(act[s]),
         NEW a, StepEnds(s, a),
         \/ a = Idle
         \/ /\ a \in Activity /\ a.phase = "sleeping" /\ a.token = act[s].token
            /\ a.token # 0 /\ a.gen = generation,
         UNCHANGED <<generation, playbackToken, observations, load, actions, accepted>>,
         state' = "PLAYING" =>
           /\ state = "PLAYING"
           /\ a = Idle => ~Owner(act[s], generation, playbackToken),
         ProgressOK'
  PROVE  IInv'
<1>1. act' = [act EXCEPT ![s] = a] /\ isStepInProgress' = FALSE /\ act[s].phase # "idle"
  BY DEF StepEnds, In
<1>2. SlotOK(a, generation, playbackToken, observations, accepted') /\ ~In(a)
  <2>1. CASE a = Idle
    BY <2>1, AgedNow, IdleOK
  <2>2. CASE a # Idle
    BY <2>2, AgedNow, SlotFacts DEF SlotOK, In
  <2> QED BY <2>1, <2>2
<1>3. a.token = 0 \/ a.token = act[s].token
  BY IdleType
<1>4. state' = "PLAYING" =>
        /\ state = "PLAYING"
        /\ Owner(act[s], generation, playbackToken) => Owner(a, generation, playbackToken)
  BY DEF Owner
<1> QED BY <1>1, <1>2, <1>3, <1>4, ActivityStep

LEMMA SleepingType ==
  ASSUME NEW token \in Nat, NEW n \in Nat, generation' \in Nat
  PROVE  /\ Sleeping(token, n) \in Activity /\ Sleeping(token, n).phase = "sleeping"
         /\ Sleeping(token, n).token = token /\ Sleeping(token, n).gen = generation'
BY DEF Sleeping, Idle, Activity, Phases, Replies

LEMMA FailInv ==
  ASSUME IInv, NEW s \in Slots, act[s].phase = "answered", act[s].gen = generation, Fail(s),
         UNCHANGED <<generation, observations, playbackToken, currentIndex, load, backend, late,
                     deletes, actions, accepted>>
  PROVE  IInv'
<1>1. In(act[s]) /\ ProgressOK' /\ generation' \in Nat
  BY AgedNow DEF In, IInv, ProgressOK
<1>2. CASE /\ InLoop(s) /\ Live(s) /\ MayRetry(s)
           /\ StepEnds(s, Sleeping(act[s].token, act[s].retries + 1))
           /\ UNCHANGED <<state, lastAccepted>>
  <2> DEFINE a == Sleeping(act[s].token, act[s].retries + 1)
  <2>1. /\ a \in Activity /\ a.phase = "sleeping" /\ a.token = act[s].token /\ a.token # 0
        /\ a.gen = generation
    BY <1>1, <1>2, SlotFacts, SleepingType DEF InLoop
  <2>2. a # Idle
    BY <2>1, IdleType
  <2>3. TypeSession' /\ TypeControls'
    BY <1>2 DEF StepEnds, IInv, TypeSession, TypePlayback, TypeControls
  <2> HIDE DEF a
  <2>4. StepEnds(s, a)
    BY <1>2 DEF a
  <2> QED BY <1>1, <1>2, <2>1, <2>2, <2>3, <2>4, EndsInv
<1>3. CASE StepEnds(s, Idle) /\ state' = "ERROR" /\ UNCHANGED lastAccepted
  <2>1. TypeSession' /\ TypeControls'
    BY <1>3 DEF StepEnds, IInv, TypeSession, TypePlayback, TypeControls, States
  <2> QED BY <1>1, <1>3, <2>1, EndsInv
<1>4. CASE InLoop(s) /\ ~Live(s) /\ Abandon(s)
  <2>1. TypeSession' /\ TypeControls'
    BY <1>4 DEF Abandon, StepEnds, IInv, TypeSession, TypePlayback, TypeControls
  <2>2. state = "PLAYING" => ~Owner(act[s], generation, playbackToken)
    BY <1>4 DEF Live, Owner
  <2> QED BY <1>1, <1>4, <2>1, <2>2, EndsInv DEF Abandon
<1> QED BY <1>2, <1>3, <1>4 DEF Fail

(* A continuation of an older generation.                                  *)
LEMMA AbandonInv ==
  ASSUME IInv, NEW s \in Slots, In(act[s]), act[s].gen # generation, Abandon(s),
         UNCHANGED <<generation, observations, playbackToken, currentIndex, load, backend, late,
                     deletes, actions, accepted>>
  PROVE  IInv'
<1>1. TypeSession' /\ TypeControls' /\ ProgressOK'
  BY DEF Abandon, StepEnds, IInv, TypeSession, TypePlayback, TypeControls, ProgressOK
<1>2. ~Owner(act[s], generation, playbackToken)
  BY DEF Owner
<1> QED BY <1>1, <1>2, EndsInv DEF Abandon

LEMMA AcceptInv ==
  ASSUME IInv, NEW s \in Slots, act[s].phase = "answered", act[s].gen = generation,
         act[s].reply = "accepted", Accept(s),
         UNCHANGED <<generation, observations, playbackToken, currentIndex, load, backend, late,
                     deletes, actions, accepted>>
  PROVE  IInv'
<1> DEFINE a == [act[s] EXCEPT !.phase = "evaluating", !.reply = "none"]
<1>1. act' = [act EXCEPT ![s] = a]
  BY DEF Accept, IInv, TypePlayback
<1>2. /\ a \in Activity /\ a.phase = "evaluating" /\ a.reply = "none"
      /\ a.token = act[s].token /\ a.gen = act[s].gen /\ a.index = act[s].index
  BY SlotFacts DEF Activity, Phases, Replies
<1> HIDE DEF a
<1>3. SlotOK(a, generation, playbackToken, observations, accepted') /\ In(a) /\ In(act[s])
  BY <1>2, SlotFacts DEF SlotOK, In, Confirmed
<1>4. TypeSession' /\ TypeControls' /\ ProgressOK'
  BY SlotFacts DEF Accept, IInv, TypeSession, TypePlayback, TypeControls, ProgressOK
<1>5. Owner(act[s], generation, playbackToken) => Owner(a, generation, playbackToken)
  BY <1>2 DEF Owner
<1> QED BY <1>1, <1>2, <1>3, <1>4, <1>5, ActivityStep DEF Accept

LEMMA ReceiveInv ==
  ASSUME IInv, NEW s \in Slots, Receive(s)
  PROVE  IInv'
<1>1. /\ act[s].phase = "answered" /\ In(act[s])
      /\ UNCHANGED <<generation, observations, playbackToken, currentIndex, load, backend, late,
                     deletes, actions, accepted>>
  BY DEF Receive, In
<1>2. CASE act[s].gen # generation /\ Abandon(s)
  BY <1>1, <1>2, AbandonInv
<1>3. CASE act[s].gen = generation /\ act[s].reply = "accepted" /\ Accept(s)
  BY <1>1, <1>3, AcceptInv
<1>4. CASE act[s].gen = generation /\ act[s].reply # "accepted" /\ Fail(s)
  BY <1>1, <1>4, FailInv
<1> QED BY <1>2, <1>3, <1>4 DEF Receive

LEMMA EvaluatedInv ==
  ASSUME IInv, NEW s \in Slots, Evaluated(s)
  PROVE  IInv'
<1>1. /\ act[s].phase = "evaluating" /\ In(act[s])
      /\ UNCHANGED <<generation, observations, playbackToken, load, backend, late,
                     deletes, actions, accepted>>
  BY DEF Evaluated, In
<1>2. CASE act[s].gen # generation /\ Abandon(s) /\ UNCHANGED currentIndex
  BY <1>1, <1>2, AbandonInv
<1>3. CASE /\ act[s].gen = generation
           /\ currentIndex' = act[s].index + 1
           /\ state' = IF act[s].index + 1 >= Len(observations) THEN "COMPLETE" ELSE state
           /\ StepEnds(s, AfterStep(s))
           /\ UNCHANGED lastAccepted
  <2>1. TypeSession' /\ TypeControls'
    <3>1. TypeSession'
      BY <1>1, <1>3 DEF IInv, TypeSession
    <3>2. currentIndex' \in Nat /\ isStepInProgress' \in BOOLEAN
      <4>1. act[s].index \in Nat
        BY SlotFacts
      <4>2. isStepInProgress' = FALSE
        BY <1>3 DEF StepEnds
      <4>3. currentIndex' \in Nat
        BY <1>3, <4>1
      <4>4. isStepInProgress' \in BOOLEAN
        BY <4>2
      <4> QED BY <4>3, <4>4
    <3>3. state' \in States
      BY <1>3 DEF States, IInv, TypePlayback
    <3> QED BY <1>1, <3>1, <3>2, <3>3, AgedNow DEF TypeControls
  <2>2. ProgressOK'
    <3>1. /\ act[s].index < Len(observations) /\ Confirmed(act[s].index, accepted)
          /\ act[s].index \in accepted /\ act[s].index \in Nat /\ Len(observations) \in Nat
      BY <1>1, <1>3, SlotFacts DEF SlotOK, IInv, TypeSession
    <3>2. Confirmed(act[s].index + 1, accepted)
      BY <3>1 DEF Confirmed
    <3> QED BY <1>1, <1>3, <3>1, <3>2 DEF ProgressOK
  <2> DEFINE a == AfterStep(s)
  <2>3. /\ a = Idle => ~(InLoop(s) /\ state' = "PLAYING" /\ act[s].token = playbackToken)
        /\ \/ a = Idle
           \/ /\ a \in Activity /\ a.phase = "sleeping" /\ a.token = act[s].token
              /\ a.token # 0 /\ a.gen = generation
    <3>1. CASE InLoop(s) /\ state' = "PLAYING" /\ act[s].token = playbackToken
      <4>1. a = Sleeping(act[s].token, 0)
        BY <3>1 DEF AfterStep
      <4>2. /\ a \in Activity /\ a.phase = "sleeping" /\ a.token = act[s].token
            /\ a.gen = generation
        <5>1. generation' = generation /\ generation' \in Nat /\ act[s].token \in Nat /\ 0 \in Nat
          BY <1>1, AgedNow, SlotFacts
        <5> QED BY <4>1, <5>1, SleepingType
      <4> QED BY <3>1, <4>2, IdleType DEF InLoop
    <3>2. CASE ~(InLoop(s) /\ state' = "PLAYING" /\ act[s].token = playbackToken)
      BY <3>2 DEF AfterStep
    <3> QED BY <3>1, <3>2
  <2> HIDE DEF a
  <2>4. StepEnds(s, a)
    BY <1>3 DEF a
  <2>5. state' = "PLAYING" =>
          state = "PLAYING" /\ (a = Idle => ~Owner(act[s], generation, playbackToken))
    BY <1>3, <2>3 DEF Owner, InLoop
  <2> QED BY <1>1, <2>1, <2>2, <2>3, <2>4, <2>5, EndsInv
<1> QED BY <1>2, <1>3 DEF Evaluated

LEMMA WakeInv ==
  ASSUME IInv, NEW s \in Slots, Wake(s)
  PROVE  IInv'
<1>1. /\ act[s].phase = "sleeping" /\ ~In(act[s]) /\ act[s].token # 0
      /\ UNCHANGED <<generation, observations, playbackToken, currentIndex, lastAccepted, load,
                     backend, late, deletes, actions, accepted>>
  BY SlotFacts DEF Wake, In, SlotOK
<1>2. TypeSession' /\ ProgressOK'
  BY <1>1 DEF IInv, TypeSession, ProgressOK
<1>3. SlotOK(Idle, generation, playbackToken, observations, accepted') /\ ~In(Idle) /\ Idle.token = 0
  BY AgedNow, IdleOK, IdleType
<1>4. CASE ~Live(s)
  <2>1. act' = [act EXCEPT ![s] = Idle] /\ UNCHANGED <<state, isStepInProgress>>
    BY <1>4 DEF Wake
  <2>2. TypeControls'
    BY <1>1, <2>1 DEF IInv, TypePlayback, TypeControls
  <2>3. state' = "PLAYING" => state = "PLAYING" /\ ~Owner(act[s], generation, playbackToken)
    BY <1>4, <2>1 DEF Live, Owner
  <2> QED BY <1>1, <1>2, <1>3, <2>1, <2>2, <2>3, ActivityStep
<1>5. CASE Live(s)
  <2>1. LoopTurn(s, act[s].token, currentIndex, act[s].retries)
    BY <1>5 DEF Wake
  <2>2. state = "PLAYING" /\ act[s].gen = generation /\ act[s].token = playbackToken
    BY <1>5 DEF Live
  <2>3. CASE currentIndex >= Len(observations')
    <3>1. state' = "COMPLETE" /\ act' = [act EXCEPT ![s] = Idle] /\ UNCHANGED isStepInProgress
      BY <2>1, <2>3 DEF LoopTurn
    <3>2. TypeControls'
      BY <1>1, <3>1 DEF IInv, TypePlayback, TypeControls, States
    <3> QED BY <1>1, <1>2, <1>3, <3>1, <3>2, ActivityStep
  <2>4. CASE ~(currentIndex >= Len(observations'))
    <3>1. state' = "PLAYING" /\ StepBegins(s, act[s].token, currentIndex, act[s].retries)
      BY <2>1, <2>4 DEF LoopTurn
    <3>2. /\ currentIndex \in Nat /\ currentIndex < Len(observations')
          /\ Confirmed(currentIndex, accepted') /\ playbackToken' \in Nat
          /\ act[s].token <= playbackToken' /\ act[s].token \in Nat /\ act[s].retries \in Nat
      BY <1>1, <2>2, <2>4, AgedNow, SlotFacts DEF IInv, ProgressOK, TypePlayback, TypeSession
    <3>3. PICK a :
            /\ act' = [act EXCEPT ![s] = a]
            /\ SlotOK(a, generation', playbackToken', observations', accepted')
            /\ a.phase # "idle" /\ a.token = act[s].token /\ a.gen = generation'
            /\ \/ ~In(a) /\ isStepInProgress = TRUE /\ UNCHANGED isStepInProgress
               \/ isStepInProgress = FALSE /\ In(a) /\ isStepInProgress' = TRUE
      <4>1. isStepInProgress => act[s].token # 0
        BY <1>1
      <4> DEFINE token == act[s].token
                 n == act[s].retries
      <4> HIDE DEF token, n
      <4>2. StepBegins(s, token, currentIndex, n) /\ token \in Nat /\ n \in Nat
        BY <3>1, <3>2 DEF token, n
      <4>3. token <= playbackToken' /\ (isStepInProgress => token # 0)
        BY <3>2, <4>1 DEF token
      <4>4. PICK a :
              /\ act' = [act EXCEPT ![s] = a]
              /\ SlotOK(a, generation', playbackToken', observations', accepted')
              /\ a.phase # "idle" /\ a.token = token /\ a.gen = generation'
              /\ \/ ~In(a) /\ isStepInProgress = TRUE /\ UNCHANGED isStepInProgress
                 \/ isStepInProgress = FALSE /\ In(a) /\ isStepInProgress' = TRUE
        BY <1>2, <3>2, <4>2, <4>3, Begun
      <4> QED BY <4>4 DEF token
    <3>4. TypeControls'
      BY <1>1, <3>1, <3>3 DEF IInv, TypePlayback, TypeControls, States
    <3>5. Owner(a, generation, playbackToken)
      BY <1>1, <2>2, <3>3 DEF Owner
    <3>6. SlotOK(a, generation, playbackToken, observations, accepted')
      BY <1>1, <3>3
    <3> QED BY <1>1, <1>2, <2>2, <3>3, <3>4, <3>5, <3>6, ActivityStep
  <2> QED BY <2>3, <2>4
<1> QED BY <1>4, <1>5

-----------------------------------------------------------------------------
(* The theorems.                                                           *)

LEMMA InitInv == Init => IInv
<1> SUFFICES ASSUME Init PROVE IInv
  OBVIOUS
<1>1. TypeSession /\ TypePlayback
  <2>1. TypeSession
    <3>1. observations \in Seq(Nat) /\ 0 \in Nat /\ 1 \in Nat /\ 0 \in 0..MaxActions
      BY LimitsAssumption DEF Init
    <3> QED BY <3>1 DEF Init, TypeSession
  <2>2. act \in [Slots -> Activity]
    BY IdleType DEF Init
  <2>3. state \in States /\ playbackToken \in Nat /\ currentIndex \in Nat
    BY DEF Init, States
  <2>4. isStepInProgress \in BOOLEAN
    BY DEF Init
  <2> QED BY <2>1, <2>2, <2>3, <2>4 DEF TypePlayback
<1>2. \A s \in Slots : act[s] = Idle
  BY DEF Init
<1>3. SlotsOK /\ Distinct /\ FlagOK
  BY <1>1, <1>2, IdleOK, IdleType
     DEF Init, SlotsOK, Distinct, FlagOK, TypeSession, TypePlayback
<1>4. Owned /\ ProgressOK /\ LoadOK
  BY DEF Init, Owned, ProgressOK, LoadOK, Confirmed
<1>5. BusyOK
  <2>1. Busy = {}
    BY <1>2, IdleType DEF Busy
  <2> QED BY <2>1, FS_EmptySet DEF Init, BusyOK, Waiting
<1> QED BY <1>1, <1>3, <1>4, <1>5 DEF IInv

LEMMA NextInv == IInv /\ [Next]_vars => IInv'
<1> SUFFICES ASSUME IInv, [Next]_vars PROVE IInv'
  OBVIOUS
<1>1. CASE User
  BY <1>1, LoadTrajectoryInv, RerouteInv, StepInv, PlayInv, PauseInv, SuspendInv, ResetInv DEF User
<1>2. CASE LoadArrives \/ LoadFails
  BY <1>2, LoadArrivesInv, LoadFailsInv
<1>3. CASE Delete \/ \E t \in late : IngestLate(t)
  BY <1>3, DeleteInv, IngestLateInv
<1>4. CASE \E s \in Slots : Backend(s) \/ Continue(s)
  BY <1>4, BackendInv, ReceiveInv, EvaluatedInv, WakeInv DEF Continue
<1>5. CASE UNCHANGED vars
  <2>1. Aged /\ TypeSession' /\ TypeControls' /\ FlagOK' /\ ProgressOK' /\ LoadOK'
    BY <1>5, AgedNow DEF vars, client, Aged, IInv, TypeSession, TypePlayback, TypeControls,
       FlagOK, ProgressOK, LoadOK
  <2>2. Waiting(load') + actions <= Waiting(load) + actions'
    BY <1>5, AgedNow DEF vars, client, Waiting
  <2> QED BY <1>5, <2>1, <2>2, QuietStep DEF vars, client
<1> QED BY <1>1, <1>2, <1>3, <1>4, <1>5 DEF Next

LEMMA Invariance == Spec => []IInv
BY InitInv, NextInv, PTL DEF Spec

(* Every variable stays in its type.                                       *)
THEOREM TypeCorrect == Spec => []TypeOK
<1>1. IInv => TypeOK
  BY TypeParts DEF IInv
<1> QED BY <1>1, Invariance, PTL

(* PLAYING has exactly one loop behind it                                  *)
(* (test_replay_loop_ownership.mjs).                                       *)
THEOREM PlaybackHasOwner == Spec => []PlaybackOwned
<1>1. IInv => PlaybackOwned
  <2> SUFFICES ASSUME IInv, state = "PLAYING"
               PROVE  \E s \in Slots : /\ act[s].phase # "idle" /\ InLoop(s) /\ Live(s)
                                       /\ \A r \in Slots \ {s} : ~(InLoop(r) /\ Live(r))
    BY DEF PlaybackOwned
  <2>1. PICK s \in Slots : Owner(act[s], generation, playbackToken)
    BY DEF IInv, Owned
  <2>2. act[s].phase # "idle" /\ InLoop(s) /\ Live(s)
    BY <2>1 DEF Owner, InLoop, Live
  <2>3. ASSUME NEW r \in Slots \ {s} PROVE ~(InLoop(r) /\ Live(r))
    BY <2>1 DEF IInv, Distinct, Owner, Live
  <2> QED BY <2>2, <2>3
<1> QED BY <1>1, Invariance, PTL

(* The index passes only what the backend has accepted (replay.js:8).      *)
THEOREM ProgressIsConfirmed == Spec => []ProgressConfirmed
<1>1. IInv => ProgressConfirmed
  <2> SUFFICES ASSUME IInv, NEW j \in 0..(currentIndex - 1)
               PROVE  j \in accepted /\ currentIndex <= Len(observations)
    BY DEF IInv, ProgressOK, ProgressConfirmed
  <2>1. j \in Nat /\ j < currentIndex
    BY DEF IInv, TypePlayback
  <2> QED BY <2>1 DEF IInv, ProgressOK, Confirmed
<1> QED BY <1>1, Invariance, PTL

(* The flag turns steps away only while one is under way (replay.js:312).  *)
THEOREM FlagIsReleased == Spec => []FlagReleased
<1>1. IInv => FlagReleased
  BY DEF IInv, FlagOK, In, FlagReleased, InStep
<1> QED BY <1>1, Invariance, PTL

-----------------------------------------------------------------------------
(* Ended sessions.                                                         *)

LEMMA BeginsInSlot ==
  ASSUME NEW s, NEW token, NEW i, NEW n, LoopTurn(s, token, i, n) \/ StepBegins(s, token, i, n)
  PROVE  \E a : act' = [act EXCEPT ![s] = a]
BY DEF LoopTurn, StepBegins

(* What a user's action starts is in a slot of no session.                 *)
LEMMA FreshSlot ==
  ASSUME IInv, FreeSlot \in Slots, act[FreeSlot].phase = "idle",
         NEW a, act' = [act EXCEPT ![FreeSlot] = a],
         NEW s \in Slots, act[s].gen # 0
  PROVE  act'[s] = act[s]
<1>1. act[FreeSlot].gen = 0
  BY SlotFacts, IdleType DEF SlotOK
<1> QED BY <1>1 DEF IInv, TypePlayback

LEMMA StartFresh ==
  ASSUME IInv, NEW i, StartPlaying(i), Cardinality(Busy) < MaxActions,
         NEW s \in Slots, act[s].gen # 0
  PROVE  act'[s] = act[s]
<1>1. FreeSlot \in Slots /\ act[FreeSlot].phase = "idle"
  BY FreeSlotIdle
<1>2. \E a : act' = [act EXCEPT ![FreeSlot] = a]
  BY BeginsInSlot DEF StartPlaying
<1> QED BY <1>1, <1>2, FreshSlot

LEMMA UserFresh ==
  ASSUME IInv, User, NEW s \in Slots, act[s].gen # 0
  PROVE  act'[s] = act[s]
<1>1. Cardinality(Busy) < MaxActions
  BY Room DEF User, LoadTrajectory, Reroute, Step, Play, Pause, Suspend, Reset
<1>2. CASE \/ \E tr \in Trajectories : LoadTrajectory(tr)
           \/ Pause \/ Suspend \/ \E n \in {1, 2} : Reset(n)
  BY <1>2 DEF LoadTrajectory, Pause, Suspend, Reset
<1>3. CASE \E n \in RouteLengths : Reroute(n)
  <2>1. act' = act \/ StartPlaying(0)
    BY <1>3 DEF Reroute, TrackReady
  <2> QED BY <1>1, <2>1, StartFresh
<1>4. CASE Play
  BY <1>1, <1>4, StartFresh DEF Play
<1>5. CASE Step
  <2>1. FreeSlot \in Slots /\ act[FreeSlot].phase = "idle"
    BY <1>1, FreeSlotIdle
  <2>2. act' = act \/ \E a : act' = [act EXCEPT ![FreeSlot] = a]
    BY <1>5, BeginsInSlot DEF Step
  <2> QED BY <2>1, <2>2, FreshSlot
<1> QED BY <1>2, <1>3, <1>4, <1>5 DEF User

LEMMA LoadArrivesFresh ==
  ASSUME IInv, LoadArrives, NEW s \in Slots, act[s].gen # 0
  PROVE  act'[s] = act[s]
<1>1. Cardinality(Busy) < MaxActions
  <2>1. load # NoLoad /\ Cardinality(Busy) \in Nat /\ actions \in 0..MaxActions
    BY BusyFinite DEF LoadArrives, IInv, TypeSession
  <2>2. Cardinality(Busy) + 1 <= actions
    BY <2>1 DEF IInv, BusyOK, Waiting
  <2> QED BY <2>1, <2>2, LimitsAssumption
<1>2. act' = act \/ StartPlaying(0)
  BY DEF LoadArrives, TrackReady
<1> QED BY <1>1, <1>2, StartFresh

(* A continuation changes its own slot.                                    *)
LEMMA ContinueSlot ==
  ASSUME IInv, NEW r \in Slots, Continue(r), NEW s \in Slots, s # r
  PROVE  act'[s] = act[s]
<1>1. \E a : act' = [act EXCEPT ![r] = a]
  <2>1. CASE Receive(r)
    BY <2>1 DEF Receive, Abandon, Accept, Fail, StepEnds
  <2>2. CASE Evaluated(r)
    BY <2>2 DEF Evaluated, Abandon, StepEnds
  <2>3. CASE Wake(r)
    BY <2>3, BeginsInSlot DEF Wake
  <2> QED BY <2>1, <2>2, <2>3 DEF Continue
<1> QED BY <1>1 DEF IInv, TypePlayback

(* Of an older generation, it changes nothing else but the flag.           *)
LEMMA ContinueStale ==
  ASSUME NEW s \in Slots, Continue(s), act[s].gen # generation
  PROVE  UNCHANGED <<state, generation, playbackToken, currentIndex, observations, lastAccepted, load>>
<1>1. CASE Receive(s)
  BY <1>1 DEF Receive, Abandon
<1>2. CASE Evaluated(s)
  BY <1>2 DEF Evaluated, Abandon
<1>3. CASE Wake(s)
  BY <1>3 DEF Wake, Live
<1> QED BY <1>1, <1>2, <1>3 DEF Continue

(* The generation keeps the answers of ended sessions out (replay.js:7).   *)
THEOREM StaleIsInert == Spec => StaleInert
<1>1. ASSUME IInv, Next, NEW s \in Slots, act[s].gen \notin {0, generation}, act'[s] # act[s]
      PROVE  UNCHANGED <<state, generation, playbackToken, currentIndex, observations,
                         lastAccepted, load>>
  <2>1. ~User /\ ~LoadArrives
    BY <1>1, UserFresh, LoadArrivesFresh
  <2>2. ~LoadFails /\ ~Delete /\ \A t \in late : ~IngestLate(t)
    BY <1>1 DEF LoadFails, Delete, IngestLate
  <2>3. ASSUME NEW r \in Slots, Backend(r)
        PROVE  UNCHANGED client
    BY <2>3 DEF Backend, Ingest, Refuse, TimeOut
  <2>4. ASSUME NEW r \in Slots, Continue(r)
        PROVE  UNCHANGED <<state, generation, playbackToken, currentIndex, observations,
                           lastAccepted, load>>
    BY <1>1, <2>4, ContinueSlot, ContinueStale
  <2> QED BY <1>1, <2>1, <2>2, <2>3, <2>4 DEF Next, client
<1>2. IInv /\ [Next]_vars =>
        [\A s \in Slots :
           act[s].gen \notin {0, generation} /\ act'[s] # act[s] =>
             UNCHANGED <<state, generation, playbackToken, currentIndex,
                         observations, lastAccepted, load>>]_vars
  BY <1>1
<1> QED BY <1>2, Invariance, PTL DEF Spec, StaleInert
=============================================================================
