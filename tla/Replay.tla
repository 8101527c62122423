------------------------------- MODULE Replay -------------------------------
(***************************************************************************)
(* The trajectory replay controller of the demo cockpit (static/demo/js/   *)
(* replay.js): an asynchronous state machine that sends the observations   *)
(* of a trajectory to the realtime endpoint, one step at a time, while the *)
(* user plays, pauses, steps, resets, reroutes and reloads.                *)
(*                                                                         *)
(* JavaScript runs to completion, so an action reaches from one await to   *)
(* the next.  An activity is a manual step or a playback loop with the     *)
(* step it is executing; the awaits are the ingestion, the evaluation      *)
(* callback (onStep) and the loop's timers.  An activity whose generation  *)
(* or token has passed keeps running until its own check.                  *)
(*                                                                         *)
(* A track is the sequence of its timestamps.  The backend is reduced to   *)
(* the timestamp it compares with (DriverIngest holds the rest).           *)
(***************************************************************************)
EXTENDS Naturals, Sequences, FiniteSets

CONSTANTS
  Trajectories,    \* the dataset's trajectories
  RouteLengths,    \* observations generated from a route's polyline
  PastBase,        \* first timestamp of a route simulated without a past
  Interval,        \* time between generated observations
  RerouteGap,      \* from the last accepted observation to a new route's first
  Now,             \* the wall clock, later timestamps are sent as Now
  MaxStepRetries,  \* transient failures a loop absorbs in a row (3 in the code)
  NoLoad,          \* no trajectory is being fetched
  MaxActions       \* bound: user actions in a behaviour

ASSUME TracksAssumption ==
  /\ \A tr \in Trajectories : tr \in Seq(Nat \ {0})
  /\ RouteLengths \subseteq Nat \ {0, 1}

ASSUME TimesAssumption ==
  /\ PastBase \in Nat \ {0} /\ Now \in Nat \ {0}
  /\ Interval \in Nat /\ RerouteGap \in Nat /\ RerouteGap <= Interval

ASSUME LimitsAssumption == MaxStepRetries \in Nat /\ MaxActions \in Nat

VARIABLES
  state,             \* ReplayState
  generation,        \* of the session: load, route, reset and suspension end one
  playbackToken,     \* of the playback loop: play, pause and reset end one
  isStepInProgress,  \* the flag that admits one step
  currentIndex,      \* observations confirmed so far
  observations,      \* the track
  lastAccepted,      \* lastAcceptedTimestampMs, 0 when there is none
  load,              \* the fetch the current generation waits for
  act,               \* the activities
  backend,           \* the newest timestamp the backend holds for the driver
  late,              \* timestamps of requests given up, still under way
  deletes,           \* DELETE requests under way
  actions,           \* user actions so far
  (* History variables: they record what happened and steer nothing.       *)
  accepted           \* indices of the track that the backend has accepted

client == <<state, generation, playbackToken, isStepInProgress, currentIndex,
            observations, lastAccepted, load>>
vars == <<client, act, backend, late, deletes, actions, accepted>>

States == {"IDLE", "LOADING", "READY", "PLAYING", "PAUSED", "ERROR", "COMPLETE"}
Slots == 1..MaxActions
Phases == {"idle", "sleeping", "sent", "answered", "evaluating"}
Replies == {"none", "accepted", "stale", "transient", "fatal"}

(* A manual step has token 0.                                              *)
Idle == [phase |-> "idle", token |-> 0, gen |-> 0, index |-> 0, time |-> 0,
         reply |-> "none", retries |-> 0]

Activity == [phase : Phases, token : Nat, gen : Nat, index : Nat, time : Nat,
             reply : Replies, retries : Nat]

InStep(s) == act[s].phase \in {"sent", "answered", "evaluating"}
InLoop(s) == act[s].token # 0

(* The condition of the playback loop.                                     *)
Live(s) ==
  /\ state = "PLAYING"
  /\ act[s].gen = generation
  /\ act[s].token = playbackToken

(* Every activity is the work of an action of the user, so one is free.    *)
FreeSlot == CHOOSE s \in Slots : act[s].phase = "idle" /\
                 \A r \in Slots : act[r].phase = "idle" => s <= r

Init ==
  /\ state = "IDLE"
  /\ generation = 1
  /\ playbackToken = 0
  /\ isStepInProgress = FALSE
  /\ currentIndex = 0
  /\ observations = <<>>
  /\ lastAccepted = 0
  /\ load = NoLoad
  /\ act = [s \in Slots |-> Idle]
  /\ backend = 0
  /\ late = {}
  /\ deletes = 0
  /\ actions = 0
  /\ accepted = {}

-----------------------------------------------------------------------------
(* The pieces the handlers share.                                          *)

UserActs == actions < MaxActions /\ actions' = actions + 1

(* A timestamp of the future is never sent.                                *)
SentTime(t) == IF t > Now THEN Now ELSE t

(* What the step that starts at index i is doing.                          *)
Sending(token, i, retries) ==
  [phase |-> "sent", token |-> token, gen |-> generation', index |-> i,
   time |-> SentTime(observations'[i + 1]), reply |-> "none", retries |-> retries]

Sleeping(token, retries) ==
  [Idle EXCEPT !.phase = "sleeping", !.token = token, !.gen = generation',
               !.retries = retries]

(* step(): a step in progress turns a loop's step away, and the loop takes *)
(* that for a success.                                                     *)
StepBegins(s, token, i, retries) ==
  IF isStepInProgress
  THEN /\ act' = [act EXCEPT ![s] = Sleeping(token, 0)]
       /\ UNCHANGED isStepInProgress
  ELSE /\ isStepInProgress' = TRUE
       /\ act' = [act EXCEPT ![s] = Sending(token, i, retries)]

(* A turn of the playback loop at index i, up to its first await.          *)
LoopTurn(s, token, i, retries) ==
  IF i >= Len(observations')
  THEN /\ state' = "COMPLETE"
       /\ act' = [act EXCEPT ![s] = Idle]
       /\ UNCHANGED isStepInProgress
  ELSE /\ state' = "PLAYING"
       /\ StepBegins(s, token, i, retries)

(* play(): from the start when at the end; the loop's first turn is part   *)
(* of it.                                                                  *)
StartPlaying(i) ==
  LET first == IF i >= Len(observations') THEN 0 ELSE i
  IN  /\ currentIndex' = first
      /\ playbackToken' = playbackToken + 1
      /\ LoopTurn(FreeSlot, playbackToken + 1, first, 0)

(* The new track is in place; playback resumes if it was interrupted.      *)
TrackReady(resume) ==
  IF resume
  THEN StartPlaying(0)
  ELSE /\ state' = "READY"
       /\ currentIndex' = 0
       /\ UNCHANGED <<playbackToken, isStepInProgress, act>>

-----------------------------------------------------------------------------
(* The user, through the buttons and the driver controller.                *)

LoadTrajectory(tr) ==
  /\ UserActs
  /\ generation' = generation + 1
  /\ state' = "LOADING"
  /\ currentIndex' = 0
  /\ observations' = <<>>
  /\ load' = [track |-> tr, resume |-> state = "PLAYING"]
  /\ accepted' = {}
  /\ UNCHANGED <<playbackToken, isStepInProgress, lastAccepted, act, backend,
                 late, deletes>>

(* The fetch of an older generation returns without effect: only the one   *)
(* of the current generation is kept.                                      *)
LoadArrives ==
  /\ load # NoLoad
  /\ observations' = load.track
  /\ load' = NoLoad
  /\ UNCHANGED generation
  /\ TrackReady(load.resume)
  /\ UNCHANGED <<lastAccepted, backend, late, deletes, actions, accepted>>

LoadFails ==
  /\ load # NoLoad
  /\ state' = "ERROR"
  /\ load' = NoLoad
  /\ UNCHANGED <<generation, playbackToken, isStepInProgress, currentIndex,
                 observations, lastAccepted, act, backend, late, deletes,
                 actions, accepted>>

MutatedRouteTrack(n) ==
  LET base == IF lastAccepted > 0 THEN lastAccepted - Interval ELSE PastBase
  IN  [i \in 1..n |-> base + (i - 1) * Interval]

(* A simulated route continues from the last accepted timestamp, or lies   *)
(* in the past.                                                            *)
RouteTrack(n) ==
  LET base == IF lastAccepted > 0 THEN lastAccepted + RerouteGap ELSE PastBase
  IN  [i \in 1..n |-> base + (i - 1) * Interval]

(* loadFromPolyline: it has no await.                                      *)
Reroute(n) ==
  /\ UserActs
  /\ generation' = generation + 1
  /\ observations' = RouteTrack(n)
  /\ load' = NoLoad
  /\ accepted' = {}
  /\ TrackReady(state = "PLAYING")
  /\ UNCHANGED <<lastAccepted, backend, late, deletes>>

(* step() called by the button or by the start of a trip.                  *)
Step ==
  /\ UserActs
  /\ ~isStepInProgress
  /\ UNCHANGED <<generation, observations>>
  /\ IF currentIndex >= Len(observations)
     THEN /\ state' = "COMPLETE"
          /\ UNCHANGED <<isStepInProgress, act>>
     ELSE /\ StepBegins(FreeSlot, 0, currentIndex, 0)
          /\ UNCHANGED state
  /\ UNCHANGED <<playbackToken, currentIndex, lastAccepted, load, backend,
                 late, deletes, accepted>>

Play ==
  /\ UserActs
  /\ state # "PLAYING"
  /\ UNCHANGED <<generation, observations>>
  /\ StartPlaying(currentIndex)
  /\ UNCHANGED <<lastAccepted, load, backend, late, deletes, accepted>>

MutatedStopped == state

Stopped == IF state = "PLAYING" THEN "PAUSED" ELSE state

(* A sleep that pause or reset cancels ends its loop, as its token does    *)
(* when the timer fires: Wake stands for both.                             *)
Pause ==
  /\ UserActs
  /\ playbackToken' = playbackToken + 1
  /\ state' = Stopped
  /\ UNCHANGED <<generation, isStepInProgress, currentIndex, observations,
                 lastAccepted, load, act, backend, late, deletes, accepted>>

(* reset(), which returnToAvailable precedes by clearSession(): one or two *)
(* DELETE requests that nothing waits for.                                 *)
Reset(n) ==
  /\ UserActs
  /\ generation' = generation + 1
  /\ playbackToken' = playbackToken + 1
  /\ isStepInProgress' = FALSE
  /\ currentIndex' = 0
  /\ lastAccepted' = 0
  /\ deletes' = deletes + n
  /\ state' = "READY"
  /\ load' = NoLoad
  /\ accepted' = {}
  /\ UNCHANGED <<observations, act, backend, late>>

(* suspendForDebug: a new generation, a pause, and no load to wait for.    *)
Suspend ==
  /\ UserActs
  /\ generation' = generation + 1
  /\ playbackToken' = playbackToken + 1
  /\ state' = IF state = "LOADING" THEN "IDLE" ELSE Stopped
  /\ load' = NoLoad
  /\ UNCHANGED <<isStepInProgress, currentIndex, observations, lastAccepted,
                 act, backend, late, deletes, accepted>>

-----------------------------------------------------------------------------
(* The network and the backend.                                            *)

Answer(s, reply) ==
  act' = [act EXCEPT ![s].phase = "answered", ![s].reply = reply]

OlderThanBackend(t) == t < backend

(* The backend compares timestamps and accepts; it may still fail to say   *)
(* so, or refuse what follows the save (409, 400).                         *)
Ingest(s) ==
  /\ act[s].phase = "sent"
  /\ IF OlderThanBackend(act[s].time)
     THEN Answer(s, "stale") /\ UNCHANGED <<backend, accepted>>
     ELSE /\ backend' = act[s].time
          /\ accepted' = IF act[s].gen = generation
                         THEN accepted \cup {act[s].index} ELSE accepted
          /\ \E reply \in {"accepted", "transient", "fatal"} : Answer(s, reply)
  /\ UNCHANGED <<client, late, deletes, actions>>

(* 429, 503 and 5xx are transient, 4xx are not.                            *)
Refuse(s) ==
  /\ act[s].phase = "sent"
  /\ \E reply \in {"transient", "fatal"} : Answer(s, reply)
  /\ UNCHANGED <<client, backend, late, deletes, actions, accepted>>

(* The client gives up after 15 s; its request may still arrive.           *)
TimeOut(s) ==
  /\ act[s].phase = "sent"
  /\ Answer(s, "transient")
  /\ late' = late \cup {act[s].time}
  /\ UNCHANGED <<client, backend, deletes, actions, accepted>>

IngestLate(t) ==
  /\ late' = late \ {t}
  /\ backend' = IF OlderThanBackend(t) THEN backend ELSE t
  /\ UNCHANGED <<client, act, deletes, actions, accepted>>

Delete ==
  /\ deletes > 0
  /\ deletes' = deletes - 1
  /\ backend' \in {0, backend}    \* a failed DELETE is ignored
  /\ UNCHANGED <<client, act, late, actions, accepted>>

-----------------------------------------------------------------------------
(* The continuations of the activities.                                    *)

(* finally: the flag is cleared, whoever set it.                           *)
StepEnds(s, next) ==
  /\ isStepInProgress' = FALSE
  /\ act' = [act EXCEPT ![s] = next]

MutatedAbandon(s) ==
  /\ act' = [act EXCEPT ![s] = Idle]
  /\ UNCHANGED <<state, lastAccepted, isStepInProgress>>

Abandon(s) ==
  /\ StepEnds(s, Idle)
  /\ UNCHANGED <<state, lastAccepted>>

MutatedFail(s) ==
  \/ /\ InLoop(s) /\ Live(s)
     /\ act[s].reply = "transient"
     /\ StepEnds(s, Sleeping(act[s].token, act[s].retries))
     /\ UNCHANGED <<state, lastAccepted>>
  \/ /\ InLoop(s) => Live(s)
     /\ ~(InLoop(s) /\ act[s].reply = "transient")
     /\ StepEnds(s, Idle)
     /\ state' = "ERROR"
     /\ UNCHANGED lastAccepted
  \/ InLoop(s) /\ ~Live(s) /\ Abandon(s)

(* A manual step reports its error; a loop retries transient errors within *)
(* its budget.                                                             *)
MayRetry(s) == act[s].reply = "transient" /\ act[s].retries < MaxStepRetries

Fail(s) ==
  \/ /\ InLoop(s) /\ Live(s) /\ MayRetry(s)
     /\ StepEnds(s, Sleeping(act[s].token, act[s].retries + 1))
     /\ UNCHANGED <<state, lastAccepted>>
  \/ /\ InLoop(s) => Live(s) /\ ~MayRetry(s)
     /\ StepEnds(s, Idle)
     /\ state' = "ERROR"
     /\ UNCHANGED lastAccepted
  \/ InLoop(s) /\ ~Live(s) /\ Abandon(s)

Accept(s) ==
  /\ lastAccepted' = act[s].time
  /\ act' = [act EXCEPT ![s].phase = "evaluating", ![s].reply = "none"]
  /\ UNCHANGED <<state, isStepInProgress>>

MutatedReceive(s) ==
  /\ act[s].phase = "answered"
  /\ UNCHANGED <<generation, observations>>
  /\ \/ act[s].gen # generation /\ Abandon(s)
     \/ act[s].gen = generation /\ act[s].reply \in {"accepted", "stale"} /\ Accept(s)
     \/ act[s].gen = generation /\ act[s].reply \notin {"accepted", "stale"} /\ Fail(s)
  /\ UNCHANGED <<playbackToken, currentIndex, load, backend, late,
                 deletes, actions, accepted>>

(* The reply, or the error, of the ingestion.                              *)
Receive(s) ==
  /\ act[s].phase = "answered"
  /\ UNCHANGED <<generation, observations>>
  /\ \/ act[s].gen # generation /\ Abandon(s)
     \/ act[s].gen = generation /\ act[s].reply = "accepted" /\ Accept(s)
     \/ act[s].gen = generation /\ act[s].reply # "accepted" /\ Fail(s)
  /\ UNCHANGED <<playbackToken, currentIndex, load, backend, late,
                 deletes, actions, accepted>>

(* The loop goes on to its pacing sleep if it is still the live one.       *)
AfterStep(s) ==
  IF InLoop(s) /\ state' = "PLAYING" /\ act[s].token = playbackToken
  THEN Sleeping(act[s].token, 0)
  ELSE Idle

MutatedEvaluated(s) ==
  /\ act[s].phase = "evaluating"
  /\ UNCHANGED <<generation, observations>>
  /\ currentIndex' = act[s].index + 1
  /\ state' = IF act[s].index + 1 >= Len(observations) THEN "COMPLETE" ELSE state
  /\ StepEnds(s, AfterStep(s))
  /\ UNCHANGED <<playbackToken, lastAccepted, load, backend, late,
                 deletes, actions, accepted>>

(* onStep is over, whether it succeeded or not.                            *)
Evaluated(s) ==
  /\ act[s].phase = "evaluating"
  /\ UNCHANGED <<generation, observations>>
  /\ \/ /\ act[s].gen # generation
        /\ Abandon(s)
        /\ UNCHANGED currentIndex
     \/ /\ act[s].gen = generation
        /\ currentIndex' = act[s].index + 1
        /\ state' = IF act[s].index + 1 >= Len(observations) THEN "COMPLETE" ELSE state
        /\ StepEnds(s, AfterStep(s))
        /\ UNCHANGED lastAccepted
  /\ UNCHANGED <<playbackToken, load, backend, late,
                 deletes, actions, accepted>>

(* A timer of the loop fires, or is cancelled.                             *)
Wake(s) ==
  /\ act[s].phase = "sleeping"
  /\ UNCHANGED <<generation, observations>>
  /\ IF Live(s)
     THEN LoopTurn(s, act[s].token, currentIndex, act[s].retries)
     ELSE /\ act' = [act EXCEPT ![s] = Idle]
          /\ UNCHANGED <<state, isStepInProgress>>
  /\ UNCHANGED <<playbackToken, currentIndex, lastAccepted, load, backend,
                 late, deletes, actions, accepted>>

-----------------------------------------------------------------------------
User ==
  \/ \E tr \in Trajectories : LoadTrajectory(tr)
  \/ \E n \in RouteLengths : Reroute(n)
  \/ Step \/ Play \/ Pause \/ Suspend
  \/ \E n \in {1, 2} : Reset(n)

Backend(s) == Ingest(s) \/ Refuse(s) \/ TimeOut(s)

Continue(s) == Receive(s) \/ Evaluated(s) \/ Wake(s)

Next ==
  \/ User
  \/ LoadArrives \/ LoadFails
  \/ \E t \in late : IngestLate(t)
  \/ Delete
  \/ \E s \in Slots : Backend(s) \/ Continue(s)

Spec == Init /\ [][Next]_vars

(* Timers fire, requests are answered or time out (api.js:33), and the  *)
(* promises awaited settle.  The user owes nothing, nor does a request     *)
(* nobody waits for.                                                       *)
Fairness ==
  /\ WF_vars(LoadArrives \/ LoadFails)
  /\ \A s \in Slots : WF_vars(Backend(s)) /\ WF_vars(Continue(s))

FairSpec == Spec /\ Fairness

-----------------------------------------------------------------------------
TypeOK ==
  /\ state \in States
  /\ generation \in Nat /\ playbackToken \in Nat
  /\ isStepInProgress \in BOOLEAN
  /\ currentIndex \in Nat
  /\ observations \in Seq(Nat)
  /\ lastAccepted \in Nat
  /\ load = NoLoad \/ load \in [track : Seq(Nat), resume : BOOLEAN]
  /\ act \in [Slots -> Activity]
  /\ backend \in Nat /\ late \subseteq Nat /\ deletes \in Nat
  /\ actions \in 0..MaxActions
  /\ accepted \subseteq Nat

(* "Exactly one playback loop active" (test_replay_loop_ownership.mjs):    *)
(* whatever the user did, the state PLAYING has one loop behind it, so     *)
(* playback is neither orphaned nor driven twice.                          *)
PlaybackOwned ==
  state = "PLAYING" =>
    \E s \in Slots : /\ act[s].phase # "idle" /\ InLoop(s) /\ Live(s)
                     /\ \A r \in Slots \ {s} : ~(InLoop(r) /\ Live(r))

(* "Progress index only increments after confirmed backend acceptance"     *)
(* (replay.js:8): the backend has accepted every observation the index has *)
(* passed, although replies are lost, late, stale or of an older track.    *)
ProgressConfirmed ==
  /\ currentIndex <= Len(observations)
  /\ 0..(currentIndex - 1) \subseteq accepted

(* "Single in-flight step at any time" (replay.js:6), "Guarantees max 1    *)
(* in-flight step" (replay.js:308): even of the session of now.  It does   *)
(* not hold: an abandoned step clears the flag that a newer one has set.   *)
SingleInFlight ==
  Cardinality({s \in Slots : InStep(s) /\ act[s].gen = generation}) <= 1

(* What the flag does guarantee: it turns steps away (replay.js:312) only  *)
(* while a step is under way that will clear it, so no reset, failure or   *)
(* overlap of two sessions blocks the controller for good.                 *)
FlagReleased == isStepInProgress => \E s \in Slots : InStep(s)

(* "Generation tracking prevents stale responses after pause/reset/switch" *)
(* (replay.js:7): the continuation of an activity of an older generation   *)
(* moves nothing but the flag, even when its slot's later life overlaps    *)
(* with the steps of the session that replaced it.                         *)
StaleInert ==
  [][\A s \in Slots :
       act[s].gen \notin {0, generation} /\ act'[s] # act[s] =>
         UNCHANGED <<state, generation, playbackToken, currentIndex,
                     observations, lastAccepted, load>>]_vars

(* A playback ends by itself: it completes, is stopped, or its retry       *)
(* budget is exhausted; a flag left over by another step does not block it *)
(* for ever.                                                               *)
PlaybackEnds == (state = "PLAYING") ~> (state # "PLAYING")
=============================================================================
