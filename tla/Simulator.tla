----------------------------- MODULE Simulator ------------------------------
(***************************************************************************)
(* The operational simulator (services/snapshots/simulator.py) as a source *)
(* of batches: a background loop and requests for single ticks             *)
(* (api/v1/ranking.py) walk one state of a station and submit what it says *)
(* of its bays and of its queue, among the batches others post.            *)
(*                                                                         *)
(* Every step is one of Snapshots or leaves its variables alone.  A tick   *)
(* is drawn and its batch is built without an await; ingestion is that of  *)
(* Snapshots, and stopping the loop cancels it wherever it is.             *)
(***************************************************************************)
EXTENDS Snapshots, Integers

CONSTANTS
  QueueKey, StationKey,   \* the keys of the simulated station
  Slots,                  \* its bays
  Posted,                 \* batches of other sources
  NoLoop                  \* the background loop is disabled or stopped

VARIABLES
  occupied,   \* occupied bays, the state that is walked
  ticked,     \* time of the last tick
  loop        \* the writer that is the background loop

simVars == <<occupied, ticked, loop>>

(* What the simulator says of a key; other sources say other things.       *)
Report(o) == [source |-> "simulator", occupied |-> o]

Simulated(x) == x # NoSnap /\ x.body.source = "simulator"

MutatedTickBatch(t, before, o) ==
  {[key |-> QueueKey, time |-> t, body |-> Report(before)],
   [key |-> StationKey, time |-> t, body |-> Report(o)]}

(* A station and a queue snapshot of the same instant and the same state.  *)
TickBatch(t, before, o) ==
  {[key |-> k, time |-> t, body |-> Report(o)] : k \in {QueueKey, StationKey}}

ASSUME SimulatorAssumption ==
  /\ {QueueKey, StationKey} \subseteq Keys
  /\ Slots \in Nat
  /\ NoLoop \notin Writers
  /\ Posted \subseteq Batches
  /\ \A t \in Times, b \in 0..Slots, o \in 0..Slots : TickBatch(t, b, o) \in Batches
  /\ \A b \in Posted : \A x \in b : ~Simulated(x)

(* One bounded step of the random walk.                                    *)
Stepped(o) == {q \in 0..Slots : q - o \in {-1, 0, 1}}

SimInit ==
  /\ Init
  /\ occupied \in 0..Slots
  /\ ticked = 0
  /\ loop \in Writers \cup {NoLoop}

(* A batch of another source, by a request.                                *)
Post(w, b) ==
  /\ w # loop
  /\ Submit(w, b)
  /\ UNCHANGED simVars

(* A turn of the loop, or POST /snapshots/simulate-tick by another writer: *)
(* the clock has moved on since the last.  That the tick before has failed *)
(* makes no difference: the walk has gone on, and nothing is repeated.     *)
Tick(w, t, o) ==
  /\ t > ticked
  /\ o \in Stepped(occupied)
  /\ Submit(w, TickBatch(t, occupied, o))
  /\ occupied' = o
  /\ ticked' = t
  /\ UNCHANGED loop

(* stop(): the task is cancelled at the await where it is.  What it leaves *)
(* is what a failure there leaves.                                         *)
Stop ==
  /\ loop # NoLoop
  /\ loop' = NoLoop
  /\ IF pc[loop] = "idle" THEN UNCHANGED vars
     ELSE DatabaseFails(loop) \/ CacheFails(loop)
  /\ UNCHANGED <<occupied, ticked>>

SimNext ==
  \/ \E w \in Writers : \/ \E b \in Posted : Post(w, b)
                        \/ \E t \in Times, o \in 0..Slots : Tick(w, t, o)
  \/ Serve /\ UNCHANGED simVars
  \/ Stop

SimSpec == SimInit /\ [][SimNext]_<<vars, simVars>>

-----------------------------------------------------------------------------
(* "Periodically generates coherent state evolutions" (simulator.py:181):  *)
(* whatever fails, is cancelled or is posted in between, and whichever     *)
(* tick is committed first, what a view holds of the simulated station     *)
(* comes from one tick and agrees.                                         *)
ViewsCoherent ==
  \A r \in Readers : \A k, l \in Keys :
    LET x == pins[r][k]
        y == pins[r][l]
    IN  Simulated(x) /\ Simulated(y) => x.time = y.time /\ x.body = y.body
=============================================================================
