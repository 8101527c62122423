# Verification of the GSM-VSF realtime core

GSM-VSF recommends charging and battery-swap stations to drivers of electric
cars and motorbikes.  GPS observations are ingested and matched to the road
network, the energy need of the driver is evaluated, stations are searched,
routed to and ranked, and a plan for the chosen station is confirmed.  Four
single-worker FastAPI processes (`docker-compose.yml`) share one Redis without
persistence and one PostgreSQL; a JavaScript cockpit replays trajectories
against them.

The repository also holds the synthetic dataset the services are evaluated
with, the chain of scripts that generates it, and its validator.

This directory holds TLA+ modules of the parts where order, failure and
staleness decide whether the answers are right, and of the decisions
themselves; TLC configurations that check them on small instances, and TLAPS
proofs for every instance.

    tlc -workers 2 -config MCDriverIngest.cfg MCDriverIngest
    tlapm DriverIngestProofs.tla

`PROJECT.json` maps every definition to the lines it translates.

## 1. Inventory

Paths are relative to `src/backend/app/services/` unless they begin with
another directory of `src/backend/app/`.

### Modelled

| component | state | operations | modules |
|---|---|---|---|
| driver trace (`realtime/state.py`, `realtime/trigger.py`, `realtime/location.py`) | buffer of observations, identifiers seen, last match, movement, stationarity, generation, status | add an observation, detect a gap, build the context, decide on a match, record a match, reset, locate the driver for a recommendation | `DriverTrace` |
| driver-state store and ingestion (`realtime/driver_state_repository.py`, `driver_state_manager.py`, `api/v1/realtime.py`) | one versioned Redis key per driver; the local variables of the requests | `POST` and `DELETE /drivers/{id}/location` | `DriverRegister` (abstract), `DriverIngest` |
| replay controller (`static/demo/js/replay.js`) | state, generation, playback token, step flag, index, track, last accepted timestamp | load, reroute, step, play, pause, reset, suspend, and every continuation | `Replay` |
| driver screen (`static/demo/js/ui/driver_controller.js`, `ui/station_planning.js`) | state of the trip, origin and destination, drawn route, station plan and its lock, passed stops, recommendation, refresh timer; the revision counters of the requests under way | every button, a replay step, a timer tick, and the answer to each request | `DriverScreen` |
| snapshots (`snapshots/repository.py`, `ingestion.py`, `resolver.py`) | table `state_snapshots`, Redis cache of latest payloads | ingest a batch, resolve a view, refresh the cache | `SnapshotData`, `StateStore` (abstract), `Snapshots` |
| operational simulator (`snapshots/simulator.py`, `api/v1/ranking.py`) | occupied bays of the simulated station, time of the last tick, the background task | a turn of the loop, a requested tick, stop | `Simulator` |
| recommendation (`ranking/orchestration.py`, `ranking/context.py`, `ranking/service.py`, `api/v1/ranking.py`) | saved evidence and candidates of a request | search, save, revalidate and rank, retry once, confirm the plan | `Recommendation` |
| route history (`route_familiarity/repository.py`, `ingestion.py`, `api/v1/route_familiarity.py`) | tables `route_familiarity_routes`, `route_deviation_trips` | ingest a completed route, ingest a guided trip | `RouteEvidence` (abstract), `RouteHistory` |
| energy request (`demand/`), energy feasibility and candidate search (`candidate/`), replenishment (`energy/replenishment.py`), ranking score (`ranking/service.py`), one request through them (`api/v1/ranking.py`, `ranking/orchestration.py`) | the telemetry, the energy request, the candidates and the ranking of one request | detect or take over a need, drive to the destination first, search, rank | `Fractions`, `Energy`, `VehicleCatalog`, `Candidates`, `Decisions` |
| assessment of how familiar a route is (`route_familiarity/service.py`, `temporal.py`, the queries of `repository.py`) | none: a function of the trips on record | select the trips, compare, summarise | `Familiarity` |
| dataset (`src/dataset_v1/generators/04` to `07`, `validation/validate_dataset.py`; `src/scripts/evaluate_week4.py`, `evaluate_candidate_search.py`) | the tables of the dataset as files; the script that is running and what it still has to write | start a script, write a file, be killed, refuse, validate | `StationTables`, `DatasetLabels`, `DatasetScenarios`, `DatasetChecks`, `DatasetBuild`, `DatasetReplay` |

### How they interact

* The cockpit posts one observation per step and waits for the answer
  (`replay.js:331`).  Whatever API process receives it reads the driver's key,
  applies the observation to a copy, and writes the copy back with a Lua
  compare-and-set on version and generation; it may then call the map matcher
  and save once more with the version of the first write.
* A reset replaces the trace by a fresh one of the next generation; a request
  that began before it must not write into it.
* The cockpit's buttons, replay steps and timer send requests (route, station
  plan, recommendation, power) and apply the answers if revision counters have
  not moved since.
* Operators and the simulator ingest batches of snapshots into PostgreSQL; the
  Redis cache is refreshed afterwards, as best it can.
* A completed trip is submitted by trusted clients that repeat a submission until it
  is answered; any API process may serve each attempt.
* A search *pins* the heads of all its stations in one statement and evaluates
  eligibility in that view; ranking pins a second view, the confirmation of a
  plan a third one.  Only what was evaluated and has changed is checked again.
* Within one view a request is decided by pure functions in a row: telemetry
  gives an energy request, this and a network of routes the verdict on every
  station and service, these and the assessments of the roads the order.
* The scripts of the dataset communicate by files: each reads what the earlier
  ones wrote, computes and writes anew.  Labels written by one are adjusted by
  the next two and written once more by the last two.  The rules of the
  services are written again in the scripts, and the two replay scripts compare
  the published labels with the services.

### What is hard

| behaviour | where |
|---|---|
| lost updates, stale reads and resets between four processes | `DriverIngest` |
| commands whose reply is lost and that execute late, after other requests | `DriverIngest`, `Replay`, `RouteHistory` (`late`) |
| retries of what has already been done | `DriverIngest`, `Replay`, `Snapshots` |
| callbacks of an ended session, playback loops replaced while one of their steps is in flight | `Replay` |
| answers that arrive in any order, on a screen that has moved on; one counter among six that a guard forgets | `DriverScreen` |
| statements that commit one by one, with a decision taken between them | `RouteHistory` |
| overlapping transactions and their lock order; conflict answers that must be final | `Snapshots` |
| a cache filled from other versions than the view in hand | `Snapshots` |
| conditions evaluated in one view and acted on in another | `Recommendation` |
| restarts of a store without persistence | `DriverIngest` (`RestartSpec`) |
| guards and reserves on both sides of a rounding; energy carried over the stages of a request; more charge that must not hurt | `Decisions` |
| programs interrupted between two files and run again; rules that are written twice; labels detected anew on tables of an earlier version; a state patched after labels were computed from it; stagings that meet | `DatasetBuild` |

The list `hazards` of `PROJECT.json` names each of them at its line, with the
properties that watch it; hazards without a property say why.

### Not modelled yet, or not at all

| component | why |
|---|---|
| energy physics (`energy/physics.py`) | real-valued formulae; their result, a consumption, is a parameter of `Decisions` |
| of the route familiarity evaluation: the matcher of two roads, and the slot it runs in | the matcher is geometry, its answer the parameter `Adherence`; the one slot for a CPU-bound thread (`service.py:101`) is a semaphore whose bookkeeping under double cancellation is that of `asyncio`, not of this code |
| rate limiter | a window of refused and served requests per process, one `deque` without an await; a total over processes is not promised by the code |
| route geometry, departures, map matching, routing | geometry and calls to external engines.  Their failure appears as a nondeterministic outcome of `MatchFound`, `MatchNotFound`, `MatchRejected` and of `Fail` in `Recommendation` |
| lifecycle, metrics, health, thin endpoints | configuration and pure I/O |
| map overlays, map, page wiring (`ui/route_familiarity_overlay.js`, `map.js`, `app.js`, ...) | presentation; each has its own revision guard of the kind `DriverScreen` models |
| dataset generators 01 to 03 | they build the road graph and draw the world at random; 04 starts from what they leave, which `Worlds` gives |
| of the simulator: queue lengths, waits, traffic and their validation | random numbers; coherence is about which tick they come from |
| of the modelled generators: road graph, traffic, GPS and map-matching tables, the rows of scenarios that stage no station, reassigning vehicles for NEED_SWAP, fleet counts | no later stage modelled here reads them, or they are data of the one published fleet |
| other scripts | they prepare GPS traces, verify a deployment and write benchmark reports |

## 2. Plan

1. `DriverTrace`, `DriverRegister`, `DriverIngest`: the store every driver
   request goes through; refinement.  *Done, proved.*
2. `Replay`: the client of that store.  *Done, proved.*  `DriverScreen`, which
   the replay calls back.  *Done, proved.*
3. `SnapshotData`, `StateStore`, `Snapshots`; refinement.  *Done, proved.*
4. `Recommendation` over `StateStore`.  *Done, proved.*
5. `Energy`, `Candidates`, `Decisions`: one recommendation in one view.
   *Done, proved.*  `VehicleCatalog` and `Familiarity`, which it is given.  *Done.*
6. The chain of the dataset: `StationTables`, `DatasetLabels`,
   `DatasetScenarios`, `DatasetChecks`, `DatasetBuild`, `DatasetReplay`.
   *Done, proved* but for what section 5 names.
7. `RouteEvidence`, `RouteHistory`.  *Done, proved.*
8. `Simulator` over `Snapshots`.  *Done, proved.*
9. `Replay` composed with `DriverIngest` instead of its one-number backend.
   *Left.*
10. The invariants of `DatasetReplay` as theorems.  `AcceptedMeansFinal`,
   `CandidatesMirrorState`, `FinalAccepted` and `LabelsMatchBackend` *done*;
   `ScenariosStand` *left*, see the end of section 5.

`Recommendation` composes with `StateStore` and not with `Snapshots`: the
refinement `ImplementsStore` is what makes this sound.  In the same way
`DriverRegister` is what a later composition with the driver may use.

## 3. The modules

### DriverTrace, DriverRegister, DriverIngest

`DriverTrace` has no variables: it is class `DriverTraceState` as operators on
a record.  `AddResults(t, o)` is `add_observation`: the duplicate check, the
gap that clears the window and the match, movement and stationarity, the bounded
buffer, and the cleanup of the identifiers seen.  The cleanup pops from a Python set, so it
may leave any half; hence a *set* of results.  `seen_observation_ids` and
`seen_payloads` are one set of observations.  Counters that nothing reads are
left out.  `LocatedTime` is the observation `location.py` takes for the place
of the driver: the last match unless the buffer has moved on.  `Triggered`, `StationarySuppressed`, `Context` and `WithMatch` are
the decisions and effects around a match.

`DriverRegister` is the promise: a register that changes by whole operations on
the trace it holds *now*, a match being recorded only for the newest
observation.

`DriverIngest` is how the code keeps it.  The code between two awaits is an
action; the awaits are the Redis commands and the matcher.

| action | code |
|---|---|
| `Receive`, `Read`, `ReadStale`, `ReadConflict`, `ReadFails` | `ingest_location` and the read and the checks of a turn of `_add_observation_with_cas` |
| `Add`, `AddConflict`, `AddFails` | the compare-and-set of the turn, its retry, and the choice of what follows (`Dispose`: warm-up, suppression, trigger, context) |
| `MatchFound`, `MatchNotFound`, `MatchRejected` | `_call_map_match` and what the endpoint makes of its outcome |
| `Save`, `SaveConflict`, `SaveFails` | `save_with_retry`, best-effort for every answer but MATCHED |
| `RequestReset`, `ResetRead`, `Reset`, `ResetConflict`, `ResetFails` | `update_with_cas` behind `DELETE` |
| `ExecuteLate` | Redis executes a command whose connection was lost (set `limbo`) |
| `Expire`, `Restart` | the key's TTL; Redis restarting without its data |

`begun` and `acked` are history variables.  `Expire` requires that no request is
under way, because every read and write renews a TTL of one hour; `Restart`
does not, and is part of `RestartSpec` only.

### Replay

JavaScript runs to completion, so an action reaches from await to await.  An
*activity* (`act[s]`) is a manual step or a playback loop with the step it is
executing; it remembers the generation and token it started with and may
outlive both, which is what the controller's guards are for.  User actions are
`LoadTrajectory`, `Reroute`, `Step`, `Play`, `Pause`, `Reset`, `Suspend`; the
network is `Ingest`, `Refuse`, `TimeOut`, `IngestLate`, `Delete`; the
continuations are `Receive`, `Evaluated` and `Wake`.  A step in progress turns
another one away, and a loop takes that for a success, as in the code.  The
backend is the one number the controller depends on, the newest timestamp;
once it has accepted an observation, `Ingest` answers or the answer is lost: a
refusal after that, by a map matcher that fails, is left out.  Whatever ends a step clears
`isStepInProgress`, also one whose session is over; so the flag does not keep
steps apart (run `replay_single`), but neither does it ever block the controller.

### DriverScreen

The controller remembers counters when it sends a request and compares them
when the answer arrives: `generation`, `routeRevision`, `_powerRevision`,
`_drawerRevision`, and the identity of `selectedStationPlan`.  It compares for
equality only, so the model keeps no numbers: a request carries the set
`valid` of counters that have *not* moved since it was sent, `Bump` removes
counters from every request under way, and `Current` is the guard.  The module
is therefore finite without a bound on counters.  `"input"` is a history
counter that nothing in the code compares: it moves when the driver types a
state of charge or chooses a vehicle, and says what is out of date.

`op[s]` is a handler that waits: for the backend (`kind`), and then for what
the handler that awaits it does next (`then`).  An async function that returns
resumes its caller before any other event, so `Settled` lets a `resume` go
first.  Handlers: `Accept` (`assignTrip`), `StartTrip`, `SelectStation`
(`selectStationPlan`), `UnlockNavigation`, `SetBatterySoc`,
`SelectVehicleModel`, `ShowStations` (`refreshStationPlans`), `SetOrigin`,
`SetDestination`, `ClearDestination`, `Step` (`_onReplayStep`), `Tick`
(`_refreshRecommendation`) and the rest of the buttons; each answer is an
action that either applies what the backend said or, failed or stale, does not.

Kept of the data: where the drawn route leads and over which station, the order
of the stops of a plan (`ranking.py:261`), which are passed, and of the
recommendation its energy context: none, current, or computed before the last
input.  Left out: the H3 comparison, the sample scenario, drawing, the list of
stations for after the destination beyond its counter.  A replay step may come
whenever the trip is active; that it comes one at a time is `Replay`'s
subject, and nothing here relies on it.  Neither is `playTrip`, which `startTrip`
calls at its end: `TripStarted` ends where the replay is told to play.  Where it
has nothing to replay, `playTrip` calls `startTrip` once more; that is left out.

### SnapshotData, StateStore, Snapshots

`SnapshotData` defines snapshots and the heads of a set of rows.  The
identifier of a snapshot is a digest of its content, so the snapshot stands for
it.  `StateStore` commits whole consistent batches and pins views of one
instant.  `Snapshots` has writers that insert row by row inside a transaction,
wait for each other on the unique key, check that every row of the batch is
what the table holds, and commit; readers that pin heads, read the cache,
fetch what is missing; and both refresh the cache by `ReadLatest` and `Put`
(the Lua script `LATEST_CAS`).  `mine` is what a transaction has not committed.

### Simulator

`Simulator` extends `Snapshots` by the source of batches the server itself has:
a random walk over one station, whose ticks are a turn of the background loop
or a request `POST /snapshots/simulate-tick`.  `Tick` draws the next state, and
submits a batch of a station and a queue snapshot of one instant; `Serve` is
everything `Snapshots` then does with it; `Post` is a batch of anybody else.
`Stop` cancels the loop at the await where it is, which leaves what a failure
there leaves, and is counted with the faults.  A tick that fails is swallowed,
and the walk goes on from the state it has drawn.

### Recommendation

A request searches in one pinned view, saves its candidates with the versions
it used, ranks in a second view, and retries the search once when a candidate
it evaluated has lost its eligibility.  A driver who selected a station goes on
to `Confirm`, at the server's clock.  `Report` commits a snapshot meanwhile.
Routing and energy decide which pairs are in `Feasible`; the rest of
eligibility is read off the view.

### RouteEvidence, RouteHistory

The state is what the database holds of *one* trip of one driver: trips are
distinguished by the unique key and never meet.  A submission's `route` stands
for everything compared as a whole (completion time, distance, resolution,
cells and their distances), `geometry` and `started` for the evidence that
older rows lack.  `RouteEvidence` is the promise: a submission is learnt
whole or not at all.  In `RouteHistory` a request executes the statements of
`upsert_route` (`Insert`, `Select`, `Fill`) or of `ingest_guided_trip`
(`InsertTrip`, `SelectTrip`, `Refresh`); asyncpg commits each on its own, so
others come between.  `Fail` loses the connection of a statement and answers
503; PostgreSQL may have the statement and execute it at any later moment
(`ExecuteLate`), or never.  What the deviation detector computes is the pair of
its evidence and its version.

### Energy, VehicleCatalog, Candidates, Decisions, Familiarity

`Fractions` are exact; the code computes with floats and rounds its answers, and
the rounding is kept.  `Energy` has the capability of a model, the detection of
a need, the driver's own request, the feasibility of a leg and the estimate of
what a service replenishes; `Candidates` has the services a request expands to,
the legs over a station, and the verdict on each pair in the fixed order of
reasons.  Both are operators only, and state the contracts of their results
(`NeedServiceDecision`, `EnergyServiceRequest`, `EnergyFeasibilityResult`,
`EvaluatedCandidate`, ...) as the models of the code do.  `Decisions` is one request:

| action | code |
|---|---|
| `Demand` | `recommend` up to the energy request: what is reported or derived, detected or requested, and what is refused |
| `Drive` | the direct route and, AFTER_DESTINATION, the request as it will be at the destination |
| `Search` | `_search`: refusals, expansion and evaluation of every pair |
| `Rank` | features, the reference time, the penalties by familiarity, and the sort key |

A network says for two places what the routing engine answers, and is chosen
once; station rows are the one pinned view.  Rows that change in between are
`Recommendation`'s subject.

`VehicleCatalog` holds the two tables of vehicles, `energy/capability.py` and
the dataset's script 06; its assumption `CatalogsAgree` is the claim of the
former to be consistent with the latter, which TLC evaluates.  Three of its
models are the vehicles of the run.

`Familiarity` is the assessment of proposed roads.  `PersonalRoutes` and
`CommunityRoutes` are the two queries, each with the one row more than will be
used that tells of a truncation; `Comparable` keeps the trips of the same time
of day whose road and start are known; `Assess` computes the figures of one
road, those about others only if enough of them support it; `AssessMany` puts
the limit on the work before it all.  TLC evaluates what must be true of every
assessment, for all histories of ten trips (`AssessmentsAssumption` of
`MCDecisions`): the contract of the figures, that fewer others than the policy
asks for are never told of and nothing said of the driver depends on others
(`Anonymous`), and that driving the proposed road once more never makes it
stranger.  The assessments `Decisions` chooses from in the run are such
assessments, rounded to its steps; in the proofs they are any.

### StationTables, DatasetLabels, DatasetScenarios, DatasetChecks, DatasetBuild, DatasetReplay

The first four are operators.  `StationTables`: how a row of station state and
queue is staged, split by service (05), lengthened (05b) and rebuilt (06, 07).
`DatasetLabels`: demand, candidate, ranking and recommendation tables
as functions of other tables, by stage where the stages differ.
`DatasetScenarios`: what 04 and 05 stage for the scenario of each trip, the
labels of 04, and the search of 04b for an event that shows a scenario.
`DatasetChecks`: the validator.

`DatasetBuild` runs the chain 04, 04b, 05, 05b, 05c, 06, 07.  A script reads its
input at once and then writes file by file (`Start`, `Write`; `pending` is what
it still has to write).  `Crash` kills it between two writes, and it is started again
from the directory as it is; `Refuse` is the error 05 ends with when it finds
its own columns, or 05b without a ranking of two.  `Validate` is the validator, run by
hand at any moment.  A file is written as a whole.  Helpers whose names end in
the number of a stage pass on what the script has computed so far.

06 exchanges the vehicles and announces new batteries ("Recompute
energy_consumed_kwh, soc_pct, estimated_remaining_range_km",
`06_domain_correct_vinfast_capability.py:446`; "SOC history regenerated", line
490).  It recomputes none: line 468 looks up every trip among the *columns* of the
table of trips, finds `None`, and appends the old rows.  `Driven06` therefore
passes `d.battery` on, and all later needs, ranges and verdicts are of charges
that belong to the vehicles of version 1.1, in the published files as well (the
first labels of T0009 and T0021 have 17.454 and 17.604 percent, from 04's 18 and
the old capacities).  No run is about this divergence: one
lookup decides it, not the order of any steps.  What must hold of the
batteries for the end to be accepted is an assumption on what 04 leaves
(`FleetAssumption`, `NeedAssumption`, see Bounds).

Some behaviours of the code that the modules keep, and a reader may not expect:
`set_service_state` opens a station before it finds that it has too few slots,
and takes every service but CHARGING for a swap, NONE included; the evidence
04b finds for LONG_QUEUE is the longest wait of any station, compatible or not; 05c
repeats the station 05b chose as a constant; the validator's own `compatible`
is never called; 05 cannot be repeated once its first file is written.  04
writes `scenario_coverage.csv` too; nothing reads it before 04b
overwrites it, and it is left out.  04 forces a swap only on a battery whose type begins with
`SWAP_`, which every vehicle that can swap has in version 1.1; the test is left out.

`DatasetReplay` holds the properties, the two scripts that judge the labels by
the services (with `Energy` and `Candidates` as the services), and what a
staged scenario must still look like (`Stands`).

Section 17 of the validator looks at the events that `scenario_coverage.csv`
names (`example_event_id`, `validate_dataset.py:873`).  `Asserted` translates its assertions and `Validate` records those
that hold (`Upheld`) beside the verdict.  It is kept out of `Accepted`:
06 numbers the events anew, and from then on the identifiers name other events, of which most
assertions are false (the violated run `dataset_evidence` is about the cause).
`ScenariosStand` says that before 06 every assertion holds.

## 4. The runs

| run | module | what it asks |
|---|---|---|
| `driver_ingest` | `MCDriverIngest` | no lost update (`AckedKept`), no observation across a reset (`ResetIsolates`), each counted once (`CountedOnce`), the buffer in event order (`BufferOrdered`), enough context for every match (`EnoughContext`), the place of a driver never goes back within a generation (`LocationAdvances`), every request is answered (`EveryRequestAnswered`), and the refinement `ImplementsRegister` |
| `driver_restart` | | violated: `AckedKept` under `RestartSpec` |
| `replay` | `MCReplay` | one loop behind PLAYING (`PlaybackOwned`), the index passes only accepted observations (`ProgressConfirmed`), the flag turns steps away only while one is under way that will clear it (`FlagReleased`), ended sessions change nothing (`StaleInert`), playback ends (`PlaybackEnds`) |
| `replay_single` | | violated: `SingleInFlight` |
| `driver_screen` | `MCDriverScreen` | a locked navigation has its plan, stages and trip (`LockedOnPlan`), the energy shown is never older than the last input (`EstimatesCurrent`), only the answer to the driver's own choice locks (`OnlyChoiceLocks`), answers of an ended session are inert (`LateAnswersInert`) |
| `driver_screen_select` | | violated: `SelectionPreserved` |
| `snapshots` | `MCSnapshots` | no cycle of waiting transactions (`NoLockCycle`), STORED and CONFLICT are final (`AnswersTrue`), a view is what was pinned (`ViewIsPinned`), no view mixes two ticks of the simulator (`ViewsCoherent`), the cache never goes back (`CacheNeverOlder`), and the refinement `ImplementsStore`; all of it with the simulator as one of the sources |
| `recommendation` | `MCRecommendation` | ranked and confirmed pairs are eligible in the view they are ranked or confirmed with (`RankedEligible`, `ConfirmedEligible`), a conflict names a pair that really lost its eligibility (`ConflictIsReal`), views never go back (`ViewsAdvance`) |
| `route_history` | `MCRouteHistory` | every answer stays true, however other retries complete or contradict the trip (`RouteAnswersHold`, `TripAnswersHold`), and the refinement `ImplementsEvidence` |
| `decisions` | `MCDecisions` | what is offered can be reached on what the battery holds, over the destination or not (`ReachableNow`), the energy adds up over the stages (`EnergyBalanced`), behind a station on the way the reserve of the trip is kept (`ArrivesWithReserve`), more charge never takes an offer away (`ChargeNeverHurts`), familiarity costs at most a quarter (`BoundedDetour`) |
| `dataset` | `MCDataset` | candidate rows mirror the station tables (`CandidatesMirrorState`), the end of the chain is accepted (`FinalAccepted`) and nothing but what an uninterrupted chain leaves is (`AcceptedMeansFinal`), the labels are what the services would have said (`LabelsMatchBackend`), and every staged scenario still holds (`ScenariosStand`), as do the assertions of section 17 until 06 |
| `dataset_evidence` | | violated: `EvidenceOfTrip` |

`CHECK_DEADLOCK FALSE` is there where a bounded system stops: when the
budget of requests, faults or user actions is used up and all is answered.
The two runs of `DriverScreen` have no such budget and check for deadlock.

### What the violated runs show

* `driver_restart`: after a restart of Redis the version of the key starts
  again at zero, and a write computed from the trace that was lost can meet an
  equal version and generation: an acknowledged observation of the new trace is
  overwritten (`driver_state_manager.py:232`, "This prevents lost updates").
* `replay_single`: a step waits for its answer when the driver resets, which clears
  `isStepInProgress` (`replay.js:532`).  A new session is loaded and steps, setting
  the flag again; then the abandoned step is answered, and its `finally` (`replay.js:428`)
  clears the flag that is not its own.  A further step of the new session is admitted
  beside the one in flight ("Single in-flight step at any time",
  `replay.js:6`; "Guarantees max 1 in-flight step", `replay.js:308`).  What the two do to each
  other is harmless (`ProgressConfirmed` and `StaleInert` hold all the same).
* `driver_screen_select`: the driver accepts a trip, and selects a station
  while the route of the trip is still being computed.  The plan is confirmed
  and locked; then the late direct route, guarded by the generation alone
  (`driver_controller.js:630`), replaces the route over the station.  The
  screen shows the station as selected, and the start replays a route that
  does not pass it ("User's explicit selection must be preserved",
  `test_navigation_revision.mjs:127`).
* `dataset_evidence`: 06 numbers the demand events anew, for requests of drivers
  are added between them, and no later script rewrites the scenarios: the
  example event of a scenario is in the end an event of another trip, although
  `dataset_v1/VERSION.md:57` says "event IDs updated".  So it is in the
  published files, for nine scenarios.

### Bounds

* Driver: two ingesting workers and one resetting worker.  Every hazard listed is a race of
  two writers with a third event between the read and the write of one of them;
  the proofs hold for any number.  `MaxRetries = 2` (3 in the code) leaves a
  retry and an exhausted loop.  `driver_ingest` has two requests, out of four observations: they
  reach warm-up (2), a match and the save after it; one lies beyond the gap, two share an identifier.
  All its safety properties are theorems; `driver_restart` has a third request, to
  write after the restart.
  Times and distances are small numbers in the order of the real thresholds
  (`GapThreshold <= Window`, as in the code).  `MaxDedup = 10` keeps the
  identifier cleanup out of these runs, for it drops identifiers arbitrarily
  and `AckedKept` and `CountedOnce` are about identifiers remembered; all other
  theorems about the store include the cleanup.
* Replay: four user actions are enough for a reset during a step, a new track, a
  step of it or a play; `replay_single` needs a fifth, the second step; the tracks have at most two observations and one
  timestamp in the future.
* Driver screen: three handlers may wait at once (`Slots`), one station, one
  destination.  An answer that must be inert meets one handler that moved the counters and
  one that keeps others from moving them, as an evaluation does to
  `unlockNavigation`.  `FewStale` lets at most one request be overtaken at a time
  (and none by a new generation while all three handlers wait), for
  overtaken requests do not affect each other: each is dropped or applied on its
  own.  `driver_screen_select` has two stations and two slots.  Slots, and
  stations, are interchangeable (`Symmetry`).
* Snapshots: two keys, two instants, two writers; two batches of others, that
  overlap with each other and with the ticks of the simulated station, repeat
  and contradict; three ingestions, which is a tick, what contradicts it, and
  its repetition.  One reader with one view: a new view starts by forgetting
  the last.  One fault, which may be the cancellation of the loop.
* Recommendation: one station with both services; two instants; every
  eligibility reason occurs as a body.
* Route history: three requests, the least with which a third one changes the
  row between the `SELECT` and the `UPDATE` of another; submissions with and without a start,
  with the same cells and another geometry (a repeated vertex), and of another route; a row
  from before evidence was kept; one statement lost.

* Decisions: three models of the official catalog, a car, a motorcycle with a
  fixed battery and one with up to two modules (`VF_7_PLUS`, `EVO200`,
  `FELIZ_II`), in units of ten watt-hours, of which all their figures are whole;
  two stations, three networks, four states of the stations, all plan modes.
  Without a destination charging goes to 75 %, so that it is not confused with
  the swap's 90 %.
  Contexts differ from a plain one in at most two values besides vehicle, charge, trip and
  service, so that each guard is met from both sides and pairs of unusual values
  meet.  Numbers are such that every reason of the fixed order decides.
  Familiarity: two own trips more than the limit of three, another driver more
  than the limit of two with one trip more than the limit of one, a limit on
  coordinates that the largest histories exceed, and one trip on each wrong side of every
  condition.
* Dataset: ten trips, one for every staged scenario, two ranked ones and one
  without a need; a charging station, a swap station and a mixed one; three
  vehicles, of two of which version 1.1 is mistaken; seven slices of ten
  minutes; two crashes, so that a repeated script can be interrupted again.
  Of the four worlds the first is patched by 05b, the second is tied already;
  full, closed and crowded stations and both biases of the split occur.
  `WorldsAssumption` states what the scripts take for granted of the data they
  were written for.  Nobody waits at a station where nobody is served
  (`StationRow`).  What 05b patches is the row that is a constant in 05c, a
  candidate of that row, where somebody is served and by that service alone; and
  05b is made for an event it can tie, so that looking again it finds
  the same one (`Suited`).  Where 05 stages one service of a row, the other is
  at leisure (`Separable`).  Worlds
  in which stagings meet in one row are left out: there the later one undoes the
  earlier (a FARTHER_BUT_FASTER pair of 05 shortened the wait of the LONG_QUEUE example to 23 minutes).
  So are stations with one slot for the staged service, and mixed stations whose other service is busy in
  a staged row, for which 06 and 07 split the queues they add up in another way than the table.
  Of the rest of the data the proofs assume what the generators of version 1.0 and
  06 see to, and TLC evaluates for these ten trips: a trip's snapshots come in the order they are
  driven, its scenario starts with a charge of 0 to 100 percent, its vehicle is one of
  the table and has a battery after 06; battery rows are those of the
  snapshots; at least two candidates may be ranked, and no
  two stations have the same number (`TripsAssumption`, `RankingAssumption`,
  `FleetAssumption`, `StagedAssumption`).  Of the batteries, which no
  script computes again after 04, they assume that those of version 1.0 run
  down along each trip, and that most snapshots are in need once 04 has staged
  its scenarios, because the validator wants more needs than none to learn from
  (`NeedAssumption`).  Every station has a row of the tables for every snapshot
  (`Covered`, a part of `WorldsAssumption`), and the limit on waiting and the
  reserve of the policy are whole numbers, of minutes and percent
  (`LimitsAssumption`).  One of the assumptions on the data is a condition of the data, not of the code: where there is a way from a
  snapshot to a station there is one on to the destination (`OnTheWay`).  06 and 07 leave a candidate
  without it out of the ranking but keep it eligible, and the
  validator, which wants a recommendation for every event with an eligible
  station, would reject the result.
  Ties in distance are broken by the number of the station.  Delays are in percent.

### Fairness

* `DriverIngest`: weak fairness of each worker's steps: the event loop resumes
  a request whose awaited call has returned, and each such call returns or
  times out (`DEFAULT_STATE_TIMEOUT`, HTTP timeouts).  Nothing is assumed about clients,
  late writes, expiry.
* `Replay`: weak fairness of the pending fetch, of each request (it is answered
  or `api.js:33` aborts it after 15 s) and of each continuation (a settled
  promise resumes its function, a timer fires).  The user owes nothing, and an
  abandoned request may never arrive.
* `DriverScreen`, `Snapshots`, `Recommendation`, `RouteHistory`, `Decisions`
  and `DatasetBuild` state nothing that must eventually happen and assume no
  fairness.

## 5. The proofs

`DriverIngestProofs` assumes only what `DriverTrace` and `DriverIngest` state
of their constants: observations are records of positive timestamps,
thresholds are numbers, the two kinds of workers are disjoint.

* `TypeCorrect`: `Spec => []TypeOK`.
* `WritesAlwaysCurrent`: `Spec => []WritesCurrent`.
* `RegisterImplemented`: `Spec => Register!Spec`.
* `ResetIsolated`: `Spec => []ResetIsolates`.
* `LocationNeverBack`: `Spec => LocationAdvances`.
* `BufferInOrder`: `Spec => []BufferOrdered`.
* `ContextSuffices`: `Spec => []EnoughContext`, if `GapThreshold <= Window` and
  `MaxContext >= 2`, as the defaults of the code have it.
* `EachCountsOnce`, `NoLostUpdate`: `Spec => []CountedOnce` and
  `Spec => []AckedKept`, if `MaxDedup` is no smaller than the number of
  observations.  Past it `_cleanup_dedup` forgets identifiers and both fail.

`TypeOK` is not enough for any of the others.  What makes the protocol right is
`WritesCurrent`: whatever is still to be written, by a worker or from `limbo`,
either carries a version the key has passed, and will be refused, or was
computed from the very trace the key holds, and is then an operation of the
register.  `WriteReady` says so for each program counter.  A match is computed
from the worker's own copy, so the invariant also needs that the last of the
context is the newest observation (`NewestKept`).
`IInv == TypeOK /\ WritesCurrent /\ NewestKept` is inductive.  Each action
either leaves the key alone, and then changes one worker's claim, or writes it,
and then every other claim becomes a passed version: `Expire` is the one that moves the
version back, and it requires that no claim is left.  `Restart` does not, which
is why `driver_restart` is violated.  For `ResetIsolates` the invariant is
extended by `BegunKept`: the observation a worker is about to add was begun in
the generation of its base.  `LocationAdvances` follows from the refinement and
one fact of the trace, `AcceptAdvances`: an observation that is added is the
newest, and a match never claims a later time (`MatchBehind`).  The two facts
about the buffer follow from the refinement in the same way: every operation
keeps neighbours in order and no further apart than the gap (`SpacedOut`).  So
does the count (`Counted`); `AckedKept` needs in addition that a worker about
to write holds its own observation (`AboutToAck`), and that a generation once
over does not come back (`Remembered`).

`RecommendationProofs` proves all properties of the run and `TypeOK`, for any catalog,
any reports, readers and requests: `TypeCorrect`, `RankedAreEligible`,
`ConfirmedAreEligible`, `ViewsOnlyAdvance`, `ConflictsAreReal`.  The argument
rests on heads: among the rows up to a time there is a newest one
(`NewestExists`, from the well-foundedness of `<` on the naturals, applied to
the distances to that time); a row visible once stays visible, so a head is
only replaced by one that is not older (`HeadsAdvance`).  The inductive
invariant `IInv` gives each reader its `ReaderInv`: what the saved evidence
and candidates are at each program counter, and that the view lies within the rows
up to the request's time.  A pair that is not *invalidated* has kept its
versions or is eligible in the new ones (`NotInvalidated`).

`RouteHistoryProofs` proves all properties of `route_history`, `TypeOK` and
that 201 is answered once (`CreatedOnce`), for any
submissions, requests and faults.  The tables only grow (`Grown`: a row keeps
every piece of evidence it has), each statement lets them grow
(`ExecuteGrows`), and both what a request has read before its next statement
(`Claim`) and what has been answered (`Truth`) survive growth (`ClaimGrows`,
`TruthGrows`).  `IInv == TypeOK /\ Claims /\ Truths` is inductive.  The
refinement needs `Claims`: a `Fill` that is executed late finds the route it
was compared with, because `route` never changes, and the condition repeated
in its `WHERE` decides the rest.

`DriverScreenProofs` proves all properties of `driver_screen` and `TypeOK`, for any
stations, any destinations and any finite number of waiting handlers:
`TypeCorrect`, `LockedAlwaysOnPlan`, `EstimatesAlwaysCurrent`,
`OnlyChoiceEverLocks`, `LateAnswersAlwaysInert`.  What the screen shows is not
inductive on its own, because an answer is applied to a screen its request has
never seen.  The inductive invariant `IInv == ScreenOK /\ HandlersOK` says what
each waiting handler still holds.  `OpOK`: a request knows where it leads, and
as long as its `_powerRevision` has not moved, nor has the driver's input; this
is what makes `EstimatesCurrent` survive a late evaluation.  `Grounded`: a
request whose generation has not moved still finds the trip it is for, and the
passenger of the plan it confirms.  `OneEvaluation`: the flag `_isEvaluating`
counts the evaluations.  One lemma per helper (`BumpGood`, `SendGood`,
`ReturnGood`, `EvaluateGood`, ...) says that it keeps `HandlersOK`, and one per
action puts them together.  For `LateAnswersInert`, every action is shown to
leave the handlers of other slots waiting (`Framed`).

`SnapshotsProofs` proves all properties of `snapshots` that are about the store
and `TypeOK`, for any keys, any finite batches, any finite set of writers and any
faults: `TypeCorrect`, `NeverDeadlocked`, `AnswersStayTrue`, `ViewsArePinned`,
`CacheNeverGoesBack`, `StoreImplemented`.  The inductive invariant says what each
writer (`Claim`) and each reader (`Holding`) can rely on at its program counter,
that no two transactions hold the same unique key (`Exclusive`), that the table is
finite and consistent, and that the cache and what is to be put there are
committed (`CacheOK`).  Claims survive what others commit, because a committed row
meets nothing a transaction holds (`ClaimGrows`); this is where `Exclusive` is needed.
For `NoLockCycle`, of any set of writers that wait for each other take one whose
next row comes last in the lock order (`Largest`).  The transaction it waits for
inserts in that order too, so its own next row is the row it already holds; and
nobody else can hold that.  Finite batches matter: only they make sure
that a key has a newest row (`NewestFound`).

`SnapshotsProofs` proves also that every behaviour of `Simulator` is one of
`Snapshots` (`SimulatorIngests`), so that all the above holds with the simulator
as a source, and `ViewsAreCoherent`: committed rows of the simulator come in pairs
(`Paired`), so of two heads of one instant neither can be older than the other
(`HeadsCoherent`).

`ReplayProofs` proves all safety properties of `replay` and `TypeOK`, for any
tracks and any number of user actions: `TypeCorrect`, `PlaybackHasOwner`,
`ProgressIsConfirmed`, `FlagIsReleased`, `StaleIsInert`.  `SlotOK` says what an
activity of the current generation knows: every index before its own is
accepted, and its own once the answer said so; one of an older generation knows nothing
(`SlotAged`), which is what the guards are for.  No two loops have one token
(`Distinct`), which makes the owner of `PLAYING` unique; a flag that is set
has a step in some slot, of this session or an earlier one, whose end clears it (`FlagOK`); a track that is still awaited is empty
(`LoadOK`), so that nothing is under way on it when it arrives.  `BusyOK` counts
the activities against the actions, so that a new one finds a free slot.

`DecisionsProofs` proves all properties of `decisions` but `EnergyBalanced`, and the contracts of
what a request computes, for any catalog, vehicles, telemetry, networks, states
of the stations, delays and assessments: `NobodyStranded`,
`ServiceKeepsReserve`, `DetourIsBounded`, `ChargeHelps`, `ContractsKept`
(`Spec => []TypeOK`).  It assumes what the modules state of their constants; two
of these are worth a word.  A module's usable energy is a whole number of the
unit (`CatalogAssumption`), so that two capacities computed in two ways can be equal;
and `None` is nothing else.  The inductive invariant `Consistent` says that each
stage of a request is a function of what is already decided: the request
searched for is the driver's, or what is left of it at the destination
(`Chosen`), the candidates are those of this request, network and rows
(`Found`), the order is that of these candidates (`Ordered`).  Each property is
then a statement about these functions:

* `ReachableNow`: the reserve the search leaves on the way from its start is
  also left on the way from where the vehicle is, because what the first leg
  consumes is exactly what `Arrived` takes off (`KeptOverLegs`); the search compares
  the range that the request carries, which differs from what the telemetry gives by half a
  unit of rounding at most (`WithinReported`).
* `ArrivesWithReserve`: an eligible pair's departure is no less than the energy
  required (`DepartureSuffices`), charging because it ends at whichever of
  arrival and requirement is more, a swap because it is refused otherwise; and the
  requirement is computed with the rounded reserve, half a unit from the policy's (`ReserveShort`).
* `BoundedDetour`: the order of the ranking is a strict order on sort keys and a
  finite set has a first (`FirstExists`, by well-foundedness of the strict subset
  relation), so the head of the ranking exists, and what familiarity can add
  to a penalty is bounded.
* `ChargeNeverHurts`: two requests that differ in their charge are compared
  stage by stage: `SameDemand` says what they have in common, `Better` that
  one has no less of everything that is left; every verdict is monotone in `Better`.

`ContractsKept` strengthens `Consistent` by `Contracts`, the types of the two
requests and what the code's own validation demands of them
(`SemanticInvariants`).

It begins with what these need about fractions: the operations stay within them, their order
is a total one, and sums and products respect it.  The definition of a
fraction keeps it in lowest terms by a divisor that is *tested* (`Q`), of which
it suffices to know that it divides; comparison of three fractions goes over a common denominator.

`DatasetProofs` is about a chain of programs that can be killed between any two
writes, and then reads a directory in which some files are old and some are
new.  It proves `AcceptedIsFinal`, `CandidatesFollow`, `LastRunAccepted` and `LabelsAgree`,
four of the five invariants of `dataset`, and `FinishedIsFinal`, `RunsAgainTheSame`,
`StuckOnlyThere`, `TypeCorrect`, for any number of crashes and any trips, stations,
vehicles and worlds the assumptions allow (`TripsAssumption`, `RankingAssumption`,
`FleetAssumption`, `WorldsAssumption`, `LimitsAssumption`; see Bounds).

* `AcceptedIsFinal`, `FinishedIsFinal`, `RunsAgainTheSame` and `StuckOnlyThere` rest on one question: is what a script writes the same
  when some of its own files are there already?  For 04, 04b, 05, 06 and 07
  it is because of the order of writing, or because a file that is read
  and written is written back as it would be from the new
  one (06: a vehicle already patched stays; 07: a queue rebuilt is
  rebuilt as it is).  05b has to find the event it has already
  tied, 05c to find nothing left to synchronise.  `Retraced` is the
  inductive invariant: while script *n* runs, the files it has already written are those of
  the uninterrupted chain (`LeftBy04` .. `LeftBy07`), the others those of
  the script before, what is pending is the rest, and a `PASS` was
  said of the final files only.  None of the invariants of the
  run is inductive: they say nothing of a directory half-way.
  `StuckOnlyThere` says where the argument ends: 05 started over after its
  first file finds its own columns.
* `CandidatesFollow` has one lemma for each stage that may have written the
  tables last.  05c is the easy one: it makes the rows follow (`SyncedMirrors`).  06 and 07
  do not read the queues of a row as they are; they pool the two and split
  the sum in proportion to who is served.  That this returns the same two queues is
  `Fits`, and it is proved from the first split on: whole queues of a station
  with one service (`SplitFits`, with the rounding of halves to even in
  `HalfEven..`), one service of a row staged (`SetFits`, by a least number
  over the stagings in `ServingFits`), one queue lengthened (`LengthenFits`).
  This is where `StationRow` and `Separable` are needed, and the second is why: on
  a mixed station with two busy services a staged queue is spread over both.

* `LastRunAccepted` is by `FinishedIsFinal` a statement about `LeftBy07(w)`:
  07 computes tables, the validator looks at them by other definitions, and each
  section is a lemma (`DemandPasses`, `BatteryPasses`, `CandidatesPass`,
  `RankingPasses`, `RecommendationsPass`, `StatePasses`, `EventsPass`, `TrainingPasses`).
  A rank is one more than the number of cheaper rows of an event, so that the
  ranks are 1 to *n* without a gap follows from the order being total
  (`CheaperOrders`) by counting (`PlacesAre`), and so does that the nearest
  stations of a group are as many as it may have (`FirstPlaces`).
  Only a row whose journey is complete is ranked: `EligiblePriced` says that
  every eligible row is.  That a battery runs down is monotony, of each operation
  on fractions, the whole multiples of a percent and the clamp to 0 (`SocFalls`).
  `Roomy`, beside `Fits`, is what the validator asks of a state row, through
  the split, the stagings and the patch of 05b.
* `LabelsAgree` compares the same `LeftBy07(w)` with definitions of the backend,
  which share nothing with those of 06 and 07.  A context rebuilt from
  a trip finds its row by an identifier that counts: `Numbered` shows that the
  events before it in the order of 06 are three for each earlier snapshot and
  a fourth where the vehicle can swap, which is
  what the replay schedules (`JoinedSize`, `KindSize`).  `DetectorAgrees` goes
  through the four answers of the detector; `Rebuilds` is what a context
  keeps of the row it was rebuilt from.  `JudgedAlike` goes through the
  reasons a candidate is refused for, in the order of each side.  The two
  differ in what they read: the runtime has whole minutes, rounded
  up, where 07 has the exact wait.  `CeilingOver` is why this decides nothing:
  a rounded wait exceeds a limit in whole minutes exactly if the exact one does.

Invariants that a proof rests on (`TypeOK`, `WritesCurrent`, `CreatedOnce`) are
proved and no longer part of a run.

Only model-checked:

* liveness (`EveryRequestAnswered`, `PlaybackEnds`), which the prover does not do;
* `ScenariosStand` of `dataset`, which is not true of every data: a scenario
  survives the later stagings where they are of other rows;
* `EnergyBalanced` of `decisions`: its two sides are sums of rounded fractions over
  the stages of a request;
* what is evaluated as an assumption: `CatalogsAgree`, `AssessmentsAssumption`.
