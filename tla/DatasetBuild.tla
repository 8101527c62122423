---------------------------- MODULE DatasetBuild ----------------------------
(***************************************************************************)
(* The chain of scripts that turns version 1.0 of the dataset into 1.3.1:  *)
(* 04 and 04b (scenarios staged and found), 05 (states and labels by       *)
(* service), 05b (the near-tie scenario), 05c (candidates follow its       *)
(* queue), 06 (models and energy), 07 (what is left open stays open), and  *)
(* the validator.  Every script reads all its files before it writes the   *)
(* first; it may be interrupted between two writes and is then run again.  *)
(* A file is written as a whole.                                           *)
(***************************************************************************)
EXTENDS DatasetChecks

CONSTANTS
  Worlds,                \* what version 1.0 says: [rows, bias], and the rows 04
                         \* broadcasts anyway, sampled
  OldVehicles, OldBattery,
  NearTie, TieGoal,      \* TARGET_MAX_DIFF_MIN, TARGET_DIFF_MIN
  Target,                \* 05c: TARGET_STATION and TARGET_STATE_TS
  MaxCrashes             \* how often the chain is interrupted

ASSUME CrashesAssumption == MaxCrashes \in Nat

(* The batteries of version 1.0 only run down, and where 04 has staged them *)
(* most snapshots are in need: the charge of nobody is computed again.     *)
ASSUME FleetAssumption ==
  /\ \A t \in Trips : Trip[t].vehicle \in DOMAIN OldVehicles
  /\ \A v \in DOMAIN OldVehicles : /\ OldVehicles[v].capacity \in Fraction
                                   /\ OldVehicles[v].capacity.n > 0
                                   /\ OldVehicles[v].consumption \in Nat \ {0}
  /\ DOMAIN OldBattery = {<<a[1], a[2]>> : a \in AutoEvents}
  /\ BatteryChecks(OldBattery) /\ \A k \in DOMAIN OldBattery : OldBattery[k].range \in Int

ASSUME NeedAssumption ==
  LET battery == Battery04(OldVehicles, OldBattery)
  IN  Mostly([a \in AutoEvents |-> Detected(a, battery) # "SUFFICIENT_SOC_RANGE"], AutoEvents)

VARIABLES
  world,                 \* which data the chain started from
  disk,                  \* the files
  stage,                 \* the script to run next, or running
  pending,               \* what the running script still has to write
  stopped,               \* a script ended with an error before it wrote
  verdict,               \* validation_results.json
  crashes

vars == <<world, disk, stage, pending, stopped, verdict, crashes>>

Scripts == <<"04", "04b", "05", "05b", "05c", "06", "07">>
Done == Len(Scripts) + 1
File(name, content) == [file |-> name, content |-> content]
Nothing == [x \in {} |-> None]

-----------------------------------------------------------------------------
(* The files before the chain, of those it reads before it writes them.    *)
(* checked is the column validator_status of the scenarios, which only the *)
(* validator fills.                                                        *)
Original(w) ==
  [status |-> [split |-> FALSE, rows |-> w.rows],
   queue |-> [split |-> FALSE, rows |-> [k \in DOMAIN w.rows |-> w.rows[k].queue]],
   vehicles |-> OldVehicles, battery |-> OldBattery, demand |-> Nothing, features |-> Nothing,
   catalog |-> FALSE, normalized |-> FALSE, esr |-> Nothing, need |-> Nothing,
   candidates |-> Nothing, ranking |-> Nothing, recommendations |-> Nothing,
   events |-> [status |-> Nothing, queue |-> Nothing],
   scenario |-> [name |-> "NEED_SWAP", rows |-> Nothing], checked |-> {}]

-----------------------------------------------------------------------------
(* 04 reads its station rows from two files, and writes both.  What it says *)
(* of the scenarios 04b finds out anew, and writes over before anything    *)
(* reads it: left out.                                                     *)
RowsOf(d) == [k \in DOMAIN d.status.rows |-> [d.status.rows[k] EXCEPT !.queue = d.queue.rows[k]]]

Broadcast04(w, rows, stagings) ==
  LET touched == {<<stagings[i].station, stagings[i].time>> : i \in DOMAIN stagings}
  IN [k \in DOMAIN rows \cap (touched \cup w.sampled) |-> rows[k]]

Tables04(battery, demand, rows, candidates, ranking, broadcast) ==
  << File("battery", battery), File("demand", demand), File("features", demand),
     File("status", [split |-> FALSE, rows |-> rows]),
     File("queue", [split |-> FALSE, rows |-> [k \in DOMAIN rows |-> rows[k].queue]]),
     File("candidates", candidates), File("ranking", ranking),
     File("recommendations", Recommended04(candidates, ranking)),
     File("events", [status |-> broadcast, queue |-> Nothing]) >>

Ranked04(battery, demand, rows, candidates, broadcast) ==
  Tables04(battery, demand, rows, candidates, RankingTable04(demand, candidates), broadcast)

Labelled04(w, battery, demand, rows, stagings) ==
  Ranked04(battery, demand, rows, CandidateTable04(demand, rows), Broadcast04(w, rows, stagings))

Scripted04(w, d, battery, demand, stagings) ==
  Labelled04(w, battery, demand, Staged04(RowsOf(d), stagings), stagings)

Demanded04(w, d, battery, demand) == Scripted04(w, d, battery, demand, Stagings(demand))

Driven04(w, d, battery) == Demanded04(w, d, battery, Demand04(d.vehicles, battery))

Output04(w, d) == Driven04(w, d, Battery04(d.vehicles, d.battery))

(* 04b broadcasts every state, and writes the scenarios anew.              *)
Found(d) ==
  [name \in Shown \cap {Trip[t].scenario : t \in Trips} |->
     Evidence(name, d.candidates, d.ranking, RowsOf(d))]

Output04b(d) ==
  << File("events", [status |-> d.status.rows, queue |-> Nothing]),
     File("scenario", [d.scenario EXCEPT !.rows = Found(d)]) >>

-----------------------------------------------------------------------------
SplitRows(w, d) ==
  [k \in DOMAIN d.status.rows |-> SplitStatus(k[1], d.status.rows[k], w.bias[k])]

SplitQueues(split, d) ==
  [k \in DOMAIN split |-> ServiceQueue(k[1], split[k], d.queue.rows[k])]

Tables05(d, tables, farther, candidates, ranking) ==
  << File("status", [split |-> TRUE, rows |-> tables.status]),
     File("queue", [split |-> TRUE, rows |-> tables.queue]),
     File("candidates", candidates), File("ranking", ranking),
     File("recommendations", Recommendations({e \in DOMAIN d.demand : d.demand[e].need}, ranking)),
     File("events", tables),
     File("scenario", [d.scenario EXCEPT !.rows = FartherRow(@, ranking, farther)]) >>

Labelled05(d, tables, farther, candidates) ==
  Tables05(d, tables, farther, candidates, RankingTable(candidates))

Candidates05(d, tables, farther) ==
  Labelled05(d, tables, farther, CandidateTable05(d.demand, tables.status, tables.queue))

SplitTables(d, split) == [status |-> split, queue |-> SplitQueues(split, d)]

Split05(w, d) == SplitTables(d, SplitRows(w, d))

Staged05(w, d, farther) ==
  Candidates05(d, Served(Split05(w, d), Preserved(d.scenario.rows, d.demand) \o Slowed(farther)), farther)

Output05(w, d) == Staged05(w, d, Farther(d.demand))

-----------------------------------------------------------------------------
(* 05b.  Of the events of the near-tie trips the one that is tied already, *)
(* or nearest to it, has its best station's queue lengthened to a tie.     *)
At(ranking, e, n) == CHOOSE k \in DOMAIN ranking : k[1] = e /\ ranking[k].rank = n

Lead(ranking, e) == Minus(ranking[At(ranking, e, 2)].cost, ranking[At(ranking, e, 1)].cost)

Needed(lead) == IF Leq(lead, Whole(NearTie)) THEN Zero ELSE Minus(lead, TieGoal)

NearTrips == {t \in Trips : Trip[t].scenario = "NEAR_TIE_STATIONS"}

TieEvents(ranking) == {e \in {k[1] : k \in DOMAIN ranking} :
                       e[1] \in NearTrips /\ Cardinality(Ranks(ranking, e)) >= 2}

NearestTie(leads) ==
  LET needed == [e \in DOMAIN leads |-> Needed(leads[e])]
  IN  CHOOSE e \in DOMAIN leads : \A f \in DOMAIN leads :
        \/ Less(needed[e], needed[f])
        \/ needed[e] = needed[f] /\ (Less(leads[e], leads[f])
                                      \/ (leads[e] = leads[f] /\ (Earlier(e, f) \/ e = f)))

Chosen(ranking) == NearestTie([e \in TieEvents(ranking) |-> Lead(ranking, e)])

(* key is the row of the station of best, and row what it becomes.         *)
Tables05b(d, e, key, row, candidates, ranking) ==
  << File("queue", [d.queue EXCEPT !.rows[key] = row]),
     File("candidates", candidates), File("ranking", ranking),
     File("recommendations", [d.recommendations EXCEPT ![e] = At(ranking, e, 1)[2]]),
     File("events", [d.events EXCEPT !.queue[key] = row]),
     File("scenario", [d.scenario EXCEPT !.rows["NEAR_TIE_STATIONS"] =
       [passed |-> Leq(Lead(ranking, e), Whole(NearTie)), trip |-> e[1],
        event |-> EventId(DOMAIN d.demand, e), station |-> At(ranking, e, 1)[2],
        other |-> At(ranking, e, 2)[2], time |-> key[2]]]) >>

Tied(d, e, key, best, row) ==
  Tables05b(d, e, key, row,
            [d.candidates EXCEPT ![best].state.length = row.length[best[3]],
                                 ![best].state.wait = row.wait[best[3]]],
            Reranked(Repriced(d.ranking, best, row.wait[best[3]], d.ranking[best].capacity), {e}))

NearTied(d, e, key, best, needed) ==
  IF needed = Zero
  THEN Tables05b(d, e, key, d.queue.rows[key], d.candidates, Reranked(d.ranking, {e}))
  ELSE Tied(d, e, key, best,
            Lengthen(d.queue.rows[key], best[3], d.status.rows[key].busy[best[3]], needed))

Patch05b(d, e, best) ==
  NearTied(d, e, <<best[2], SnapshotOf(e).time>>, best, Needed(Lead(d.ranking, e)))

Tie05b(d, e) == Patch05b(d, e, At(d.ranking, e, 1))

Output05b(d) == Tie05b(d, Chosen(d.ranking))

(* 05c.                                                                    *)
Output05c(d) ==
  LET candidates == Synced(d.candidates, Target, d.status.rows, d.queue.rows)
      ranking == SyncedRanking(d.ranking, candidates, Target)
      moved == {k[1] : k \in Affected(candidates, Target) \cap DOMAIN ranking}
  IN << File("candidates", candidates), File("ranking", ranking),
        File("recommendations",
             [e \in DOMAIN d.recommendations |->
                IF e \in moved THEN At(ranking, e, 1)[2] ELSE d.recommendations[e]]) >>

-----------------------------------------------------------------------------
(* 06 and 07 rebuild the labels, from states they take from the tables.    *)
Rebuild(d, status) ==
  [status |-> status,
   queue |-> [k \in DOMAIN d.queue.rows |-> RebuiltQueue(k[1], status[k], d.queue.rows[k])]]

RebuiltTables(d) ==
  Rebuild(d, [k \in DOMAIN d.status.rows |-> Rebuilt(k[1], d.status.rows[k])])

Results06(vehicles, battery, demand, tables, candidates, ranking) ==
  << File("catalog", TRUE), File("vehicles", vehicles), File("normalized", TRUE),
     File("battery", battery), File("demand", demand), File("features", demand),
     File("esr", demand), File("need", TrainingTable06(demand)),
     File("candidates", candidates), File("ranking", ranking),
     File("recommendations", Recommendations(Needing(demand), ranking)), File("events", tables) >>

Labelled06(vehicles, battery, demand, tables, candidates) ==
  Results06(vehicles, battery, demand, tables, candidates, RankingTable(candidates))

Tables06(vehicles, battery, demand, tables) ==
  Labelled06(vehicles, battery, demand, tables,
             CandidateTable06(demand, TRUE, tables.status, tables.queue))

Demanded06(d, vehicles, battery) ==
  Tables06(vehicles, battery, DemandTable06(vehicles, battery), RebuiltTables(d))

(* Step 3 looks a trip up among the columns of the table of trips, finds   *)
(* none, and writes every battery back as it was: charge and range stay    *)
(* those of the vehicles of version 1.1.                                   *)
Driven06(d, vehicles) == Demanded06(d, vehicles, d.battery)

Output06(d) ==
  Driven06(d, IF d.vehicles = OldVehicles THEN [v \in DOMAIN OldVehicles |-> Patched(v)]
              ELSE d.vehicles)

Results07(d, demand, tables, candidates, ranking) ==
  << File("demand", demand), File("esr", demand), File("need", TrainingTable07(demand)),
     File("features", demand), File("candidates", candidates), File("ranking", ranking),
     File("recommendations", Recommendations(Needing(demand), ranking)), File("events", tables),
     File("scenario", [d.scenario EXCEPT !.name = "NEED_ENERGY_BOTH_ALLOWED"]) >>

Labelled07(d, demand, tables, candidates) ==
  Results07(d, demand, tables, candidates, RankingTable(candidates))

Tables07(d, demand, tables) ==
  Labelled07(d, demand, tables,
             CandidateTable07(demand, d.normalized, tables.status, tables.queue))

MutatedOutput07(d) ==
  LET output == Tables07(d, DemandTable07(d.vehicles, d.battery), RebuiltTables(d))
  IN  SelectSeq(output, LAMBDA f : f.file = "scenario") \o SelectSeq(output, LAMBDA f : f.file # "scenario")

Output07(d) == Tables07(d, DemandTable07(d.vehicles, d.battery), RebuiltTables(d))

-----------------------------------------------------------------------------
(* What a script writes, in order, and whether it gets that far: 05 does   *)
(* not understand its own tables, 05b needs a ranking of two.              *)
Output(script, w, d) ==
  CASE script = "04"  -> Output04(w, d)
    [] script = "04b" -> Output04b(d)
    [] script = "05"  -> Output05(w, d)
    [] script = "05b" -> Output05b(d)
    [] script = "05c" -> Output05c(d)
    [] script = "06"  -> Output06(d)
    [] OTHER          -> Output07(d)

Runs(script, d) ==
  CASE script = "05"  -> ~d.status.split /\ ~d.queue.split
    [] script = "05b" -> TieEvents(d.ranking) # {}
    [] script = "05c" -> Target \in DOMAIN d.status.rows
    [] OTHER          -> TRUE

(* All of it written: what an uninterrupted script leaves behind.          *)
Written(d, output) ==
  [f \in DOMAIN d |->
     IF \E i \in DOMAIN output : output[i].file = f
     THEN output[CHOOSE i \in DOMAIN output : output[i].file = f].content ELSE d[f]]

After04(w, d) == Written(d, Output04(w, d))
After04b(d)   == Written(d, Output04b(d))
After05(w, d) == Written(d, Output05(w, d))
After05b(d)   == Written(d, Output05b(d))
After05c(d)   == Written(d, Output05c(d))
After06(d)    == Written(d, Output06(d))
After07(d)    == Written(d, Output07(d))

(* What the scripts leave behind, each in turn, if none is interrupted.    *)
LeftBy04(w)  == After04(w, Original(w))
LeftBy04b(w) == After04b(LeftBy04(w))
LeftBy05(w)  == After05(w, LeftBy04b(w))
LeftBy05b(w) == After05b(LeftBy05(w))
LeftBy05c(w) == After05c(LeftBy05b(w))
LeftBy06(w)  == After06(LeftBy05c(w))
LeftBy07(w)  == After07(LeftBy06(w))

(* 05c and 05b were written for each other: what 05b patches, if anything, *)
(* is the row 05c names, where somebody is being served, by that service   *)
(* alone.  And 05b is made for an event it can tie: looking again it finds *)
(* the same one, with the same best station, tied, or with the same work   *)
(* to do.  It does not insist on a tie, it only marks the scenario failed. *)
(* Assumed of the worlds.                                                  *)
AllFree(row, s, v) == \A u \in Services \ {v} : row.free[u] = Slots(s)[u]

SuitedTo(d, e, best, ranking) ==
  Needed(Lead(d.ranking, e)) # Zero =>
    /\ Needed(Lead(d.ranking, e)) \in Fraction
    /\ <<best[2], SnapshotOf(e).time>> = Target /\ Target \in DOMAIN d.queue.rows
    /\ best \in Affected(d.candidates, Target)
    /\ d.queue.rows[Target].active[best[3]] > 0
    /\ AllFree(d.status.rows[Target], Target[1], best[3])
    /\ Chosen(ranking) = e /\ At(ranking, e, 1) = best
    /\ Needed(Lead(ranking, e)) \in {Zero, Needed(Lead(d.ranking, e))}

Suited(w) ==
  \E d \in {LeftBy05(w)} :
    /\ TieEvents(d.ranking) # {}
    /\ \E e \in {Chosen(d.ranking)} :
         SuitedTo(d, e, At(d.ranking, e, 1), After05b(d).ranking)

(* Where 05 stages a service of a row, the other service is at leisure and *)
(* is not staged as well: 06 and 07 add the two queues up and split them   *)
(* again.                                                                  *)
ServingRow == [station : Stations, time : Nat, service : Services, available : Nat,
               wait : {x \in Fraction : x.n >= 0}]
Sets(p, k) == <<p.station, p.time>> = k /\ CanSet(p.station, p.service, p.wait)

SeparableBy(split, servings) ==
  /\ servings \in Seq(ServingRow)
  /\ \A i \in DOMAIN servings : \A k \in DOMAIN split :
       Sets(servings[i], k) =>
         /\ AllFree(split[k], k[1], servings[i].service)
         /\ \A j \in DOMAIN servings : Sets(servings[j], k) => servings[j].service = servings[i].service

Separable(w) ==
  \E d \in {LeftBy04b(w)} :
    SeparableBy(SplitRows(w, d), Preserved(d.scenario.rows, d.demand) \o Slowed(Farther(d.demand)))

(* There is a row of every station for every snapshot.                     *)
Covered(w) == \A s \in Stations : \A a \in AutoEvents : <<s, SnapshotOf(a).time>> \in DOMAIN w.rows

ASSUME WorldsAssumption ==
  \A w \in Worlds : /\ DOMAIN w.rows \subseteq Stations \X Nat /\ w.rows \in [DOMAIN w.rows -> StationRow]
                    /\ Covered(w)
                    /\ w.bias \in [DOMAIN w.rows -> Int]
                    /\ Separable(w) /\ Suited(w)

-----------------------------------------------------------------------------
Init ==
  /\ world \in Worlds
  /\ disk = Original(world)
  /\ stage = 1 /\ pending = <<>> /\ stopped = FALSE
  /\ verdict = "none" /\ crashes = 0

Idle == pending = <<>> /\ ~stopped

(* A script reads everything it needs.                                     *)
Start ==
  /\ Idle /\ stage # Done
  /\ Runs(Scripts[stage], disk)
  /\ pending' = Output(Scripts[stage], world, disk)
  /\ UNCHANGED <<world, disk, stage, stopped, verdict, crashes>>

(* It ends with an error instead; the chain needs a fresh copy of the data.*)
Refuse ==
  /\ Idle /\ stage # Done
  /\ ~Runs(Scripts[stage], disk)
  /\ stopped' = TRUE
  /\ UNCHANGED <<world, disk, stage, pending, verdict, crashes>>

Write ==
  /\ pending # <<>>
  /\ disk' = [disk EXCEPT ![Head(pending).file] = Head(pending).content]
  /\ pending' = Tail(pending)
  /\ stage' = IF Tail(pending) = <<>> THEN stage + 1 ELSE stage
  /\ UNCHANGED <<world, stopped, verdict, crashes>>

(* The process is killed; the script will be run once more.                *)
Crash ==
  /\ pending # <<>> /\ crashes < MaxCrashes
  /\ pending' = <<>> /\ crashes' = crashes + 1
  /\ UNCHANGED <<world, disk, stage, stopped, verdict>>

(* The validator, at any time nothing runs: it ends at once where a file   *)
(* or column is missing, else marks the scenarios and writes its verdict.  *)
Validate ==
  /\ pending = <<>>
  /\ IF Readable(disk)
     THEN /\ disk' = [disk EXCEPT !.checked = Upheld(disk)]
          /\ verdict' = IF Accepted(disk) THEN "PASS" ELSE "FAIL"
     ELSE UNCHANGED <<disk, verdict>>
  /\ UNCHANGED <<world, stage, pending, stopped, crashes>>

Next == Start \/ Refuse \/ Write \/ Crash \/ Validate

Spec == Init /\ [][Next]_vars
=============================================================================
