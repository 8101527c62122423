--------------------------- MODULE DatasetProofs ---------------------------
(***************************************************************************)
(* Proofs about the chain of scripts of DatasetBuild: however often it is  *)
(* interrupted and a script run again, the files it ends with are those of *)
(* an uninterrupted chain.  Running again is harmless because a script     *)
(* that finds some of its own files recomputes all of them as they were;   *)
(* that is one lemma for every script.                                     *)
(***************************************************************************)
EXTENDS DatasetReplay, SequenceTheorems, FiniteSetTheorems, WellFoundedInduction, TLAPS

-----------------------------------------------------------------------------
(* What a script writes: a list of files, none of them twice, and never    *)
(* the column of the validator.                                            *)

Names == {"status", "queue", "vehicles", "battery", "demand", "features", "catalog",
          "normalized", "esr", "need", "candidates", "ranking", "recommendations",
          "events", "scenario", "checked"}

Proper(output) ==
  /\ \E S : output \in Seq(S)
  /\ output # <<>>
  /\ \A i \in 1..Len(output) : output[i].file \in Names \ {"checked"}
  /\ \A i, j \in 1..Len(output) : output[i].file = output[j].file => i = j

Files(d) == d = [f \in Names |-> d[f]]

(* The files of d are those of old with the first m of output written; the *)
(* column of the validator may say anything.                               *)
Partly(d, old, output, m) ==
  /\ Files(d)
  /\ \A i \in 1..m : d[output[i].file] = output[i].content
  /\ \A f \in Names \ {"checked"} : (\A i \in 1..m : output[i].file # f) => d[f] = old[f]

Alike(d, old) == Files(d) /\ \A f \in Names \ {"checked"} : d[f] = old[f]

LEMMA ProperLength ==
  ASSUME NEW output, Proper(output)
  PROVE  Len(output) \in Nat \ {0} /\ DOMAIN output = 1..Len(output)
BY DEF Proper

(* Everything written at once.                                             *)
LEMMA WrittenIs ==
  ASSUME NEW old, NEW output, Files(old), Proper(output)
  PROVE  /\ Files(Written(old, output))
         /\ Partly(Written(old, output), old, output, Len(output))
         /\ Written(old, output).checked = old.checked
<1>1. DOMAIN output = 1..Len(output)
  BY ProperLength
<1>2. DOMAIN old = Names
  BY DEF Files
<1> DEFINE new == Written(old, output)
<1>3. new = [f \in Names |->
               IF \E i \in 1..Len(output) : output[i].file = f
               THEN output[CHOOSE i \in 1..Len(output) : output[i].file = f].content ELSE old[f]]
  BY <1>1, <1>2 DEF Written
<1> HIDE DEF new
<1>4. Files(new)
  BY <1>3 DEF Files
<1>5. \A i \in 1..Len(output) : new[output[i].file] = output[i].content
  <2> TAKE i \in 1..Len(output)
  <2> DEFINE k == CHOOSE j \in 1..Len(output) : output[j].file = output[i].file
  <2>1. k \in 1..Len(output) /\ output[k].file = output[i].file
    OBVIOUS
  <2>2. k = i
    BY <2>1 DEF Proper
  <2>3. output[i].file \in Names
    BY DEF Proper
  <2>4. new[output[i].file] = output[k].content
    BY <1>3, <2>3
  <2> QED BY <2>2, <2>4
<1>6. \A f \in Names : (\A i \in 1..Len(output) : output[i].file # f) => new[f] = old[f]
  BY <1>3
<1>7. new["checked"] = old["checked"]
  BY <1>6 DEF Proper, Names
<1> QED BY <1>4, <1>5, <1>6, <1>7 DEF Partly, new

(* Before the first write nothing has changed, after the last one all of   *)
(* it is there.                                                            *)
LEMMA PartlyNone ==
  ASSUME NEW d, NEW old, NEW output, Alike(d, old)
  PROVE  Partly(d, old, output, 0)
BY DEF Alike, Partly

LEMMA PartlyAll ==
  ASSUME NEW d, NEW old, NEW output, Proper(output), Files(old), Partly(d, old, output, Len(output))
  PROVE  Alike(d, Written(old, output))
<1> DEFINE new == Written(old, output)
<1>1. Partly(new, old, output, Len(output))
  BY WrittenIs
<1> HIDE DEF new
<1>2. \A f \in Names \ {"checked"} : d[f] = new[f]
  <2> TAKE f \in Names \ {"checked"}
  <2>1. CASE \A i \in 1..Len(output) : output[i].file # f
    BY <1>1, <2>1 DEF Partly
  <2>2. CASE \E i \in 1..Len(output) : output[i].file = f
    BY <1>1, <2>2 DEF Partly
  <2> QED BY <2>1, <2>2
<1> QED BY <1>2 DEF Alike, Partly, new

(* One more file.  A script that runs again rewrites what it wrote.        *)
LEMMA PartlyMore ==
  ASSUME NEW d, NEW old, NEW output, NEW m \in 0..Len(output), Proper(output),
         Partly(d, old, output, m), NEW j \in 1..Len(output), j <= m + 1
  PROVE  Partly([d EXCEPT ![output[j].file] = output[j].content], old, output, IF j = m + 1 THEN j ELSE m)
<1> DEFINE new == [d EXCEPT ![output[j].file] = output[j].content]
           n == IF j = m + 1 THEN j ELSE m
<1>1. m \in Nat /\ n \in m..Len(output) /\ n \in Nat /\ j <= n /\ n <= m + 1
  BY ProperLength
<1>2. d = [f \in Names |-> d[f]] /\ output[j].file \in Names \ {"checked"}
  BY DEF Partly, Files, Proper
<1>3. new = [f \in Names |-> IF f = output[j].file THEN output[j].content ELSE d[f]]
  BY <1>2
<1> HIDE DEF new
<1>4. Files(new)
  BY <1>3 DEF Files
<1>5. \A i \in 1..n : new[output[i].file] = output[i].content
  <2> TAKE i \in 1..n
  <2>1. i \in 1..Len(output) /\ output[i].file \in Names
    BY <1>1, ProperLength DEF Proper
  <2>2. CASE i = j
    BY <1>3, <2>1, <2>2
  <2>3. CASE i # j
    <3>1. output[i].file # output[j].file
      BY <2>1, <2>3 DEF Proper
    <3>2. i \in 1..m
      BY <1>1, <2>3 DEF n
    <3> QED BY <1>3, <2>1, <3>1, <3>2 DEF Partly
  <2> QED BY <2>2, <2>3
<1>6. \A f \in Names \ {"checked"} : (\A i \in 1..n : output[i].file # f) => new[f] = old[f]
  <2> TAKE f \in Names \ {"checked"}
  <2> HAVE \A i \in 1..n : output[i].file # f
  <2>1. f # output[j].file
    BY <1>1
  <2>2. \A i \in 1..m : output[i].file # f
    BY <1>1
  <2> QED BY <1>3, <2>1, <2>2 DEF Partly
<1> HIDE DEF n
<1>7. Partly(new, old, output, n)
  BY <1>4, <1>5, <1>6 DEF Partly
<1> QED BY <1>7 DEF new, n

(* The validator changes nothing that counts.                              *)
LEMMA PartlyChecked ==
  ASSUME NEW d, NEW old, NEW output, NEW m, NEW x, Proper(output), m \in 0..Len(output),
         Partly(d, old, output, m)
  PROVE  Partly([d EXCEPT !.checked = x], old, output, m)
<1> DEFINE new == [d EXCEPT !.checked = x]
<1>1. d = [f \in Names |-> d[f]]
  BY DEF Partly, Files
<1>2. new = [f \in Names |-> IF f = "checked" THEN x ELSE d[f]]
  BY <1>1 DEF Names
<1> HIDE DEF new
<1>3. \A i \in 1..m : output[i].file \in Names \ {"checked"}
  BY ProperLength DEF Proper
<1>4. Partly(new, old, output, m)
  BY <1>2, <1>3 DEF Partly, Files
<1> QED BY <1>4 DEF new

-----------------------------------------------------------------------------
(* What each script writes is such a list.                                 *)

LEMMA Proper04 ==
  ASSUME NEW battery, NEW demand, NEW rows, NEW candidates, NEW ranking, NEW broadcast
  PROVE  LET output == Tables04(battery, demand, rows, candidates, ranking, broadcast)
         IN  Proper(output) /\ Len(output) = 9
<1> DEFINE output == Tables04(battery, demand, rows, candidates, ranking, broadcast)
<1>1. \E S : output \in Seq(S)
  <2>1. output \in Seq({output[i] : i \in 1..9})
    BY DEF Tables04
  <2> QED BY <2>1
<1>2. Len(output) = 9 /\ output # <<>>
  BY DEF Tables04
<1>3. \A i \in 1..9 : output[i].file \in Names \ {"checked"}
  BY DEF Tables04, File, Names
<1>4. \A i, j \in 1..9 : output[i].file = output[j].file => i = j
  BY DEF Tables04, File
<1> QED BY <1>1, <1>2, <1>3, <1>4 DEF Proper

LEMMA Proper04b ==
  ASSUME NEW d
  PROVE  Proper(Output04b(d)) /\ Len(Output04b(d)) = 2
<1> DEFINE output == Output04b(d)
<1>1. \E S : output \in Seq(S)
  <2>1. output \in Seq({output[i] : i \in 1..2})
    BY DEF Output04b
  <2> QED BY <2>1
<1>2. Len(output) = 2 /\ output # <<>>
  BY DEF Output04b
<1>3. \A i \in 1..2 : output[i].file \in Names \ {"checked"}
  BY DEF Output04b, File, Names
<1>4. \A i, j \in 1..2 : output[i].file = output[j].file => i = j
  BY DEF Output04b, File
<1> QED BY <1>1, <1>2, <1>3, <1>4 DEF Proper

LEMMA Proper05 ==
  ASSUME NEW d, NEW tables, NEW farther, NEW candidates, NEW ranking
  PROVE  LET output == Tables05(d, tables, farther, candidates, ranking)
         IN  Proper(output) /\ Len(output) = 7
<1> DEFINE output == Tables05(d, tables, farther, candidates, ranking)
<1>1. \E S : output \in Seq(S)
  <2>1. output \in Seq({output[i] : i \in 1..7})
    BY DEF Tables05
  <2> QED BY <2>1
<1>2. Len(output) = 7 /\ output # <<>>
  BY DEF Tables05
<1>3. \A i \in 1..7 : output[i].file \in Names \ {"checked"}
  BY DEF Tables05, File, Names
<1>4. \A i, j \in 1..7 : output[i].file = output[j].file => i = j
  BY DEF Tables05, File
<1> QED BY <1>1, <1>2, <1>3, <1>4 DEF Proper

LEMMA Proper05b ==
  ASSUME NEW d, NEW e, NEW key, NEW row, NEW candidates, NEW ranking
  PROVE  LET output == Tables05b(d, e, key, row, candidates, ranking)
         IN  Proper(output) /\ Len(output) = 6
<1> DEFINE output == Tables05b(d, e, key, row, candidates, ranking)
<1>1. \E S : output \in Seq(S)
  <2>1. output \in Seq({output[i] : i \in 1..6})
    BY DEF Tables05b
  <2> QED BY <2>1
<1>2. Len(output) = 6 /\ output # <<>>
  BY DEF Tables05b
<1>3. \A i \in 1..6 : output[i].file \in Names \ {"checked"}
  BY DEF Tables05b, File, Names
<1>4. \A i, j \in 1..6 : output[i].file = output[j].file => i = j
  BY DEF Tables05b, File
<1> QED BY <1>1, <1>2, <1>3, <1>4 DEF Proper

LEMMA Proper05c ==
  ASSUME NEW d
  PROVE  Proper(Output05c(d)) /\ Len(Output05c(d)) = 3
<1> DEFINE output == Output05c(d)
<1>1. \E S : output \in Seq(S)
  <2>1. output \in Seq({output[i] : i \in 1..3})
    BY DEF Output05c
  <2> QED BY <2>1
<1>2. Len(output) = 3 /\ output # <<>>
  BY DEF Output05c
<1>3. \A i \in 1..3 : output[i].file \in Names \ {"checked"}
  BY DEF Output05c, File, Names
<1>4. \A i, j \in 1..3 : output[i].file = output[j].file => i = j
  BY DEF Output05c, File
<1> QED BY <1>1, <1>2, <1>3, <1>4 DEF Proper

LEMMA Proper06 ==
  ASSUME NEW vehicles, NEW battery, NEW demand, NEW tables, NEW candidates, NEW ranking
  PROVE  LET output == Results06(vehicles, battery, demand, tables, candidates, ranking)
         IN  Proper(output) /\ Len(output) = 12
<1> DEFINE output == Results06(vehicles, battery, demand, tables, candidates, ranking)
<1>1. \E S : output \in Seq(S)
  <2>1. output = [i \in 1..12 |-> output[i]]
    BY DEF Results06
  <2> HIDE DEF output
  <2>2. output \in Seq({output[i] : i \in 1..12})
    BY <2>1, 12 \in Nat
  <2> QED BY <2>2
<1>2. Len(output) = 12 /\ output # <<>>
  BY DEF Results06
<1>3. \A i \in 1..12 : output[i].file \in Names \ {"checked"}
  BY DEF Results06, File, Names
<1>4. \A i, j \in 1..12 : output[i].file = output[j].file => i = j
  BY DEF Results06, File
<1> QED BY <1>1, <1>2, <1>3, <1>4 DEF Proper

LEMMA Proper07 ==
  ASSUME NEW d, NEW demand, NEW tables, NEW candidates, NEW ranking
  PROVE  LET output == Results07(d, demand, tables, candidates, ranking)
         IN  Proper(output) /\ Len(output) = 9
<1> DEFINE output == Results07(d, demand, tables, candidates, ranking)
<1>1. \E S : output \in Seq(S)
  <2>1. output \in Seq({output[i] : i \in 1..9})
    BY DEF Results07
  <2> QED BY <2>1
<1>2. Len(output) = 9 /\ output # <<>>
  BY DEF Results07
<1>3. \A i \in 1..9 : output[i].file \in Names \ {"checked"}
  BY DEF Results07, File, Names
<1>4. \A i, j \in 1..9 : output[i].file = output[j].file => i = j
  BY DEF Results07, File
<1> QED BY <1>1, <1>2, <1>3, <1>4 DEF Proper

-----------------------------------------------------------------------------
(* Running again.  04b reads nothing it writes but the scenarios, which it *)
(* writes last.                                                            *)

LEMMA Again04b ==
  ASSUME NEW d, NEW old, NEW m \in 0..1, Partly(d, old, Output04b(old), m)
  PROVE  Output04b(d) = Output04b(old)
<1> DEFINE output == Output04b(old)
<1>1. output[1].file = "events"
  BY DEF Output04b, File
<1>2. \A i \in 1..m : output[i].file = "events"
  BY <1>1
<1> HIDE DEF output
<1>3. /\ d.status = old.status /\ d.queue = old.queue /\ d.candidates = old.candidates
      /\ d.ranking = old.ranking /\ d.scenario = old.scenario
  BY <1>2 DEF Partly, Names, output
<1>4. RowsOf(d) = RowsOf(old)
  BY <1>3 DEF RowsOf
<1>5. Found(d) = Found(old)
  BY <1>3, <1>4 DEF Found
<1> QED BY <1>3, <1>5 DEF Output04b

(* 05 only starts over if it has written nothing.                          *)
LEMMA Again05 ==
  ASSUME NEW w, NEW d, NEW old, NEW m \in 0..6, Partly(d, old, Output05(w, old), m),
         Runs("05", d)
  PROVE  Output05(w, d) = Output05(w, old)
<1> DEFINE output == Output05(w, old)
<1>1. output[1].file = "status" /\ output[1].content.split
  BY DEF Output05, Staged05, Candidates05, Labelled05, Tables05, File
<1>2. m = 0
  <2> HIDE DEF output
  <2> SUFFICES ASSUME m # 0 PROVE FALSE
    OBVIOUS
  <2>1. 1 \in 1..m
    OBVIOUS
  <2>2. d.status.split
    BY <1>1, <2>1 DEF Partly, output
  <2> QED BY <2>2 DEF Runs
<1>3. /\ d.status = old.status /\ d.queue = old.queue /\ d.demand = old.demand
      /\ d.scenario = old.scenario
  BY <1>2 DEF Partly, Names
<1>4. SplitRows(w, d) = SplitRows(w, old)
  BY <1>3 DEF SplitRows
<1>5. SplitQueues(SplitRows(w, old), d) = SplitQueues(SplitRows(w, old), old)
  BY <1>3 DEF SplitQueues
<1>6. Split05(w, d) = Split05(w, old)
  BY <1>4, <1>5 DEF Split05, SplitTables
<1>7. \A tables, farther, candidates, ranking :
        Tables05(d, tables, farther, candidates, ranking) = Tables05(old, tables, farther, candidates, ranking)
  BY <1>3 DEF Tables05
<1> QED BY <1>3, <1>6, <1>7 DEF Output05, Staged05, Candidates05, Labelled05

(* 06 finds the vehicles of before, or its own, which it keeps.            *)
LEMMA Found06 ==
  ASSUME NEW vehicles, NEW battery, NEW demand, NEW tables, NEW candidates, NEW ranking,
         NEW d, NEW old, NEW m \in 0..11, Files(old),
         Partly(d, old, Results06(vehicles, battery, demand, tables, candidates, ranking), m)
  PROVE  /\ d.vehicles = old.vehicles \/ d.vehicles = vehicles
         /\ d.battery = old.battery \/ d.battery = battery
         /\ d.status = old.status /\ d.queue = old.queue
<1> DEFINE output == Results06(vehicles, battery, demand, tables, candidates, ranking)
<1>1. /\ output[2].file = "vehicles" /\ output[2].content = vehicles
      /\ output[4].file = "battery" /\ output[4].content = battery
  BY DEF Results06, File
<1>2. /\ \A i \in 1..12 : output[i].file \notin {"status", "queue"}
      /\ \A i \in 1..12 : output[i].file = "vehicles" => i = 2
      /\ \A i \in 1..12 : output[i].file = "battery" => i = 4
  BY DEF Results06, File
<1>3. Partly(d, old, output, m)
  OBVIOUS
<1> HIDE DEF output
<1>4. d.vehicles = old.vehicles \/ d.vehicles = vehicles
  <2>1. CASE m >= 2
    <3>1. 2 \in 1..m
      BY <2>1
    <3> QED BY <1>1, <1>3, <3>1 DEF Partly
  <2>2. CASE m < 2
    <3>1. \A i \in 1..m : output[i].file # "vehicles"
      BY <1>2, <2>2
    <3> QED BY <1>3, <3>1 DEF Partly, Names
  <2> QED BY <2>1, <2>2
<1>5. d.battery = old.battery \/ d.battery = battery
  <2>1. CASE m >= 4
    <3>1. 4 \in 1..m
      BY <2>1
    <3> QED BY <1>1, <1>3, <3>1 DEF Partly
  <2>2. CASE m < 4
    <3>1. \A i \in 1..m : output[i].file # "battery"
      BY <1>2, <2>2
    <3> QED BY <1>3, <3>1 DEF Partly, Names
  <2> QED BY <2>1, <2>2
<1>6. d.status = old.status /\ d.queue = old.queue
  <2>1. \A i \in 1..m : output[i].file \notin {"status", "queue"}
    BY <1>2
  <2> QED BY <1>3, <2>1 DEF Partly, Names
<1> QED BY <1>4, <1>5, <1>6

LEMMA Again06 ==
  ASSUME NEW d, NEW old, NEW m \in 0..11, Files(old), old.vehicles = OldVehicles,
         Partly(d, old, Output06(old), m)
  PROVE  Output06(d) = Output06(old)
<1> DEFINE patched == [v \in DOMAIN OldVehicles |-> Patched(v)]
           battery == old.battery
           demand == DemandTable06(patched, battery)
           tables == RebuiltTables(old)
           candidates == CandidateTable06(demand, TRUE, tables.status, tables.queue)
           output == Results06(patched, battery, demand, tables, candidates, RankingTable(candidates))
<1>1. Output06(old) = output
  BY DEF Output06, Driven06, Demanded06, Tables06, Labelled06
<1>2. /\ d.vehicles = OldVehicles \/ d.vehicles = patched
      /\ d.battery = old.battery \/ d.battery = battery
      /\ d.status = old.status /\ d.queue = old.queue
  <2> HIDE DEF patched, battery, demand, tables, candidates
  <2> QED BY <1>1, Found06
<1>3. (IF d.vehicles = OldVehicles THEN patched ELSE d.vehicles) = patched
  BY <1>2
<1>5. d.battery = battery
  BY <1>2
<1>6. RebuiltTables(d) = RebuiltTables(old)
  BY <1>2 DEF RebuiltTables, Rebuild
<1>7. Output06(d) = output
  <2> HIDE DEF patched
  <2>1. Output06(d) = Driven06(d, patched)
    BY <1>3 DEF Output06, patched
  <2>2. Driven06(d, patched) = Demanded06(d, patched, battery)
    BY <1>5 DEF Driven06
  <2>3. Demanded06(d, patched, battery) = output
    BY <1>6 DEF Demanded06, Tables06, Labelled06
  <2> QED BY <2>1, <2>2, <2>3
<1> QED BY <1>1, <1>7

(* 07 reads nothing it writes but the scenarios, which it writes last.     *)
LEMMA Again07 ==
  ASSUME NEW d, NEW old, NEW m \in 0..8, Partly(d, old, Output07(old), m)
  PROVE  Output07(d) = Output07(old)
<1> DEFINE output == Output07(old)
<1>1. \A i \in 1..8 : output[i].file \notin {"vehicles", "battery", "normalized", "status", "queue", "scenario"}
  BY DEF Output07, Tables07, Labelled07, Results07, File
<1>2. \A i \in 1..m : output[i].file \notin {"vehicles", "battery", "normalized", "status", "queue", "scenario"}
  BY <1>1
<1> HIDE DEF output
<1>3. /\ d.vehicles = old.vehicles /\ d.battery = old.battery /\ d.normalized = old.normalized
      /\ d.status = old.status /\ d.queue = old.queue /\ d.scenario = old.scenario
  BY <1>2 DEF Partly, Names, output
<1>4. RebuiltTables(d) = RebuiltTables(old)
  BY <1>3 DEF RebuiltTables, Rebuild
<1>5. \A demand, tables, candidates, ranking :
        Results07(d, demand, tables, candidates, ranking) = Results07(old, demand, tables, candidates, ranking)
  BY <1>3 DEF Results07
<1> QED BY <1>3, <1>4, <1>5 DEF Output07, Tables07, Labelled07

-----------------------------------------------------------------------------
(* Sequences of stagings.                                                  *)

LEMMA LeastNumber ==
  ASSUME NEW S \in SUBSET Nat, S # {}
  PROVE  \E n \in S : \A m \in S : n <= m
<1>1. PICK n \in S : \A m \in S : <<m, n>> \notin OpToRel(<, Nat)
  BY WFMin, NatLessThanWellFounded
<1>2. \A m \in S : n \in Nat /\ m \in Nat /\ ~(m < n)
  BY <1>1 DEF OpToRel
<1> QED BY <1>2

(* The equation of the recursive function in Staged04.                     *)
Steps04(after, rows, stagings, n) ==
  after = [i \in 0..n |-> IF i = 0 THEN rows ELSE StagedOnce(after[i - 1], stagings[i])]

LEMMA Steps04Exist ==
  ASSUME NEW rows, NEW stagings, NEW n \in Nat
  PROVE  \E after : Steps04(after, rows, stagings, n)
<1> DEFINE bad == {k \in Nat : ~\E after : Steps04(after, rows, stagings, k)}
<1> SUFFICES ASSUME bad # {} PROVE FALSE
  OBVIOUS
<1>1. PICK k \in bad : \A j \in bad : k <= j
  <2> HIDE DEF bad
  <2>1. bad \subseteq Nat
    BY DEF bad
  <2> QED BY <2>1, LeastNumber
<1>2. k # 0
  <2> DEFINE g == [i \in 0..0 |-> rows]
  <2>1. Steps04(g, rows, stagings, 0)
    BY DEF Steps04
  <2> QED BY <2>1
<1>3. k - 1 \in Nat /\ k - 1 \notin bad
  BY <1>1, <1>2
<1>4. PICK f : Steps04(f, rows, stagings, k - 1)
  BY <1>3
<1> DEFINE g == [i \in 0..k |-> IF i = k THEN StagedOnce(f[k - 1], stagings[k]) ELSE f[i]]
<1>5. \A i \in 0..k - 1 : g[i] = f[i]
  BY <1>3
<1>6. \A i \in 0..k - 1 : f[i] = IF i = 0 THEN rows ELSE StagedOnce(f[i - 1], stagings[i])
  BY <1>4 DEF Steps04
<1>7. g[k] = StagedOnce(g[k - 1], stagings[k])
  BY <1>3, <1>5
<1>8. \A i \in 0..k : g[i] = IF i = 0 THEN rows ELSE StagedOnce(g[i - 1], stagings[i])
  <2> TAKE i \in 0..k
  <2>1. CASE i = k
    BY <1>2, <1>7, <2>1
  <2>2. CASE i = 0
    BY <1>3, <1>5, <1>6, <2>2
  <2>3. CASE i # k /\ i # 0
    <3>1. i \in 0..k - 1 /\ i - 1 \in 0..k - 1
      BY <1>3, <2>3
    <3> HIDE DEF g
    <3> QED BY <1>5, <1>6, <2>3, <3>1
  <2> QED BY <2>1, <2>2, <2>3
<1>9. Steps04(g, rows, stagings, k)
  <2>1. g = [i \in 0..k |-> g[i]]
    OBVIOUS
  <2> HIDE DEF g
  <2> QED BY <1>8, <2>1 DEF Steps04
<1> QED BY <1>1, <1>9

LEMMA Staged04Is ==
  ASSUME NEW rows, NEW stagings, Len(stagings) \in Nat
  PROVE  \E after : /\ Steps04(after, rows, stagings, Len(stagings))
                    /\ Staged04(rows, stagings) = after[Len(stagings)]
<1>1. \E f : Steps04(f, rows, stagings, Len(stagings))
  BY Steps04Exist
<1> DEFINE g == CHOOSE f : f = [i \in 0..Len(stagings) |->
                                  IF i = 0 THEN rows ELSE StagedOnce(f[i - 1], stagings[i])]
<1>2. Steps04(g, rows, stagings, Len(stagings))
  BY <1>1, Zenon DEF Steps04
<1>3. Staged04(rows, stagings) = g[Len(stagings)]
  BY DEF Staged04
<1> QED BY <1>2, <1>3

(* Staging the rows of a table again, some of whose columns are already    *)
(* what the stagings make of them, changes nothing: what a staging says of *)
(* a row is fixed, but for the batteries, which it sets or leaves.         *)
StationShape(r) ==
  r = [status |-> r.status, occupied |-> r.occupied, batteries |-> r.batteries, queue |-> r.queue]

Agree(r, s) == r.status = s.status /\ r.occupied = s.occupied /\ r.queue = s.queue

(* From r and s, of which nothing is known, the same was made.             *)
SameMade(r, s, r1, s1) ==
  /\ StationShape(r1) /\ StationShape(s1) /\ Agree(r1, s1)
  /\ r1.batteries = s1.batteries \/ (r1.batteries = r.batteries /\ s1.batteries = s.batteries)

LEMMA PutSame ==
  ASSUME NEW r, StationShape(r), NEW x, NEW o, NEW q
  PROVE  [r EXCEPT !.status = "OPEN", !.occupied = o, !.queue = q, !.batteries = Restocked(x, @)]
           = [status |-> "OPEN", occupied |-> o, queue |-> q, batteries |-> Restocked(x, r.batteries)]
<1> DEFINE a == r.status
           b == r.occupied
           c == r.batteries
           d == r.queue
           r1 == [r EXCEPT !.status = "OPEN", !.occupied = o, !.queue = q]
           r2 == [r1 EXCEPT !.batteries = Restocked(x, r1.batteries)]
<1>1. r = [status |-> a, occupied |-> b, batteries |-> c, queue |-> d]
  BY DEF StationShape
<1>2. r1 = [r EXCEPT !.status = "OPEN", !.occupied = o, !.queue = q]
  OBVIOUS
<1>3. r2 = [r EXCEPT !.status = "OPEN", !.occupied = o, !.queue = q, !.batteries = Restocked(x, @)]
  OBVIOUS
<1>4. r2 = [r1 EXCEPT !.batteries = Restocked(x, r1.batteries)]
  OBVIOUS
<1> HIDE DEF a, b, c, d, r1, r2
<1>5. r1 = [status |-> "OPEN", occupied |-> o, queue |-> q, batteries |-> c]
  BY <1>1, <1>2
<1>6. r2 = [status |-> "OPEN", occupied |-> o, queue |-> q, batteries |-> Restocked(x, c)]
  BY <1>4, <1>5
<1> QED BY <1>3, <1>6 DEF c

LEMMA QueuedSame ==
  ASSUME NEW r, NEW s, StationShape(r), StationShape(s), NEW x, NEW available, NEW target
  PROVE  /\ SameMade(r, s, Queued(x, r, available, target), Queued(x, s, available, target))
         /\ Queued(x, r, available, target).batteries = r.batteries
         /\ Queued(x, s, available, target).batteries = s.batteries
<1> DEFINE o == Most2(1, Total(x) - Most2(1, Least2(available, Total(x) - 1)))
           q == Ceiling(Q(target * o, GenericTime(x)))
<1>1. /\ Queued(x, r, available, target) = [r EXCEPT !.status = "OPEN", !.occupied = o, !.queue = q]
      /\ Queued(x, s, available, target) = [s EXCEPT !.status = "OPEN", !.occupied = o, !.queue = q]
  BY DEF Queued
<1> HIDE DEF o, q
<1> QED BY <1>1 DEF StationShape, SameMade, Agree

LEMMA OpenedSame ==
  ASSUME NEW r, NEW s, StationShape(r), StationShape(s), NEW x, NEW available, NEW target
  PROVE  SameMade(r, s, Opened(x, r, available, target), Opened(x, s, available, target))
<1> DEFINE free == Most2(1, Least2(available, Total(x)))
           o == Total(x) - free
           open(row) == [row EXCEPT !.status = "OPEN", !.occupied = o, !.queue = 0,
                                    !.batteries = Restocked(x, @)]
<1>1. /\ Opened(x, r, available, target) = IF target > 0 THEN Queued(x, open(r), free, target) ELSE open(r)
      /\ Opened(x, s, available, target) = IF target > 0 THEN Queued(x, open(s), free, target) ELSE open(s)
  BY DEF Opened
<1>2. SameMade(r, s, open(r), open(s))
  <2> HIDE DEF o
  <2>1. /\ open(r) = [status |-> "OPEN", occupied |-> o, queue |-> 0, batteries |-> Restocked(x, r.batteries)]
        /\ open(s) = [status |-> "OPEN", occupied |-> o, queue |-> 0, batteries |-> Restocked(x, s.batteries)]
    BY PutSame
  <2> HIDE DEF open
  <2> QED BY <2>1 DEF StationShape, SameMade, Agree, Restocked
<1>3. SameMade(open(r), open(s), Queued(x, open(r), free, target), Queued(x, open(s), free, target))
      /\ Queued(x, open(r), free, target).batteries = open(r).batteries
      /\ Queued(x, open(s), free, target).batteries = open(s).batteries
  <2> HIDE DEF open, free
  <2> QED BY <1>2, QueuedSame DEF SameMade
<1> HIDE DEF open, free
<1>4. SameMade(r, s, Queued(x, open(r), free, target), Queued(x, open(s), free, target))
  BY <1>2, <1>3 DEF SameMade
<1> QED BY <1>1, <1>2, <1>4

LEMMA BecomeSame ==
  ASSUME NEW r, NEW s, StationShape(r), StationShape(s), NEW p
  PROVE  SameMade(r, s, Become(r, p), Become(s, p))
<1>1. CASE p.to = "OPEN"
  BY <1>1, OpenedSame DEF Become
<1>2. CASE p.to = "FULL"
  <2> DEFINE x == p.station
             full(row) == [row EXCEPT !.status = "OPEN", !.occupied = Total(x), !.queue = 3,
                                      !.batteries = Restocked(x, @)]
  <2>1. Become(r, p) = full(r) /\ Become(s, p) = full(s)
    BY <1>2 DEF Become, Filled
  <2>2. /\ full(r) = [status |-> "OPEN", occupied |-> Total(x), queue |-> 3, batteries |-> Restocked(x, r.batteries)]
        /\ full(s) = [status |-> "OPEN", occupied |-> Total(x), queue |-> 3, batteries |-> Restocked(x, s.batteries)]
    BY PutSame
  <2> HIDE DEF full, x
  <2> QED BY <2>1, <2>2 DEF StationShape, SameMade, Agree, Restocked
<1>3. CASE p.to = "OFFLINE"
  BY <1>3 DEF Become, Offline, StationShape, SameMade, Agree
<1>4. CASE p.to \notin {"OPEN", "FULL", "OFFLINE"}
  <2> DEFINE x == p.station
             q(row) == Queued(x, row, p.available, p.wait)
  <2>1. /\ Become(r, p) = [q(r) EXCEPT !.batteries = Restocked(x, @)]
        /\ Become(s, p) = [q(s) EXCEPT !.batteries = Restocked(x, @)]
    BY <1>4 DEF Become
  <2>2. /\ SameMade(r, s, q(r), q(s))
        /\ q(r).batteries = r.batteries /\ q(s).batteries = s.batteries
    BY QueuedSame
  <2> HIDE DEF q, x
  <2> QED BY <2>1, <2>2 DEF StationShape, SameMade, Agree, Restocked
<1> QED BY <1>1, <1>2, <1>3, <1>4

(* Two runs of the same stagings side by side, from rows and from again:   *)
(* a row nobody has staged yet is as it was, any other says the same.      *)
Shaped(rows) == rows = [k \in DOMAIN rows |-> rows[k]] /\ \A k \in DOMAIN rows : StationShape(rows[k])

Along(rows, again, x, y) ==
  /\ Shaped(x) /\ Shaped(y) /\ DOMAIN x = DOMAIN rows /\ DOMAIN y = DOMAIN rows
  /\ \A k \in DOMAIN rows :
       \/ x[k] = rows[k] /\ y[k] = again[k]
       \/ SameMade(rows[k], again[k], x[k], y[k])

LEMMA AlongOnce ==
  ASSUME NEW rows, NEW again, NEW x, NEW y, NEW p, Along(rows, again, x, y)
  PROVE  Along(rows, again, StagedOnce(x, p), StagedOnce(y, p))
<1> DEFINE key == <<p.station, p.time>>
<1>1. CASE key \notin DOMAIN rows
  BY <1>1 DEF StagedOnce, Along
<1>2. CASE key \in DOMAIN rows
  <2> DEFINE x1 == [x EXCEPT ![key] = Become(x[key], p)]
             y1 == [y EXCEPT ![key] = Become(y[key], p)]
  <2>1. StagedOnce(x, p) = x1 /\ StagedOnce(y, p) = y1
    BY <1>2 DEF StagedOnce, Along
  <2>2. /\ x1 = [k \in DOMAIN rows |-> IF k = key THEN Become(x[key], p) ELSE x[k]]
        /\ y1 = [k \in DOMAIN rows |-> IF k = key THEN Become(y[key], p) ELSE y[k]]
    BY <1>2 DEF Along, Shaped
  <2>3. SameMade(x[key], y[key], Become(x[key], p), Become(y[key], p))
    BY <1>2, BecomeSame DEF Along, Shaped
  <2>4. SameMade(rows[key], again[key], Become(x[key], p), Become(y[key], p))
    BY <1>2, <2>3 DEF Along, SameMade
  <2> HIDE DEF key, x1, y1
  <2>5. /\ DOMAIN x1 = DOMAIN rows /\ DOMAIN y1 = DOMAIN rows
        /\ x1 = [k \in DOMAIN rows |-> x1[k]] /\ y1 = [k \in DOMAIN rows |-> y1[k]]
    BY <2>2
  <2>6. \A k \in DOMAIN rows : /\ StationShape(x1[k]) /\ StationShape(y1[k])
                               /\ \/ x1[k] = rows[k] /\ y1[k] = again[k]
                                  \/ SameMade(rows[k], again[k], x1[k], y1[k])
    <3> TAKE k \in DOMAIN rows
    <3>1. CASE k = key
      BY <2>2, <2>4, <3>1 DEF SameMade
    <3>2. CASE k # key
      BY <2>2, <3>2 DEF Along, Shaped
    <3> QED BY <3>1, <3>2
  <2> QED BY <2>1, <2>5, <2>6 DEF Along, Shaped
<1> QED BY <1>1, <1>2

LEMMA AlongAll ==
  ASSUME NEW rows, NEW again, NEW stagings, NEW n \in Nat, NEW f, NEW g,
         Shaped(rows), Shaped(again), DOMAIN again = DOMAIN rows,
         Steps04(f, rows, stagings, n), Steps04(g, again, stagings, n)
  PROVE  Along(rows, again, f[n], g[n])
<1> DEFINE bad == {i \in 0..n : ~Along(rows, again, f[i], g[i])}
<1> SUFFICES ASSUME bad # {} PROVE FALSE
  OBVIOUS
<1>1. PICK k \in bad : \A j \in bad : k <= j
  <2>1. bad \in SUBSET Nat
    OBVIOUS
  <2> HIDE DEF bad
  <2> QED BY <2>1, LeastNumber
<1>2. /\ \A i \in 0..n : f[i] = IF i = 0 THEN rows ELSE StagedOnce(f[i - 1], stagings[i])
      /\ \A i \in 0..n : g[i] = IF i = 0 THEN again ELSE StagedOnce(g[i - 1], stagings[i])
  BY DEF Steps04
<1>3. k # 0
  <2>1. Along(rows, again, rows, again)
    BY DEF Along
  <2> QED BY <1>2, <2>1
<1>4. k \in 0..n /\ k - 1 \in 0..n /\ k - 1 \notin bad
  BY <1>1, <1>3
<1>5. Along(rows, again, f[k - 1], g[k - 1])
  BY <1>4
<1>6. Along(rows, again, StagedOnce(f[k - 1], stagings[k]), StagedOnce(g[k - 1], stagings[k]))
  BY <1>5, AlongOnce
<1> QED BY <1>1, <1>2, <1>3, <1>4, <1>6

LEMMA StagedAgain ==
  ASSUME NEW rows, NEW again, NEW stagings, Len(stagings) \in Nat,
         Shaped(rows), Shaped(again), DOMAIN again = DOMAIN rows,
         \A k \in DOMAIN rows :
           /\ again[k].status \in {rows[k].status, Staged04(rows, stagings)[k].status}
           /\ again[k].occupied \in {rows[k].occupied, Staged04(rows, stagings)[k].occupied}
           /\ again[k].batteries \in {rows[k].batteries, Staged04(rows, stagings)[k].batteries}
           /\ again[k].queue \in {rows[k].queue, Staged04(rows, stagings)[k].queue}
  PROVE  Staged04(again, stagings) = Staged04(rows, stagings)
<1> DEFINE n == Len(stagings)
           x == Staged04(rows, stagings)
           y == Staged04(again, stagings)
<1>1. PICK f : Steps04(f, rows, stagings, n) /\ x = f[n]
  BY Staged04Is
<1>2. PICK g : Steps04(g, again, stagings, n) /\ y = g[n]
  BY Staged04Is
<1> HIDE DEF n, x, y
<1>3. Along(rows, again, x, y)
  BY <1>1, <1>2, AlongAll DEF n
<1>4. \A k \in DOMAIN rows : x[k] = y[k]
  <2> TAKE k \in DOMAIN rows
  <2>1. StationShape(x[k]) /\ StationShape(y[k]) /\ StationShape(rows[k]) /\ StationShape(again[k])
    BY <1>3 DEF Along, Shaped
  <2>2. CASE x[k] = rows[k] /\ y[k] = again[k]
    <3>1. again[k].status = rows[k].status /\ again[k].occupied = rows[k].occupied
          /\ again[k].batteries = rows[k].batteries /\ again[k].queue = rows[k].queue
      BY <2>2 DEF x
    <3> QED BY <2>1, <2>2, <3>1 DEF StationShape
  <2>3. CASE SameMade(rows[k], again[k], x[k], y[k])
    <3>1. x[k].batteries = y[k].batteries
      BY <2>3 DEF SameMade, x
    <3> QED BY <2>1, <2>3, <3>1 DEF StationShape, SameMade, Agree
  <2> QED BY <1>3, <2>2, <2>3 DEF Along
<1>5. x = y
  BY <1>3, <1>4 DEF Along, Shaped
<1> QED BY <1>5 DEF x, y

LEMMA StagedShape ==
  ASSUME NEW rows, NEW stagings, Len(stagings) \in Nat, Shaped(rows)
  PROVE  Shaped(Staged04(rows, stagings)) /\ DOMAIN Staged04(rows, stagings) = DOMAIN rows
<1>1. PICK f : /\ Steps04(f, rows, stagings, Len(stagings))
               /\ Staged04(rows, stagings) = f[Len(stagings)]
  BY Staged04Is
<1>2. Along(rows, rows, f[Len(stagings)], f[Len(stagings)])
  BY <1>1, AlongAll
<1> QED BY <1>1, <1>2 DEF Along

-----------------------------------------------------------------------------
(* What is staged is a sequence.                                           *)

IsSeq(s) == \E T : s \in Seq(T)

Joined(f, seqs, k) == f = [i \in 1..k |-> IF i = 1 THEN seqs[i] ELSE f[i - 1] \o seqs[i]]

LEMMA FlattenTyped ==
  ASSUME NEW T, NEW n \in Nat, NEW seqs \in [1..n -> Seq(T)]
  PROVE  FlattenSeq(seqs) \in Seq(T)
<1>0. Len(seqs) = n /\ seqs \in Seq(Seq(T)) /\ \A i \in 1..n : seqs[i] \in Seq(T)
  OBVIOUS
<1>1. CASE n = 0
  BY <1>0, <1>1 DEF FlattenSeq
<1>2. CASE n # 0
  <2> DEFINE bad == {k \in 1..n : ~\E f : Joined(f, seqs, k) /\ f[k] \in Seq(T)}
  <2>1. bad = {}
    <3> SUFFICES ASSUME bad # {} PROVE FALSE
      OBVIOUS
    <3>1. PICK k \in bad : \A j \in bad : k <= j
      <4>1. bad \in SUBSET Nat
        OBVIOUS
      <4> HIDE DEF bad
      <4> QED BY <4>1, LeastNumber
    <3>2. k # 1
      <4> DEFINE f == [i \in 1..1 |-> seqs[i]]
      <4>1. Joined(f, seqs, 1) /\ f[1] = seqs[1]
        BY DEF Joined
      <4>2. f[1] \in Seq(T)
        BY <1>0, <1>2, <4>1
      <4> QED BY <4>1, <4>2
    <3>3. k - 1 \in 1..n /\ k - 1 \notin bad /\ k \in 1..n
      <4>1. k \in 1..n
        BY <3>1
      <4>2. k - 1 \in 1..n /\ ~(k <= k - 1)
        BY <3>2, <4>1
      <4> HIDE DEF bad
      <4> QED BY <3>1, <4>1, <4>2
    <3>4. PICK f : Joined(f, seqs, k - 1) /\ f[k - 1] \in Seq(T)
      BY <3>3
    <3> DEFINE g == [i \in 1..k |-> IF i = k THEN f[k - 1] \o seqs[k] ELSE f[i]]
    <3>5. \A i \in 1..k - 1 : g[i] = f[i]
      BY <3>3
    <3>6. \A i \in 1..k - 1 : f[i] = IF i = 1 THEN seqs[i] ELSE f[i - 1] \o seqs[i]
      BY <3>4 DEF Joined
    <3>7. g[k] = f[k - 1] \o seqs[k] /\ g = [i \in 1..k |-> g[i]]
      BY <3>3
    <3> HIDE DEF g
    <3>8. \A i \in 1..k : g[i] = IF i = 1 THEN seqs[i] ELSE g[i - 1] \o seqs[i]
      <4> TAKE i \in 1..k
      <4>1. CASE i = k
        <5>1. g[k - 1] = f[k - 1] /\ k \in Nat
          BY <3>3, <3>5
        <5> QED BY <3>2, <3>7, <4>1, <5>1
      <4>2. CASE i # k
        <5>1. i \in 1..k - 1 /\ (i # 1 => i - 1 \in 1..k - 1)
          BY <3>3, <4>2
        <5> QED BY <3>5, <3>6, <5>1
      <4> QED BY <4>1, <4>2
    <3>9. Joined(g, seqs, k)
      BY <3>7, <3>8 DEF Joined
    <3>10. g[k] \in Seq(T)
      <4>1. f[k - 1] \in Seq(T) /\ seqs[k] \in Seq(T)
        BY <1>0, <3>3, <3>4
      <4> QED BY <3>7, <4>1
    <3> QED BY <3>1, <3>9, <3>10
  <2>2. PICK f : Joined(f, seqs, n) /\ f[n] \in Seq(T)
    <3>1. n \in 1..n /\ n \notin bad
      <4> HIDE DEF bad
      <4> QED BY <1>2, <2>1
    <3> QED BY <3>1
  <2> DEFINE h == CHOOSE f1 : f1 = [i \in 1..Len(seqs) |-> IF i = 1 THEN seqs[i] ELSE f1[i - 1] \o seqs[i]]
  <2>3. FlattenSeq(seqs) = h[n]
    BY <1>0, <1>2 DEF FlattenSeq
  <2>4. h = [i \in 1..n |-> IF i = 1 THEN seqs[i] ELSE h[i - 1] \o seqs[i]]
    BY <1>0, <2>2, Zenon DEF Joined
  <2> HIDE DEF h
  <2>5. \A i \in 1..n : h[i] = f[i]
    <3> DEFINE wrong == {i \in 1..n : h[i] # f[i]}
    <3> SUFFICES ASSUME wrong # {} PROVE FALSE
      OBVIOUS
    <3>1. PICK k \in wrong : \A j \in wrong : k <= j
      <4>1. wrong \in SUBSET Nat
        OBVIOUS
      <4> HIDE DEF wrong
      <4> QED BY <4>1, LeastNumber
    <3>2. /\ h[k] = IF k = 1 THEN seqs[k] ELSE h[k - 1] \o seqs[k]
          /\ f[k] = IF k = 1 THEN seqs[k] ELSE f[k - 1] \o seqs[k]
      BY <2>2, <2>4, <3>1 DEF Joined
    <3>3. k # 1 => k - 1 \in 1..n /\ k - 1 \notin wrong
      BY <3>1
    <3>4. k # 1 => h[k - 1] = f[k - 1]
      BY <3>3
    <3> QED BY <3>1, <3>2, <3>4
  <2> QED BY <1>2, <2>2, <2>3, <2>5
<1> QED BY <1>1, <1>2

(* Its elements are those of the sequences.                                *)
LEMMA FlattenElements ==
  ASSUME NEW S, NEW n \in Nat, NEW seqs \in [1..n -> S], \A s \in S : IsSeq(s)
  PROVE  FlattenSeq(seqs) \in Seq(UNION {{s[j] : j \in 1..Len(s)} : s \in S})
<1> DEFINE T == UNION {{s[j] : j \in 1..Len(s)} : s \in S}
<1>1. \A s \in S : s \in Seq(T)
  <2> TAKE s \in S
  <2>1. PICK A : s \in Seq(A)
    BY DEF IsSeq
  <2>2. \A j \in 1..Len(s) : s[j] \in T
    OBVIOUS
  <2> HIDE DEF T
  <2> QED BY <2>1, <2>2
<1> HIDE DEF T
<1>2. seqs \in [1..n -> Seq(T)]
  BY <1>1
<1>3. FlattenSeq(seqs) \in Seq(T)
  BY <1>2, FlattenTyped
<1> QED BY <1>3 DEF T

LEMMA FlattenIsSeq ==
  ASSUME NEW S, NEW n \in Nat, NEW seqs \in [1..n -> S], \A s \in S : IsSeq(s)
  PROVE  IsSeq(FlattenSeq(seqs))
BY FlattenElements DEF IsSeq

LEMMA SortedSize ==
  ASSUME NEW trips, trips \subseteq Trips
  PROVE  /\ Cardinality(trips) \in Nat
         /\ DOMAIN TripsInOrder(trips) = 1..Cardinality(trips)
<1>1. IsFiniteSet(trips)
  BY TripsAssumption, FS_Subset
<1> QED BY <1>1, FS_CardinalityType DEF TripsInOrder, Sorted

(* What a staging asks for is a number.                                    *)
Plain(s) == \E T : s \in Seq(T) /\ \A p \in T : p.available \in Nat /\ p.wait \in Nat

LEMMA PlainIs ==
  ASSUME NEW s, NEW T, s \in Seq(T), \A p \in T : p.available \in Nat /\ p.wait \in Nat
  PROVE  Plain(s)
BY DEF Plain

LEMMA SceneIsPlain ==
  ASSUME NEW scenario, NEW e, NEW time, NEW S, S \subseteq Stations
  PROVE  Plain(Scene(scenario, e, InOrder(e, S), time))
<1> DEFINE near == InOrder(e, S)
           n == Cardinality(S)
<1>1. n \in Nat
  BY SiteAssumption, FS_Subset, FS_CardinalityType
<1>2. DOMAIN near = 1..n
  BY DEF InOrder, Sorted
<1> HIDE DEF near, n
<1>0. Plain(<<>>)
  <2> DEFINE T == {}
  <2>1. <<>> \in Seq(T) /\ \A p \in T : p.available \in Nat /\ p.wait \in Nat
    OBVIOUS
  <2> HIDE DEF T
  <2> QED BY <2>1 DEF Plain
<1>3. \A x : x.available \in Nat /\ x.wait \in Nat => Plain(<<x>>)
  <2> TAKE x
  <2> HAVE x.available \in Nat /\ x.wait \in Nat
  <2> DEFINE T == {x}
  <2>1. <<x>> \in Seq(T) /\ \A p \in T : p.available \in Nat /\ p.wait \in Nat
    OBVIOUS
  <2> HIDE DEF T
  <2> QED BY <2>1 DEF Plain
<1>4. ASSUME NEW x, NEW y, x.available \in Nat, x.wait \in Nat, y.available \in Nat, y.wait \in Nat
      PROVE  Plain(<<x, y>>)
  <2> DEFINE T == {x, y}
  <2>1. <<x, y>> \in Seq(T) /\ \A p \in T : p.available \in Nat /\ p.wait \in Nat
    BY <1>4
  <2> HIDE DEF T
  <2> QED BY <2>1, PlainIs
<1>9. /\ \A to, st, t : Turn(to, st, t).available \in Nat /\ Turn(to, st, t).wait \in Nat
      /\ \A st, t : \A a, w \in Nat : Open(st, t, a, w).available \in Nat /\ Open(st, t, a, w).wait \in Nat
  BY DEF Turn, Open
<1>5. \A differ : \A available, wait \in Nat : Plain(OpenBoth(near, differ, available, wait, time))
  <2> TAKE differ
  <2> TAKE available, wait \in Nat
  <2> DEFINE p == Least(differ)
             x == Open(near[p[1]], time, available, wait)
             y == Open(near[p[2]], time, available, 0)
  <2>1. OpenBoth(near, differ, available, wait, time) = IF DOMAIN differ = {} THEN <<>> ELSE <<x, y>>
    BY DEF OpenBoth
  <2>2. x.available \in Nat /\ x.wait \in Nat /\ y.available \in Nat /\ y.wait \in Nat
    BY DEF Open
  <2> HIDE DEF x, y
  <2> QED BY <1>0, <1>4, <2>1, <2>2
<1>6. Plain([i \in DOMAIN near |-> Turn(IF i % 2 = 1 THEN "OFFLINE" ELSE "FULL", near[i], time)])
  <2> DEFINE all == [i \in 1..n |-> Turn(IF i % 2 = 1 THEN "OFFLINE" ELSE "FULL", near[i], time)]
  <2>1. all = [i \in 1..n |-> all[i]]
    OBVIOUS
  <2>3. \A i \in 1..n : all[i].available \in Nat /\ all[i].wait \in Nat
    BY DEF Turn
  <2> HIDE DEF all
  <2> DEFINE T == {all[i] : i \in 1..n}
  <2>2. all \in Seq(T) /\ \A p \in T : p.available \in Nat /\ p.wait \in Nat
    BY <1>1, <2>1, <2>3
  <2> HIDE DEF T
  <2>4. Plain(all)
    BY <2>2 DEF Plain
  <2> QED BY <1>2, <2>4 DEF all
<1>7. Plain(Scene(scenario, e, near, time))
  <2> USE DEF Scene
  <2>1. CASE near = <<>>
    BY <1>0, <2>1
  <2>2. CASE near # <<>> /\ scenario \in {"NEAREST_FULL", "STATION_OFFLINE", "LONG_QUEUE"}
    BY <1>3, <1>9, <2>2
  <2>3. CASE near # <<>> /\ scenario \in {"FARTHER_BUT_FASTER", "NEAR_TIE_STATIONS"}
    BY <1>5, <2>3
  <2>4. CASE near # <<>> /\ scenario = "NO_AVAILABLE_STATION"
    BY <1>6, <2>4
  <2>5. CASE near # <<>> /\ scenario \in {"QUEUE_REALTIME_CHANGE", "STATION_STATUS_CHANGE"}
    BY <1>4, <1>9, <2>5
  <2>6. CASE near # <<>> /\ scenario \notin {"NEAREST_FULL", "STATION_OFFLINE", "LONG_QUEUE", "FARTHER_BUT_FASTER",
                     "NEAR_TIE_STATIONS", "NO_AVAILABLE_STATION", "QUEUE_REALTIME_CHANGE", "STATION_STATUS_CHANGE"}
    BY <1>0, <2>6
  <2> QED BY <2>1, <2>2, <2>3, <2>4, <2>5, <2>6
<1> QED BY <1>7 DEF near

LEMMA StagingsPlain ==
  ASSUME NEW demand
  PROVE  Plain(Stagings(demand)) /\ Len(Stagings(demand)) \in Nat
<1> DEFINE trips == TripsInOrder(Trips)
           n == Cardinality(Trips)
           scene(t, e) == Scene(Trip[t].scenario, e, InOrder(e, Reachable(demand, e)), SnapshotOf(e).time)
           seqs == [i \in 1..n |-> scene(trips[i], Representative(demand, trips[i]))]
<1>1. n \in Nat /\ DOMAIN trips = 1..n
  BY SortedSize
<1>2. Stagings(demand) = FlattenSeq(seqs)
  BY <1>1 DEF Stagings
<1>3. \A t, e : Plain(scene(t, e))
  BY SceneIsPlain DEF Reachable
<1>4. seqs \in [1..n -> {seqs[i] : i \in 1..n}] /\ \A i \in 1..n : Plain(seqs[i])
  BY <1>3
<1> HIDE DEF seqs, n
<1>5. Plain(FlattenSeq(seqs))
  <2> DEFINE S == {seqs[i] : i \in 1..n}
             T == UNION {{s[j] : j \in 1..Len(s)} : s \in S}
  <2>1. seqs \in [1..n -> S] /\ \A s \in S : Plain(s)
    BY <1>4
  <2> HIDE DEF S
  <2>2. \A s \in S : IsSeq(s) /\ \A j \in 1..Len(s) : s[j].available \in Nat /\ s[j].wait \in Nat
    BY <2>1 DEF Plain, IsSeq
  <2>3. \A p \in T : p.available \in Nat /\ p.wait \in Nat
    BY <2>2
  <2>4. FlattenSeq(seqs) \in Seq(T)
    BY <1>1, <2>1, <2>2, FlattenElements
  <2> HIDE DEF T
  <2> QED BY <2>3, <2>4 DEF Plain
<1> QED BY <1>2, <1>5 DEF Plain

-----------------------------------------------------------------------------
(* 04 finds its rows, or some columns of them, or none.                    *)

LEMMA Found04 ==
  ASSUME NEW battery, NEW demand, NEW rows, NEW candidates, NEW ranking, NEW broadcast,
         NEW d, NEW old, NEW m \in Nat, m <= Len(Tables04(battery, demand, rows, candidates, ranking, broadcast)),
         Partly(d, old, Tables04(battery, demand, rows, candidates, ranking, broadcast), m)
  PROVE  /\ d.vehicles = old.vehicles
         /\ d.battery = old.battery \/ d.battery = battery
         /\ d.status = old.status \/ d.status = [split |-> FALSE, rows |-> rows]
         /\ d.queue = old.queue
            \/ d.queue = [split |-> FALSE, rows |-> [k \in DOMAIN rows |-> rows[k].queue]]
<1> DEFINE output == Tables04(battery, demand, rows, candidates, ranking, broadcast)
           lengths == [k \in DOMAIN rows |-> rows[k].queue]
           all == 1..9
<1>1. /\ output[1].file = "battery" /\ output[1].content = battery
      /\ output[4].file = "status" /\ output[4].content = [split |-> FALSE, rows |-> rows]
      /\ output[5].file = "queue" /\ output[5].content = [split |-> FALSE, rows |-> lengths]
  BY DEF Tables04, File
<1>2. /\ \A i \in all : output[i].file # "vehicles"
      /\ \A i \in all : output[i].file = "battery" => i = 1
      /\ \A i \in all : output[i].file = "status" => i = 4
      /\ \A i \in all : output[i].file = "queue" => i = 5
  BY DEF Tables04, File
<1>3. Partly(d, old, output, m)
  OBVIOUS
<1>4. 1..m \subseteq all
  <2>1. Len(output) = 9
    BY DEF Tables04
  <2> HIDE DEF output
  <2> QED BY <2>1 DEF output
<1> HIDE DEF output, lengths, all
<1>5. d.vehicles = old.vehicles
  <2>1. \A i \in 1..m : output[i].file # "vehicles"
    BY <1>2, <1>4
  <2> QED BY <1>3, <2>1 DEF Partly, Names
<1>6. d.battery = old.battery \/ d.battery = battery
  <2>1. CASE m >= 1
    <3>1. 1 \in 1..m
      BY <2>1
    <3> QED BY <1>1, <1>3, <3>1 DEF Partly
  <2>2. CASE m < 1
    <3>1. \A i \in 1..m : output[i].file # "battery"
      BY <2>2
    <3> QED BY <1>3, <3>1 DEF Partly, Names
  <2> QED BY <2>1, <2>2
<1>7. d.status = old.status \/ d.status = [split |-> FALSE, rows |-> rows]
  <2>1. CASE m >= 4
    <3>1. 4 \in 1..m
      BY <2>1
    <3> QED BY <1>1, <1>3, <3>1 DEF Partly
  <2>2. CASE m < 4
    <3>1. \A i \in 1..m : output[i].file # "status"
      BY <1>2, <1>4, <2>2
    <3> QED BY <1>3, <3>1 DEF Partly, Names
  <2> QED BY <2>1, <2>2
<1>8. d.queue = old.queue \/ d.queue = [split |-> FALSE, rows |-> lengths]
  <2>1. CASE m >= 5
    <3>1. 5 \in 1..m
      BY <2>1
    <3> QED BY <1>1, <1>3, <3>1 DEF Partly
  <2>2. CASE m < 5
    <3>1. \A i \in 1..m : output[i].file # "queue"
      BY <1>2, <1>4, <2>2
    <3> QED BY <1>3, <3>1 DEF Partly, Names
  <2> QED BY <2>1, <2>2
<1> QED BY <1>5, <1>6, <1>7, <1>8 DEF lengths

(* The rows of a world.                                                    *)
LEMMA WorldRows ==
  ASSUME NEW w \in Worlds
  PROVE  Shaped(w.rows) /\ RowsOf(Original(w)) = w.rows
<1>1. w.rows \in [DOMAIN w.rows -> StationRow]
  BY WorldsAssumption
<1>2. \A k \in DOMAIN w.rows : StationShape(w.rows[k])
  BY <1>1 DEF StationShape, StationRow
<1>3. /\ Original(w).status.rows = w.rows
      /\ Original(w).queue.rows = [k \in DOMAIN w.rows |-> w.rows[k].queue]
  BY DEF Original
<1>4. RowsOf(Original(w)) = [k \in DOMAIN w.rows |-> [w.rows[k] EXCEPT !.queue = w.rows[k].queue]]
  BY <1>3 DEF RowsOf
<1>5. \A r : StationShape(r) => [r EXCEPT !.queue = r.queue] = r
  BY DEF StationShape
<1>6. \A k \in DOMAIN w.rows : [w.rows[k] EXCEPT !.queue = w.rows[k].queue] = w.rows[k]
  BY <1>2, <1>5
<1> QED BY <1>1, <1>2, <1>4, <1>6 DEF Shaped

LEMMA Again04 ==
  ASSUME NEW w \in Worlds, NEW d, NEW m \in 0..8,
         Partly(d, Original(w), Output04(w, Original(w)), m)
  PROVE  Output04(w, d) = Output04(w, Original(w))
<1> DEFINE old == Original(w)
           battery == Battery04(OldVehicles, OldBattery)
           demand == Demand04(OldVehicles, battery)
           stagings == Stagings(demand)
           rows == Staged04(w.rows, stagings)
           candidates == CandidateTable04(demand, rows)
           ranking == RankingTable04(demand, candidates)
           broadcast == Broadcast04(w, rows, stagings)
<1>1. /\ old.vehicles = OldVehicles /\ old.battery = OldBattery
      /\ old.status = [split |-> FALSE, rows |-> w.rows]
      /\ old.queue = [split |-> FALSE, rows |-> [k \in DOMAIN w.rows |-> w.rows[k].queue]]
  BY DEF Original
<1>2. Shaped(w.rows) /\ RowsOf(old) = w.rows
  BY WorldRows
<1>3. Len(stagings) \in Nat
  BY StagingsPlain
<1>4. Shaped(rows) /\ DOMAIN rows = DOMAIN w.rows
  BY <1>2, <1>3, StagedShape
<1>5. \A x : x.vehicles = OldVehicles /\ Battery04(OldVehicles, x.battery) = battery
               => Output04(w, x) = Scripted04(w, x, battery, demand, stagings)
  BY DEF Output04, Driven04, Demanded04
<1>6. \A x : Staged04(RowsOf(x), stagings) = rows
               => Scripted04(w, x, battery, demand, stagings)
                    = Tables04(battery, demand, rows, candidates, ranking, broadcast)
  BY DEF Scripted04, Labelled04, Ranked04
<1> HIDE DEF old, demand, stagings, rows, candidates, ranking, broadcast
<1>7. Output04(w, old) = Tables04(battery, demand, rows, candidates, ranking, broadcast)
  BY <1>1, <1>2, <1>5, <1>6 DEF rows
<1>8. /\ d.vehicles = OldVehicles
      /\ d.battery = OldBattery \/ d.battery = battery
      /\ d.status = old.status \/ d.status = [split |-> FALSE, rows |-> rows]
      /\ d.queue = old.queue
         \/ d.queue = [split |-> FALSE, rows |-> [k \in DOMAIN rows |-> rows[k].queue]]
  <2> HIDE DEF battery
  <2>1. Partly(d, old, Tables04(battery, demand, rows, candidates, ranking, broadcast), m)
    BY <1>7 DEF old
  <2>2. /\ d.vehicles = old.vehicles
        /\ d.battery = old.battery \/ d.battery = battery
        /\ d.status = old.status \/ d.status = [split |-> FALSE, rows |-> rows]
        /\ d.queue = old.queue
            \/ d.queue = [split |-> FALSE, rows |-> [k \in DOMAIN rows |-> rows[k].queue]]
    <3>1. m \in Nat /\ m <= Len(Tables04(battery, demand, rows, candidates, ranking, broadcast))
      BY DEF Tables04
    <3> QED BY <2>1, <3>1, Found04
  <2> QED BY <1>1, <2>2
<1>9. Battery04(OldVehicles, d.battery) = battery
  BY <1>8 DEF Battery04
<1> HIDE DEF battery
<1>10. Staged04(RowsOf(d), stagings) = rows
  <2> DEFINE again == RowsOf(d)
  <2>1. /\ d.status.rows = w.rows \/ d.status.rows = rows
        /\ \/ \A k \in DOMAIN w.rows : d.queue.rows[k] = w.rows[k].queue
           \/ \A k \in DOMAIN w.rows : d.queue.rows[k] = rows[k].queue
    BY <1>1, <1>4, <1>8
  <2>2. again = [k \in DOMAIN w.rows |-> [d.status.rows[k] EXCEPT !.queue = d.queue.rows[k]]]
    BY <1>4, <2>1 DEF RowsOf
  <2> HIDE DEF again
  <2>3. \A k \in DOMAIN w.rows : StationShape(d.status.rows[k])
    BY <1>2, <1>4, <2>1 DEF Shaped
  <2>4. \A r, q : StationShape(r) => [r EXCEPT !.queue = q] = [status |-> r.status, occupied |-> r.occupied,
                                                             batteries |-> r.batteries, queue |-> q]
    BY DEF StationShape
  <2>5. \A k \in DOMAIN w.rows :
          /\ StationShape(again[k])
          /\ again[k].status = d.status.rows[k].status /\ again[k].occupied = d.status.rows[k].occupied
          /\ again[k].batteries = d.status.rows[k].batteries /\ again[k].queue = d.queue.rows[k]
    BY <2>2, <2>3, <2>4 DEF StationShape
  <2>6. Shaped(again) /\ DOMAIN again = DOMAIN w.rows
    BY <2>2, <2>5 DEF Shaped
  <2>7. \A k \in DOMAIN w.rows :
           /\ again[k].status \in {w.rows[k].status, rows[k].status}
           /\ again[k].occupied \in {w.rows[k].occupied, rows[k].occupied}
           /\ again[k].batteries \in {w.rows[k].batteries, rows[k].batteries}
           /\ again[k].queue \in {w.rows[k].queue, rows[k].queue}
    BY <2>1, <2>5
  <2>8. Staged04(again, stagings) = rows
    BY <1>2, <1>3, <2>6, <2>7, StagedAgain DEF rows
  <2> QED BY <2>8 DEF again
<1> QED BY <1>5, <1>6, <1>7, <1>8, <1>9, <1>10 DEF old

-----------------------------------------------------------------------------
(* Rankings and candidate tables, and what the two patches make of them.   *)

RankShape(r) ==
  r = [cost |-> r.cost, rank |-> r.rank, wait |-> r.wait, capacity |-> r.capacity, ltr |-> r.ltr]

RankShaped(ranking) ==
  ranking = [k \in DOMAIN ranking |-> ranking[k]] /\ \A k \in DOMAIN ranking : RankShape(ranking[k])

Costs(ranking) == [k \in DOMAIN ranking |-> ranking[k].cost]

LEMMA RankedOnce ==
  ASSUME NEW r, RankShape(r), NEW x
  PROVE  [r EXCEPT !.rank = x]
           = [cost |-> r.cost, rank |-> x, wait |-> r.wait, capacity |-> r.capacity, ltr |-> r.ltr]
BY DEF RankShape

LEMMA RerankedIs ==
  ASSUME NEW ranking, NEW events, RankShaped(ranking)
  PROVE  LET new == Reranked(ranking, events)
         IN  /\ RankShaped(new) /\ DOMAIN new = DOMAIN ranking /\ Costs(new) = Costs(ranking)
             /\ \A k \in DOMAIN ranking :
                  new[k] = IF k[1] \in events
                           THEN [cost |-> ranking[k].cost, rank |-> Ranked(Costs(ranking))[k].rank,
                                 wait |-> ranking[k].wait, capacity |-> ranking[k].capacity,
                                 ltr |-> ranking[k].ltr]
                           ELSE ranking[k]
<1> DEFINE new == Reranked(ranking, events)
           order == Ranked(Costs(ranking))
           put(k) == [cost |-> ranking[k].cost, rank |-> order[k].rank, wait |-> ranking[k].wait,
                      capacity |-> ranking[k].capacity, ltr |-> ranking[k].ltr]
<1>1. new = [k \in DOMAIN ranking |->
               IF k[1] \in events THEN [ranking[k] EXCEPT !.rank = order[k].rank] ELSE ranking[k]]
  BY DEF Reranked, Costs
<1> HIDE DEF new, order
<1>2. \A k \in DOMAIN ranking : RankShape(ranking[k])
  BY DEF RankShaped
<1>3. \A k \in DOMAIN ranking : [ranking[k] EXCEPT !.rank = order[k].rank] = put(k)
  BY <1>2, RankedOnce
<1>4. new = [k \in DOMAIN ranking |-> IF k[1] \in events THEN put(k) ELSE ranking[k]]
  BY <1>1, <1>3
<1>5. \A k \in DOMAIN ranking : RankShape(new[k]) /\ new[k].cost = ranking[k].cost
  BY <1>2, <1>4 DEF RankShape
<1>6. DOMAIN new = DOMAIN ranking /\ new = [k \in DOMAIN new |-> new[k]]
  BY <1>4
<1>7. Costs(new) = Costs(ranking)
  BY <1>5, <1>6 DEF Costs
<1> QED BY <1>4, <1>5, <1>6, <1>7 DEF RankShaped, new, order

(* Ranking what is ranked changes nothing.                                 *)
LEMMA RerankedAgain ==
  ASSUME NEW ranking, NEW events, RankShaped(ranking)
  PROVE  Reranked(Reranked(ranking, events), events) = Reranked(ranking, events)
<1> DEFINE new == Reranked(ranking, events)
           again == Reranked(new, events)
           order == Ranked(Costs(ranking))
<1>1. /\ RankShaped(new) /\ DOMAIN new = DOMAIN ranking /\ Costs(new) = Costs(ranking)
      /\ \A k \in DOMAIN ranking : k[1] \in events =>
           new[k] = [cost |-> ranking[k].cost, rank |-> order[k].rank, wait |-> ranking[k].wait,
                     capacity |-> ranking[k].capacity, ltr |-> ranking[k].ltr]
  BY RerankedIs
<1> HIDE DEF new
<1>2. /\ RankShaped(again) /\ DOMAIN again = DOMAIN new
      /\ \A k \in DOMAIN new :
           again[k] = IF k[1] \in events
                      THEN [cost |-> new[k].cost, rank |-> Ranked(Costs(new))[k].rank,
                            wait |-> new[k].wait, capacity |-> new[k].capacity, ltr |-> new[k].ltr]
                      ELSE new[k]
  BY <1>1, RerankedIs
<1> HIDE DEF again, order
<1>3. \A k \in DOMAIN ranking : again[k] = new[k]
  BY <1>1, <1>2 DEF order
<1>4. again = new
  BY <1>1, <1>2, <1>3 DEF RankShaped
<1> QED BY <1>4 DEF new, again

(* A ranking of candidates is in order already.                            *)
LEMMA TableIsRanked ==
  ASSUME NEW candidates, NEW events
  PROVE  /\ RankShaped(RankingTable(candidates))
         /\ Reranked(RankingTable(candidates), events) = RankingTable(candidates)
<1> DEFINE keys == {k \in UNION {Group(candidates, e) : e \in Listed(candidates)} : Complete(k[1], k[2])}
           cost == [k \in keys |-> CostOf(k[1], k[2], k[3], candidates[k].state.capacity, candidates[k].state.wait)]
           table == RankingTable(candidates)
<1>1. table = RankingRows(candidates, Ranked(cost))
  BY DEF RankingTable
<1> HIDE DEF keys, cost, table
<1>2. /\ DOMAIN Ranked(cost) = DOMAIN cost
      /\ \A k \in DOMAIN cost : Ranked(cost)[k].cost = cost[k]
  BY DEF Ranked
<1>3. table = [k \in DOMAIN cost |->
                 [cost |-> cost[k], rank |-> Ranked(cost)[k].rank,
                  wait |-> candidates[k].state.wait, capacity |-> candidates[k].state.capacity,
                  ltr |-> Cardinality(Eligible(candidates, k[1])) >= 2]]
  BY <1>1, <1>2 DEF RankingRows
<1>4. RankShaped(table)
  BY <1>3 DEF RankShaped, RankShape
<1>5. cost = [k \in DOMAIN cost |-> cost[k]]
  BY DEF cost
<1>6. Costs(table) = cost /\ DOMAIN table = DOMAIN cost
  BY <1>3, <1>5 DEF Costs
<1> DEFINE new == Reranked(table, events)
<1>7. /\ RankShaped(new) /\ DOMAIN new = DOMAIN table
      /\ \A k \in DOMAIN table :
           new[k] = IF k[1] \in events
                    THEN [cost |-> table[k].cost, rank |-> Ranked(Costs(table))[k].rank,
                          wait |-> table[k].wait, capacity |-> table[k].capacity, ltr |-> table[k].ltr]
                    ELSE table[k]
  BY <1>4, RerankedIs
<1> HIDE DEF new
<1>8. \A k \in DOMAIN table : new[k] = table[k]
  BY <1>3, <1>6, <1>7
<1>9. new = table
  BY <1>4, <1>7, <1>8 DEF RankShaped
<1> QED BY <1>4, <1>9 DEF new, table

(* Another price for one row.                                              *)
LEMMA RepricedIs ==
  ASSUME NEW ranking, RankShaped(ranking), NEW k, NEW wait, NEW capacity
  PROVE  LET new == Repriced(ranking, k, wait, capacity)
         IN  /\ RankShaped(new) /\ DOMAIN new = DOMAIN ranking
             /\ \A j \in DOMAIN ranking :
                  new[j] = IF j = k
                           THEN [cost |-> CostOf(k[1], k[2], k[3], capacity, wait), rank |-> ranking[k].rank,
                                 wait |-> wait, capacity |-> capacity, ltr |-> ranking[k].ltr]
                           ELSE ranking[j]
<1> DEFINE cost == CostOf(k[1], k[2], k[3], capacity, wait)
           one == [ranking EXCEPT ![k].wait = wait]
           two == [one EXCEPT ![k].capacity = capacity]
           new == [two EXCEPT ![k].cost = cost]
<1>1. Repriced(ranking, k, wait, capacity) = new
  BY DEF Repriced
<1>2. one = [j \in DOMAIN ranking |-> IF j = k THEN [ranking[j] EXCEPT !.wait = wait] ELSE ranking[j]]
  BY DEF RankShaped
<1>3. two = [j \in DOMAIN one |-> IF j = k THEN [one[j] EXCEPT !.capacity = capacity] ELSE one[j]]
  OBVIOUS
<1>4. new = [j \in DOMAIN two |-> IF j = k THEN [two[j] EXCEPT !.cost = cost] ELSE two[j]]
  OBVIOUS
<1> HIDE DEF cost, one, two, new
<1>5. \A r : RankShape(r) =>
        /\ [r EXCEPT !.wait = wait] = [cost |-> r.cost, rank |-> r.rank, wait |-> wait,
                                       capacity |-> r.capacity, ltr |-> r.ltr]
        /\ [r EXCEPT !.capacity = capacity] = [cost |-> r.cost, rank |-> r.rank, wait |-> r.wait,
                                               capacity |-> capacity, ltr |-> r.ltr]
        /\ [r EXCEPT !.cost = cost] = [cost |-> cost, rank |-> r.rank, wait |-> r.wait,
                                       capacity |-> r.capacity, ltr |-> r.ltr]
  BY DEF RankShape
<1>6. \A j \in DOMAIN ranking : RankShape(ranking[j])
  BY DEF RankShaped
<1>7. /\ DOMAIN one = DOMAIN ranking
      /\ \A j \in DOMAIN ranking :
           one[j] = IF j = k THEN [cost |-> ranking[k].cost, rank |-> ranking[k].rank, wait |-> wait,
                                   capacity |-> ranking[k].capacity, ltr |-> ranking[k].ltr]
                    ELSE ranking[j]
  BY <1>2, <1>5, <1>6
<1>8. \A j \in DOMAIN ranking : RankShape(one[j])
  BY <1>6, <1>7 DEF RankShape
<1>9. /\ DOMAIN two = DOMAIN ranking
      /\ \A j \in DOMAIN ranking :
           two[j] = IF j = k THEN [cost |-> ranking[k].cost, rank |-> ranking[k].rank, wait |-> wait,
                                   capacity |-> capacity, ltr |-> ranking[k].ltr]
                    ELSE ranking[j]
  BY <1>3, <1>5, <1>7, <1>8
<1>10. \A j \in DOMAIN ranking : RankShape(two[j])
  BY <1>6, <1>9 DEF RankShape
<1>11. /\ DOMAIN new = DOMAIN ranking
       /\ \A j \in DOMAIN ranking :
            new[j] = IF j = k THEN [cost |-> cost, rank |-> ranking[k].rank, wait |-> wait,
                                    capacity |-> capacity, ltr |-> ranking[k].ltr]
                     ELSE ranking[j]
  BY <1>4, <1>5, <1>9, <1>10
<1>12. new = [j \in DOMAIN new |-> new[j]] /\ \A j \in DOMAIN new : RankShape(new[j])
  BY <1>4, <1>6, <1>9, <1>11 DEF RankShape
<1> QED BY <1>1, <1>11, <1>12 DEF RankShaped, cost

CandidateShape(r) == r = [reason |-> r.reason, leg |-> r.leg, state |-> r.state]

CandidatesShaped(candidates) ==
  /\ candidates = [k \in DOMAIN candidates |-> candidates[k]]
  /\ \A k \in DOMAIN candidates : CandidateShape(candidates[k])

(* Synchronising twice changes nothing more.                               *)
LEMMA SyncedIs ==
  ASSUME NEW candidates, NEW target, NEW status, NEW queue, CandidatesShaped(candidates)
  PROVE  LET new == Synced(candidates, target, status, queue)
             now(k) == [Observed(status, queue, target[1], target[2], k[3])
                          EXCEPT !.status = candidates[k].state.status]
         IN  /\ CandidatesShaped(new) /\ DOMAIN new = DOMAIN candidates
             /\ \A k \in DOMAIN candidates :
                  new[k] = IF k \in Affected(candidates, target) /\ k[3] # "NONE"
                           THEN [reason |-> candidates[k].reason, leg |-> candidates[k].leg, state |-> now(k)]
                           ELSE candidates[k]
<1> DEFINE new == Synced(candidates, target, status, queue)
           now(k) == [Observed(status, queue, target[1], target[2], k[3])
                        EXCEPT !.status = candidates[k].state.status]
<1>1. new = [k \in DOMAIN candidates |->
               IF k \in Affected(candidates, target) /\ k[3] # "NONE"
               THEN [candidates[k] EXCEPT !.state = now(k)] ELSE candidates[k]]
  BY DEF Synced
<1> HIDE DEF new, now
<1>2. \A k \in DOMAIN candidates : CandidateShape(candidates[k])
  BY DEF CandidatesShaped
<1>3. \A r, x : CandidateShape(r) => [r EXCEPT !.state = x] = [reason |-> r.reason, leg |-> r.leg, state |-> x]
  BY DEF CandidateShape
<1>4. \A k \in DOMAIN candidates :
        new[k] = IF k \in Affected(candidates, target) /\ k[3] # "NONE"
                 THEN [reason |-> candidates[k].reason, leg |-> candidates[k].leg, state |-> now(k)]
                 ELSE candidates[k]
  BY <1>1, <1>2, <1>3
<1>5. new = [k \in DOMAIN new |-> new[k]] /\ DOMAIN new = DOMAIN candidates
  BY <1>1
<1>6. \A k \in DOMAIN candidates : CandidateShape(new[k])
  <2> TAKE k \in DOMAIN candidates
  <2>1. CASE new[k] = candidates[k]
    BY <1>2, <2>1
  <2>2. CASE new[k] = [reason |-> candidates[k].reason, leg |-> candidates[k].leg, state |-> now(k)]
    BY <2>2 DEF CandidateShape
  <2> QED BY <1>4, <2>1, <2>2
<1> QED BY <1>4, <1>5, <1>6 DEF CandidatesShaped, new, now

LEMMA ObservedStatus ==
  ASSUME NEW status, NEW queue, NEW s, NEW time, NEW v, NEW x
  PROVE  [Observed(status, queue, s, time, v) EXCEPT !.status = x].status = x
<1>1. CASE <<s, time>> \notin DOMAIN status
  BY <1>1 DEF Observed, Unknown
<1>2. CASE <<s, time>> \in DOMAIN status
  BY <1>2 DEF Observed
<1> QED BY <1>1, <1>2

LEMMA SyncedAgain ==
  ASSUME NEW candidates, NEW target, NEW status, NEW queue, CandidatesShaped(candidates)
  PROVE  Synced(Synced(candidates, target, status, queue), target, status, queue)
           = Synced(candidates, target, status, queue)
<1> DEFINE new == Synced(candidates, target, status, queue)
           again == Synced(new, target, status, queue)
           seen(k, x) == [Observed(status, queue, target[1], target[2], k[3]) EXCEPT !.status = x]
<1>1. /\ CandidatesShaped(new) /\ DOMAIN new = DOMAIN candidates
      /\ \A k \in DOMAIN candidates :
           new[k] = IF k \in Affected(candidates, target) /\ k[3] # "NONE"
                    THEN [reason |-> candidates[k].reason, leg |-> candidates[k].leg,
                          state |-> seen(k, candidates[k].state.status)]
                    ELSE candidates[k]
  BY SyncedIs
<1> HIDE DEF new
<1>2. /\ CandidatesShaped(again) /\ DOMAIN again = DOMAIN new
      /\ \A k \in DOMAIN new :
           again[k] = IF k \in Affected(new, target) /\ k[3] # "NONE"
                      THEN [reason |-> new[k].reason, leg |-> new[k].leg,
                            state |-> seen(k, new[k].state.status)]
                      ELSE new[k]
  BY <1>1, SyncedIs
<1> HIDE DEF again
<1>3. Affected(new, target) = Affected(candidates, target)
  BY <1>1 DEF Affected
<1>4. \A k, x : seen(k, x).status = x
  BY ObservedStatus
<1> HIDE DEF seen
<1>5. \A k \in DOMAIN candidates : again[k] = new[k]
  BY <1>1, <1>2, <1>3, <1>4
<1>6. again = new
  BY <1>1, <1>2, <1>5 DEF CandidatesShaped
<1> QED BY <1>6 DEF new, again

Priced(ranking, candidates, touched) ==
  [k \in DOMAIN ranking |->
     IF k \in touched
     THEN [cost |-> CostOf(k[1], k[2], k[3], candidates[k].state.capacity, candidates[k].state.wait),
           rank |-> ranking[k].rank, wait |-> candidates[k].state.wait,
           capacity |-> candidates[k].state.capacity, ltr |-> ranking[k].ltr]
     ELSE ranking[k]]

LEMMA SyncedRankingIs ==
  ASSUME NEW ranking, NEW candidates, NEW target, RankShaped(ranking)
  PROVE  LET touched == Affected(candidates, target) \cap DOMAIN ranking
         IN  /\ SyncedRanking(ranking, candidates, target)
                  = Reranked(Priced(ranking, candidates, touched), {k[1] : k \in touched})
             /\ RankShaped(Priced(ranking, candidates, touched))
<1> DEFINE touched == Affected(candidates, target) \cap DOMAIN ranking
           row(k) == IF k \in touched
                     THEN Repriced(ranking, k, candidates[k].state.wait, candidates[k].state.capacity)[k]
                     ELSE ranking[k]
<1>1. SyncedRanking(ranking, candidates, target)
        = Reranked([k \in DOMAIN ranking |-> row(k)], {k[1] : k \in touched})
  BY DEF SyncedRanking
<1>2. \A k \in DOMAIN ranking : row(k) = Priced(ranking, candidates, touched)[k]
  BY RepricedIs DEF Priced
<1>3. [k \in DOMAIN ranking |-> row(k)] = Priced(ranking, candidates, touched)
  BY <1>2 DEF Priced
<1>4. RankShaped(Priced(ranking, candidates, touched))
  BY DEF Priced, RankShaped, RankShape
<1> QED BY <1>1, <1>3, <1>4

LEMMA SyncedRankingAgain ==
  ASSUME NEW ranking, NEW candidates, NEW target, RankShaped(ranking)
  PROVE  /\ RankShaped(SyncedRanking(ranking, candidates, target))
         /\ DOMAIN SyncedRanking(ranking, candidates, target) = DOMAIN ranking
         /\ SyncedRanking(SyncedRanking(ranking, candidates, target), candidates, target)
              = SyncedRanking(ranking, candidates, target)
<1> DEFINE touched == Affected(candidates, target) \cap DOMAIN ranking
           events == {k[1] : k \in touched}
           priced == Priced(ranking, candidates, touched)
           new == SyncedRanking(ranking, candidates, target)
           repriced == Priced(new, candidates, touched)
           order == Ranked(Costs(priced))
<1>1. new = Reranked(priced, events) /\ RankShaped(priced) /\ DOMAIN priced = DOMAIN ranking
  BY SyncedRankingIs DEF Priced
<1> HIDE DEF events, priced, new
<1>2. /\ RankShaped(new) /\ DOMAIN new = DOMAIN ranking /\ Costs(new) = Costs(priced)
      /\ \A k \in DOMAIN ranking :
           new[k] = IF k[1] \in events
                    THEN [cost |-> priced[k].cost, rank |-> order[k].rank, wait |-> priced[k].wait,
                          capacity |-> priced[k].capacity, ltr |-> priced[k].ltr]
                    ELSE priced[k]
  BY <1>1, RerankedIs
<1> DEFINE again == SyncedRanking(new, candidates, target)
<1>3. again = Reranked(repriced, events) /\ RankShaped(repriced) /\ DOMAIN repriced = DOMAIN ranking
  <2>1. touched = Affected(candidates, target) \cap DOMAIN new
    BY <1>2
  <2> HIDE DEF touched
  <2> QED BY <1>2, <2>1, SyncedRankingIs DEF events, Priced
<1>4. \A k \in DOMAIN ranking : k \in touched => k[1] \in events
  BY DEF events
<1>5. \A k \in DOMAIN ranking :
        /\ repriced[k].cost = priced[k].cost /\ repriced[k].wait = priced[k].wait
        /\ repriced[k].capacity = priced[k].capacity /\ repriced[k].ltr = priced[k].ltr
        /\ k[1] \notin events => repriced[k] = new[k]
  <2> TAKE k \in DOMAIN ranking
  <2>1. CASE k \in touched
    <3> DEFINE c == candidates[k].state
               cost == CostOf(k[1], k[2], k[3], c.capacity, c.wait)
    <3>1. /\ repriced[k] = [cost |-> cost, rank |-> new[k].rank, wait |-> c.wait,
                            capacity |-> c.capacity, ltr |-> new[k].ltr]
          /\ priced[k] = [cost |-> cost, rank |-> ranking[k].rank, wait |-> c.wait,
                          capacity |-> c.capacity, ltr |-> ranking[k].ltr]
      BY <1>2, <2>1 DEF Priced, priced
    <3> HIDE DEF cost, c, repriced
    <3>2. new[k].ltr = priced[k].ltr /\ k[1] \in events
      BY <1>2, <1>4, <2>1
    <3> QED BY <3>1, <3>2
  <2>2. CASE k \notin touched
    <3>1. repriced[k] = new[k]
      BY <1>2, <2>2 DEF Priced
    <3> QED BY <1>2, <3>1
  <2> QED BY <2>1, <2>2
<1> HIDE DEF repriced, again, touched
<1>6. Costs(repriced) = Costs(priced)
  BY <1>1, <1>3, <1>5 DEF Costs
<1>7. /\ RankShaped(again) /\ DOMAIN again = DOMAIN ranking
      /\ \A k \in DOMAIN ranking :
           again[k] = IF k[1] \in events
                      THEN [cost |-> repriced[k].cost, rank |-> order[k].rank, wait |-> repriced[k].wait,
                            capacity |-> repriced[k].capacity, ltr |-> repriced[k].ltr]
                      ELSE repriced[k]
  BY <1>3, <1>6, RerankedIs
<1> HIDE DEF order
<1>8. \A k \in DOMAIN ranking : again[k] = new[k]
  BY <1>2, <1>5, <1>7
<1>9. again = new
  BY <1>2, <1>7, <1>8 DEF RankShaped
<1> QED BY <1>2, <1>9 DEF new, again

LEMMA Again05c ==
  ASSUME NEW d, NEW old, NEW m \in 0..2, CandidatesShaped(old.candidates), RankShaped(old.ranking),
         Partly(d, old, Output05c(old), m)
  PROVE  Output05c(d) = Output05c(old)
<1> DEFINE output == Output05c(old)
           candidates == Synced(old.candidates, Target, old.status.rows, old.queue.rows)
           ranking == SyncedRanking(old.ranking, candidates, Target)
<1>1. /\ output[1] = File("candidates", candidates) /\ output[2] = File("ranking", ranking)
      /\ output[3].file = "recommendations"
  BY DEF Output05c, File
<1> HIDE DEF output, candidates, ranking
<1>2. \A i \in 1..m : i = 1 \/ i = 2
  OBVIOUS
<1>3. \A i \in 1..m : output[i].file \in {"candidates", "ranking"}
  BY <1>1, <1>2 DEF File
<1>4. d.status = old.status /\ d.queue = old.queue /\ d.recommendations = old.recommendations
  BY <1>3 DEF Partly, Names, output
<1>5. d.candidates = old.candidates \/ d.candidates = candidates
  <2>1. CASE m >= 1
    <3>1. 1 \in 1..m
      BY <2>1
    <3> QED BY <1>1, <3>1 DEF Partly, output, File
  <2>2. CASE m < 1
    <3>1. \A i \in 1..m : output[i].file # "candidates"
      BY <2>2
    <3> QED BY <3>1 DEF Partly, Names, output
  <2> QED BY <2>1, <2>2
<1>6. d.ranking = old.ranking \/ d.ranking = ranking
  <2>1. CASE m >= 2
    <3>1. 2 \in 1..m
      BY <2>1
    <3> QED BY <1>1, <3>1 DEF Partly, output, File
  <2>2. CASE m < 2
    <3>1. \A i \in 1..m : output[i].file # "ranking"
      <4>1. \A i \in 1..m : i = 1
        BY <2>2
      <4> QED BY <1>1, <4>1 DEF File
    <3> QED BY <3>1 DEF Partly, Names, output
  <2> QED BY <2>1, <2>2
<1>7. Synced(d.candidates, Target, d.status.rows, d.queue.rows) = candidates
  BY <1>4, <1>5, SyncedAgain DEF candidates
<1>8. SyncedRanking(d.ranking, candidates, Target) = ranking
  BY <1>6, SyncedRankingAgain DEF ranking
<1> QED BY <1>4, <1>7, <1>8 DEF Output05c, candidates, ranking

-----------------------------------------------------------------------------
(* What 05 makes of the tables: rows of queues by service.                 *)

LEMMA SmallSeqs ==
  /\ IsSeq(<<>>)
  /\ \A x : IsSeq(<<x>>)
  /\ \A x, y : IsSeq(<<x, y>>)
  /\ \A s, t : IsSeq(s) /\ IsSeq(t) => IsSeq(s \o t)
<1>1. IsSeq(<<>>)
  <2>1. <<>> \in Seq({})
    OBVIOUS
  <2> QED BY <2>1 DEF IsSeq
<1>2. \A x : IsSeq(<<x>>)
  <2> TAKE x
  <2>1. <<x>> \in Seq({x})
    OBVIOUS
  <2> QED BY <2>1 DEF IsSeq
<1>3. \A x, y : IsSeq(<<x, y>>)
  <2> TAKE x, y
  <2>1. <<x, y>> \in Seq({x, y})
    OBVIOUS
  <2> QED BY <2>1 DEF IsSeq
<1>4. ASSUME NEW s, NEW t, IsSeq(s), IsSeq(t)
      PROVE  IsSeq(s \o t)
  <2>1. PICK A, B : s \in Seq(A) /\ t \in Seq(B)
    BY <1>4 DEF IsSeq
  <2>2. s \in Seq(A \cup B) /\ t \in Seq(A \cup B)
    BY <2>1
  <2>3. s \o t \in Seq(A \cup B)
    BY <2>2
  <2> QED BY <2>3 DEF IsSeq
<1> QED BY <1>1, <1>2, <1>3, <1>4

LEMMA FartherIsSeq ==
  ASSUME NEW demand
  PROVE  IsSeq(Farther(demand))
<1> DEFINE chosen == {t \in Trips : Trip[t].scenario = "FARTHER_BUT_FASTER"}
           trips == TripsInOrder(chosen)
           n == Cardinality(chosen)
           seqs == [i \in 1..n |-> FartherIn(demand, NeedOf(demand, trips[i]))]
           S == {seqs[i] : i \in 1..n}
<1>1. n \in Nat /\ DOMAIN trips = 1..n
  BY SortedSize
<1>2. Farther(demand) = FlattenSeq(seqs)
  BY <1>1 DEF Farther
<1>3. \A events : IsSeq(FartherIn(demand, events))
  BY SmallSeqs DEF FartherIn, FartherAt, FartherOf, SlowWay
<1>4. seqs \in [1..n -> S] /\ \A s \in S : IsSeq(s)
  BY <1>3
<1> HIDE DEF seqs, n, S
<1>5. IsSeq(FlattenSeq(seqs))
  BY <1>1, <1>4, FlattenIsSeq
<1> QED BY <1>2, <1>5

LEMMA ServingsLength ==
  ASSUME NEW demand, NEW scenarios
  PROVE  Len(Preserved(scenarios, demand) \o Slowed(Farther(demand))) \in Nat
<1>1. IsSeq(Preserved(scenarios, demand))
  <2> DEFINE put(r, time, available, wait) ==
               Serve(r.station, time, demand[EventOf(r.event)].service, available, wait)
             shown(name) == name \in DOMAIN scenarios /\ scenarios[name].passed
             long == scenarios["LONG_QUEUE"]
             change == scenarios["QUEUE_REALTIME_CHANGE"]
             first == IF shown("LONG_QUEUE") THEN <<put(long, long.time, 1, Whole(45))>> ELSE <<>>
             second == IF shown("QUEUE_REALTIME_CHANGE")
                       THEN <<put(change, change.time, 2, Zero), put(change, change.time + 1, 1, Whole(45))>>
                       ELSE <<>>
  <2>1. Preserved(scenarios, demand) = first \o second
    BY DEF Preserved
  <2>2. IsSeq(first) /\ IsSeq(second)
    <3> HIDE DEF put, long, change, shown
    <3> QED BY SmallSeqs
  <2> HIDE DEF first, second
  <2> QED BY <2>1, <2>2, SmallSeqs
<1>2. IsSeq(Slowed(Farther(demand)))
  <2> DEFINE farther == Farther(demand)
             n == Len(farther)
             both(f) == <<Serve(f.near, SnapshotOf(f.event).time, f.service, 1, f.wait),
                          Serve(f.far, SnapshotOf(f.event).time, f.service, 2, Zero)>>
             seqs == [i \in 1..n |-> both(farther[i])]
             S == {seqs[i] : i \in 1..n}
  <2>1. n \in Nat /\ DOMAIN farther = 1..n
    BY FartherIsSeq DEF IsSeq
  <2>2. Slowed(farther) = FlattenSeq(seqs)
    BY <2>1 DEF Slowed
  <2>3. \A f : IsSeq(both(f))
    BY SmallSeqs
  <2>4. seqs \in [1..n -> S] /\ \A s \in S : IsSeq(s)
    BY <2>3
  <2> HIDE DEF seqs, n, S, farther
  <2>5. IsSeq(FlattenSeq(seqs))
    BY <2>1, <2>4, FlattenIsSeq
  <2> QED BY <2>2, <2>5 DEF farther
<1> QED BY <1>1, <1>2, SmallSeqs DEF IsSeq

(* The equation of the recursive function in Served.                       *)
Steps05(after, tables, servings, n) ==
  after = [i \in 0..n |-> IF i = 0 THEN tables ELSE Serving(after[i - 1], servings[i])]

LEMMA Steps05Exist ==
  ASSUME NEW tables, NEW servings, NEW n \in Nat
  PROVE  \E after : Steps05(after, tables, servings, n)
<1> DEFINE bad == {k \in Nat : ~\E after : Steps05(after, tables, servings, k)}
<1> SUFFICES ASSUME bad # {} PROVE FALSE
  OBVIOUS
<1>1. PICK k \in bad : \A j \in bad : k <= j
  <2> HIDE DEF bad
  <2>1. bad \in SUBSET Nat
    BY DEF bad
  <2> QED BY <2>1, LeastNumber
<1>2. k # 0
  <2> DEFINE g == [i \in 0..0 |-> tables]
  <2>1. Steps05(g, tables, servings, 0)
    BY DEF Steps05
  <2> QED BY <2>1
<1>3. k - 1 \in Nat /\ k - 1 \notin bad
  BY <1>1, <1>2
<1>4. PICK f : Steps05(f, tables, servings, k - 1)
  BY <1>3
<1> DEFINE g == [i \in 0..k |-> IF i = k THEN Serving(f[k - 1], servings[k]) ELSE f[i]]
<1>5. \A i \in 0..k - 1 : g[i] = f[i]
  BY <1>3
<1>6. \A i \in 0..k - 1 : f[i] = IF i = 0 THEN tables ELSE Serving(f[i - 1], servings[i])
  BY <1>4 DEF Steps05
<1>7. g[k] = Serving(g[k - 1], servings[k])
  BY <1>3, <1>5
<1>8. \A i \in 0..k : g[i] = IF i = 0 THEN tables ELSE Serving(g[i - 1], servings[i])
  <2> TAKE i \in 0..k
  <2>1. CASE i = k
    BY <1>2, <1>7, <2>1
  <2>2. CASE i = 0
    BY <1>3, <1>5, <1>6, <2>2
  <2>3. CASE i # k /\ i # 0
    <3>1. i \in 0..k - 1 /\ i - 1 \in 0..k - 1
      BY <1>3, <2>3
    <3> HIDE DEF g
    <3> QED BY <1>5, <1>6, <2>3, <3>1
  <2> QED BY <2>1, <2>2, <2>3
<1>9. Steps05(g, tables, servings, k)
  <2>1. g = [i \in 0..k |-> g[i]]
    OBVIOUS
  <2> HIDE DEF g
  <2> QED BY <1>8, <2>1 DEF Steps05
<1> QED BY <1>1, <1>9

LEMMA ServedIs ==
  ASSUME NEW tables, NEW servings, Len(servings) \in Nat
  PROVE  \E after : /\ Steps05(after, tables, servings, Len(servings))
                    /\ Served(tables, servings) = after[Len(servings)]
<1>1. \E f : Steps05(f, tables, servings, Len(servings))
  BY Steps05Exist
<1> DEFINE g == CHOOSE f : f = [i \in 0..Len(servings) |->
                                  IF i = 0 THEN tables ELSE Serving(f[i - 1], servings[i])]
<1>2. Steps05(g, tables, servings, Len(servings))
  BY <1>1, Zenon DEF Steps05
<1>3. Served(tables, servings) = g[Len(servings)]
  BY DEF Served
<1> QED BY <1>2, <1>3

QueueShape(q) ==
  /\ q = [length |-> q.length, active |-> q.active, wait |-> q.wait]
  /\ q.length = [v \in Services |-> q.length[v]]
  /\ q.active = [v \in Services |-> q.active[v]]
  /\ q.wait = [v \in Services |-> q.wait[v]]

TablesShaped(t) ==
  /\ t = [status |-> t.status, queue |-> t.queue]
  /\ DOMAIN t.queue = DOMAIN t.status
  /\ t.status = [k \in DOMAIN t.status |-> t.status[k]]
  /\ t.queue = [k \in DOMAIN t.queue |-> t.queue[k]]
  /\ \A k \in DOMAIN t.queue : QueueShape(t.queue[k])

LEMMA QueueRowShape ==
  ASSUME NEW length, NEW active, length = [v \in Services |-> length[v]],
         active = [v \in Services |-> active[v]]
  PROVE  QueueShape(QueueRow(length, active))
BY DEF QueueRow, QueueShape

LEMMA SplitShape ==
  ASSUME NEW s, NEW old, NEW bias, NEW length
  PROVE  QueueShape(ServiceQueue(s, SplitStatus(s, old, bias), length))
<1> DEFINE row == SplitStatus(s, old, bias)
<1>1. \A a, b : Both(a, b) = [v \in Services |-> Both(a, b)[v]]
  BY DEF Both
<1>2. None2 = [v \in Services |-> None2[v]]
  BY <1>1 DEF None2
<1>3. SplitQueue(s, row, length) = [v \in Services |-> SplitQueue(s, row, length)[v]]
  <2> HIDE DEF row
  <2> QED BY <1>1, <1>2 DEF SplitQueue
<1>4. SplitBusy(s, old.occupied, bias) = [v \in Services |-> SplitBusy(s, old.occupied, bias)[v]]
  <2>1. CASE \E v \in Services : Single(s, v)
    BY <2>1 DEF SplitBusy
  <2>2. CASE ~\E v \in Services : Single(s, v)
    BY <1>1, <2>2 DEF SplitBusy
  <2> QED BY <2>1, <2>2
<1>5. row.busy = [v \in Services |-> row.busy[v]]
  BY <1>2, <1>4 DEF SplitStatus, OpenRow
<1> HIDE DEF row
<1>6. QueueShape(ServiceQueue(s, row, length))
  <2> DEFINE active == IF row.status = "OPEN" THEN row.busy ELSE None2
             lengths == SplitQueue(s, row, length)
  <2>1. active = [v \in Services |-> active[v]] /\ lengths = [v \in Services |-> lengths[v]]
    BY <1>2, <1>3, <1>5
  <2> HIDE DEF active, lengths
  <2>2. QueueShape(QueueRow(lengths, active))
    BY <2>1, QueueRowShape
  <2> QED BY <2>2 DEF ServiceQueue, active, lengths
<1> QED BY <1>6 DEF row

LEMMA SplitTablesShaped ==
  ASSUME NEW w, NEW d
  PROVE  TablesShaped(Split05(w, d)) /\ DOMAIN Split05(w, d).status = DOMAIN d.status.rows
<1> DEFINE split == SplitRows(w, d)
           queues == SplitQueues(split, d)
<1>1. split = [k \in DOMAIN d.status.rows |-> SplitStatus(k[1], d.status.rows[k], w.bias[k])]
  BY DEF SplitRows
<1>2. queues = [k \in DOMAIN split |-> ServiceQueue(k[1], split[k], d.queue.rows[k])]
  BY DEF SplitQueues
<1> HIDE DEF split, queues
<1>3. \A k \in DOMAIN split : QueueShape(queues[k])
  BY <1>1, <1>2, SplitShape
<1>4. Split05(w, d) = [status |-> split, queue |-> queues]
  BY DEF Split05, SplitTables, split, queues
<1>5. TablesShaped([status |-> split, queue |-> queues])
  BY <1>1, <1>2, <1>3 DEF TablesShaped
<1> QED BY <1>1, <1>4, <1>5

LEMMA ServingShape ==
  ASSUME NEW t, NEW p, TablesShaped(t)
  PROVE  TablesShaped(Serving(t, p)) /\ DOMAIN Serving(t, p).status = DOMAIN t.status
<1> DEFINE key == <<p.station, p.time>>
<1>1. CASE key \notin DOMAIN t.status
  BY <1>1 DEF Serving
<1>2. CASE key \in DOMAIN t.status
  <2> DEFINE row == SetQueue(p.station, t.queue[key], p.service, p.available, p.wait)
             queue == [t.queue EXCEPT ![key] = row]
             status == [t.status EXCEPT ![key] =
                          SetStatus(p.station, t.status[key], p.service, p.available, p.wait)]
  <2>1. Serving(t, p) = [status |-> status, queue |-> queue]
    BY <1>2 DEF Serving
  <2>2. QueueShape(row)
    <3> DEFINE q == t.queue[key]
               busy == SetBusy(p.station, p.service, p.available, p.wait)
               length == Ceiling(Q(p.wait.n * busy, p.wait.d * ServiceTime[p.service]))
               lengths == [q.length EXCEPT ![p.service] = length]
               actives == [q.active EXCEPT ![p.service] = busy]
    <3>1. QueueShape(q)
      BY <1>2 DEF TablesShaped
    <3>2. row = q \/ row = QueueRow(lengths, actives)
      BY DEF SetQueue
    <3> HIDE DEF q, busy, length, row
    <3>3. lengths = [v \in Services |-> lengths[v]] /\ actives = [v \in Services |-> actives[v]]
      BY <3>1 DEF QueueShape
    <3> HIDE DEF lengths, actives
    <3> QED BY <3>1, <3>2, <3>3, QueueRowShape
  <2>3. queue = [k \in DOMAIN t.queue |-> IF k = key THEN row ELSE t.queue[k]]
    BY DEF TablesShaped
  <2>4. DOMAIN status = DOMAIN t.status /\ status = [k \in DOMAIN t.status |-> status[k]]
    BY DEF TablesShaped
  <2> HIDE DEF row, queue, status, key
  <2>5. DOMAIN queue = DOMAIN status /\ queue = [k \in DOMAIN queue |-> queue[k]]
    BY <2>3, <2>4 DEF TablesShaped
  <2>6. \A k \in DOMAIN queue : QueueShape(queue[k])
    BY <2>2, <2>3 DEF TablesShaped
  <2>7. TablesShaped([status |-> status, queue |-> queue])
    BY <2>4, <2>5, <2>6 DEF TablesShaped
  <2> QED BY <2>1, <2>4, <2>7
<1> QED BY <1>1, <1>2

LEMMA ServedShape ==
  ASSUME NEW t, NEW servings, Len(servings) \in Nat, TablesShaped(t)
  PROVE  TablesShaped(Served(t, servings)) /\ DOMAIN Served(t, servings).status = DOMAIN t.status
<1> DEFINE n == Len(servings)
<1>1. PICK f : Steps05(f, t, servings, n) /\ Served(t, servings) = f[n]
  BY ServedIs
<1> DEFINE Good(x) == TablesShaped(x) /\ DOMAIN x.status = DOMAIN t.status
           bad == {i \in 0..n : ~Good(f[i])}
<1> SUFFICES ASSUME bad # {} PROVE FALSE
  BY <1>1
<1>2. PICK k \in bad : \A j \in bad : k <= j
  <2>1. bad \in SUBSET Nat
    OBVIOUS
  <2> HIDE DEF bad
  <2> QED BY <2>1, LeastNumber
<1>3. \A i \in 0..n : f[i] = IF i = 0 THEN t ELSE Serving(f[i - 1], servings[i])
  BY <1>1 DEF Steps05
<1>4. k # 0
  BY <1>2, <1>3
<1>5. k \in 0..n /\ k - 1 \in 0..n /\ k - 1 \notin bad
  BY <1>2, <1>4
<1>6. Good(f[k - 1])
  BY <1>5
<1>7. Good(Serving(f[k - 1], servings[k]))
  BY <1>6, ServingShape
<1> QED BY <1>2, <1>3, <1>4, <1>5, <1>7

-----------------------------------------------------------------------------
(* 05b.  It patches single rows; doing so twice is doing so once.          *)

LEMMA PutAgain ==
  /\ \A f, a, x : [[f EXCEPT ![a] = x] EXCEPT ![a] = x] = [f EXCEPT ![a] = x]
  /\ \A f, a, b, x : [[f EXCEPT ![a] = [f[a] EXCEPT ![b] = x]] EXCEPT
                         ![a] = [[f EXCEPT ![a] = [f[a] EXCEPT ![b] = x]][a] EXCEPT ![b] = x]]
                       = [f EXCEPT ![a] = [f[a] EXCEPT ![b] = x]]
<1>1. \A f, a, x : [[f EXCEPT ![a] = x] EXCEPT ![a] = x] = [f EXCEPT ![a] = x]
  OBVIOUS
<1>2. ASSUME NEW f, NEW a, NEW b, NEW x
      PROVE  [[f EXCEPT ![a] = [f[a] EXCEPT ![b] = x]] EXCEPT
                ![a] = [[f EXCEPT ![a] = [f[a] EXCEPT ![b] = x]][a] EXCEPT ![b] = x]]
               = [f EXCEPT ![a] = [f[a] EXCEPT ![b] = x]]
  <2> DEFINE y == [f[a] EXCEPT ![b] = x]
             g == [f EXCEPT ![a] = y]
             z == [g[a] EXCEPT ![b] = x]
  <2>1. [y EXCEPT ![b] = x] = y
    BY <1>1
  <2> HIDE DEF y
  <2>2. CASE a \in DOMAIN f
    <3>1. g[a] = y
      BY <2>2
    <3> HIDE DEF g
    <3>2. z = y
      BY <2>1, <3>1
    <3> HIDE DEF z
    <3>3. [g EXCEPT ![a] = z] = g
      BY <1>1, <3>2 DEF g
    <3> QED BY <3>3 DEF g, y, z
  <2>3. CASE a \notin DOMAIN f
    <3>1. DOMAIN g = DOMAIN f
      OBVIOUS
    <3>2. [g EXCEPT ![a] = z] = g
      <4> HIDE DEF z
      <4> QED BY <2>3
    <3> QED BY <3>2 DEF g, y, z
  <2> QED BY <2>2, <2>3
<1> QED BY <1>1, <1>2

(* The same of a row of a table in a record.                               *)
LEMMA RowPutAgain ==
  ASSUME NEW f, NEW key, NEW row
  PROVE  /\ [[f EXCEPT !.rows[key] = row] EXCEPT !.rows[key] = row] = [f EXCEPT !.rows[key] = row]
         /\ [[f EXCEPT !.queue[key] = row] EXCEPT !.queue[key] = row] = [f EXCEPT !.queue[key] = row]
<1>1. ASSUME NEW a
      PROVE  [[f EXCEPT ![a][key] = row] EXCEPT ![a][key] = row] = [f EXCEPT ![a][key] = row]
  <2> DEFINE g == [f EXCEPT ![a][key] = row]
  <2>1. g = [f EXCEPT ![a] = [f[a] EXCEPT ![key] = row]]
    OBVIOUS
  <2>2. [g EXCEPT ![a][key] = row] = [g EXCEPT ![a] = [g[a] EXCEPT ![key] = row]]
    OBVIOUS
  <2>3. [g EXCEPT ![a] = [g[a] EXCEPT ![key] = row]] = g
    <3> DEFINE y == [f[a] EXCEPT ![key] = row]
               z == [g[a] EXCEPT ![key] = row]
    <3>1. [y EXCEPT ![key] = row] = y /\ g = [f EXCEPT ![a] = y]
      BY <2>1, PutAgain
    <3> HIDE DEF g, y
    <3>2. CASE a \in DOMAIN f
      <4>1. z = y
        BY <3>1, <3>2
      <4> HIDE DEF z
      <4>2. [[f EXCEPT ![a] = y] EXCEPT ![a] = y] = [f EXCEPT ![a] = y]
        BY PutAgain
      <4> QED BY <3>1, <4>1, <4>2 DEF z
    <3>3. CASE a \notin DOMAIN f
      <4> HIDE DEF z
      <4>1. a \notin DOMAIN g /\ g = [b \in DOMAIN g |-> g[b]]
        BY <3>1, <3>3
      <4>2. [g EXCEPT ![a] = z] = g
        BY <4>1
      <4> QED BY <4>2 DEF z
    <3> QED BY <3>2, <3>3
  <2> QED BY <2>2, <2>3
<1> QED BY <1>1

LEMMA Patched05b ==
  ASSUME NEW d, NEW old, NEW e, NEW key, NEW row, NEW candidates, NEW ranking, NEW m \in 0..5,
         Partly(d, old, Tables05b(old, e, key, row, candidates, ranking), m)
  PROVE  /\ d.status = old.status
         /\ IF m >= 1 THEN d.queue = [old.queue EXCEPT !.rows[key] = row] ELSE d.queue = old.queue
         /\ IF m >= 2 THEN d.candidates = candidates ELSE d.candidates = old.candidates
         /\ IF m >= 3 THEN d.ranking = ranking ELSE d.ranking = old.ranking
         /\ Tables05b(d, e, key, row, candidates, ranking) = Tables05b(old, e, key, row, candidates, ranking)
<1> DEFINE output == Tables05b(old, e, key, row, candidates, ranking)
           queue == [old.queue EXCEPT !.rows[key] = row]
           best == [old.recommendations EXCEPT ![e] = At(ranking, e, 1)[2]]
           events == [old.events EXCEPT !.queue[key] = row]
<1>1. /\ output[1] = File("queue", queue) /\ output[2] = File("candidates", candidates)
      /\ output[3] = File("ranking", ranking) /\ output[4] = File("recommendations", best)
      /\ output[5] = File("events", events) /\ output[6].file = "scenario"
  BY DEF Tables05b, File
<1>2. Partly(d, old, output, m)
  OBVIOUS
<1> HIDE DEF output, queue, best, events
<1>3. \A i \in 1..5 : output[i].file \notin {"status", "scenario", "demand"}
  BY <1>1 DEF File
<1>4. d.status = old.status /\ d.scenario = old.scenario /\ d.demand = old.demand
  <2>1. \A i \in 1..m : output[i].file \notin {"status", "scenario", "demand"}
    BY <1>3
  <2> QED BY <1>2, <2>1 DEF Partly, Names
<1>5. /\ \A i \in 1..5 : output[i].file = "queue" => i = 1
      /\ \A i \in 1..5 : output[i].file = "candidates" => i = 2
      /\ \A i \in 1..5 : output[i].file = "ranking" => i = 3
      /\ \A i \in 1..5 : output[i].file = "recommendations" => i = 4
      /\ \A i \in 1..5 : output[i].file = "events" => i = 5
  BY <1>1 DEF File
<1>6. IF m >= 1 THEN d.queue = queue ELSE d.queue = old.queue
  BY <1>1, <1>2, <1>5 DEF Partly, Names, File
<1>7. IF m >= 2 THEN d.candidates = candidates ELSE d.candidates = old.candidates
  BY <1>1, <1>2, <1>5 DEF Partly, Names, File
<1>8. IF m >= 3 THEN d.ranking = ranking ELSE d.ranking = old.ranking
  BY <1>1, <1>2, <1>5 DEF Partly, Names, File
<1>9. IF m >= 4 THEN d.recommendations = best ELSE d.recommendations = old.recommendations
  BY <1>1, <1>2, <1>5 DEF Partly, Names, File
<1>10. IF m >= 5 THEN d.events = events ELSE d.events = old.events
  BY <1>1, <1>2, <1>5 DEF Partly, Names, File
<1>11. [d.queue EXCEPT !.rows[key] = row] = queue
  <2>1. [queue EXCEPT !.rows[key] = row] = queue
    BY RowPutAgain DEF queue
  <2> QED BY <1>6, <2>1 DEF queue
<1>12. [d.recommendations EXCEPT ![e] = At(ranking, e, 1)[2]] = best
  <2>1. [best EXCEPT ![e] = At(ranking, e, 1)[2]] = best
    BY PutAgain DEF best
  <2> QED BY <1>9, <2>1 DEF best
<1>13. [d.events EXCEPT !.queue[key] = row] = events
  <2>1. [events EXCEPT !.queue[key] = row] = events
    BY RowPutAgain DEF events
  <2> QED BY <1>10, <2>1 DEF events
<1>14. Tables05b(d, e, key, row, candidates, ranking) = output
  BY <1>4, <1>11, <1>12, <1>13 DEF Tables05b, output, queue, best, events
<1> QED BY <1>4, <1>6, <1>7, <1>8, <1>14 DEF queue, output

LEMMA LengthenAgain ==
  ASSUME NEW q, NEW v, NEW busy, NEW minutes, QueueShape(q), q.active[v] > 0
  PROVE  /\ Lengthen(Lengthen(q, v, busy, minutes), v, busy, minutes) = Lengthen(q, v, busy, minutes)
         /\ QueueShape(Lengthen(q, v, busy, minutes))
<1> DEFINE active == q.active[v]
           length == Most2(1, HalfEven(Q(minutes.n * active, minutes.d * ServiceTime[v])))
           wait == Wait(v, length, active)
           one == [q EXCEPT !.length[v] = length]
           two == [one EXCEPT !.active[v] = active]
           new == [two EXCEPT !.wait[v] = wait]
           lengths == [q.length EXCEPT ![v] = length]
           waits == [q.wait EXCEPT ![v] = wait]
<1>1. Lengthen(q, v, busy, minutes) = new
  BY DEF Lengthen
<1>2. /\ q = [length |-> q.length, active |-> q.active, wait |-> q.wait]
      /\ [q.active EXCEPT ![v] = active] = q.active
  BY DEF QueueShape
<1>3. one = [length |-> lengths, active |-> q.active, wait |-> q.wait]
  <2> HIDE DEF length
  <2> QED BY <1>2
<1> HIDE DEF one
<1>4. two = [length |-> lengths, active |-> [q.active EXCEPT ![v] = active], wait |-> q.wait]
  <2> HIDE DEF length, lengths, active
  <2> QED BY <1>3
<1> HIDE DEF two
<1>5. new = [length |-> lengths, active |-> q.active, wait |-> waits]
  <2> HIDE DEF wait, lengths, active
  <2> QED BY <1>2, <1>4
<1> DEFINE again1 == [new EXCEPT !.length[v] = length]
           again2 == [again1 EXCEPT !.active[v] = active]
           again == [again2 EXCEPT !.wait[v] = wait]
<1>6. Lengthen(new, v, busy, minutes) = again
  <2>1. new.active[v] = active
    BY <1>5
  <2> HIDE DEF new
  <2> QED BY <2>1 DEF Lengthen
<1> HIDE DEF new, length, wait
<1>7. /\ [lengths EXCEPT ![v] = length] = lengths /\ [waits EXCEPT ![v] = wait] = waits
  BY PutAgain
<1>8. /\ lengths = [u \in Services |-> lengths[u]] /\ waits = [u \in Services |-> waits[u]]
  BY DEF QueueShape
<1> HIDE DEF lengths, waits
<1>9. again1 = new
  BY <1>5, <1>7
<1>10. again2 = new
  <2> HIDE DEF again1
  <2> QED BY <1>2, <1>5, <1>9
<1>11. again = new
  <2> HIDE DEF again2
  <2> QED BY <1>5, <1>7, <1>10
<1>12. QueueShape(new)
  BY <1>5, <1>8 DEF QueueShape
<1> QED BY <1>1, <1>6, <1>11, <1>12

(* What an uninterrupted chain leaves: all its files, however far it got.  *)
LEMMA OriginalFiles ==
  ASSUME NEW w
  PROVE  Files(Original(w)) /\ Original(w).checked = {}
BY DEF Files, Names, Original

LEMMA ProperOutput ==
  ASSUME NEW w, NEW d, NEW n \in 1..7
  PROVE  Proper(Output(Scripts[n], w, d))
<1>1. Proper(Output04(w, d))
  BY Proper04 DEF Output04, Driven04, Demanded04, Scripted04, Labelled04, Ranked04
<1>2. Proper(Output04b(d))
  BY Proper04b
<1>3. Proper(Output05(w, d))
  BY Proper05 DEF Output05, Staged05, Candidates05, Labelled05
<1>4. Proper(Output05b(d))
  BY Proper05b, Zenon DEF Output05b, Tie05b, Patch05b, NearTied, Tied
<1>5. Proper(Output05c(d))
  BY Proper05c
<1>6. Proper(Output06(d))
  BY Proper06 DEF Output06, Driven06, Demanded06, Tables06, Labelled06
<1>7. Proper(Output07(d))
  BY Proper07 DEF Output07, Tables07, Labelled07
<1>8. Scripts[n] \in {"04", "04b", "05", "05b", "05c", "06", "07"}
  BY DEF Scripts
<1>9. Scripts[n] \notin {"04", "04b", "05", "05b", "05c", "06"} => Scripts[n] = "07"
  BY <1>8
<1> DEFINE script == Scripts[n]
<1> HIDE DEF script
<1>10. Proper(Output(script, w, d))
  <2>1. CASE script = "04"
    BY <1>1, <2>1 DEF Output
  <2>2. CASE script = "04b"
    BY <1>2, <2>2 DEF Output
  <2>3. CASE script = "05"
    BY <1>3, <2>3 DEF Output
  <2>4. CASE script = "05b"
    BY <1>4, <2>4 DEF Output
  <2>5. CASE script = "05c"
    BY <1>5, <2>5 DEF Output
  <2>6. CASE script = "06"
    BY <1>6, <2>6 DEF Output
  <2>7. CASE script \notin {"04", "04b", "05", "05b", "05c", "06"}
    BY <1>7, <2>7 DEF Output
  <2> QED BY <2>1, <2>2, <2>3, <2>4, <2>5, <2>6, <2>7
<1> QED BY <1>10 DEF script

(* The files after so many scripts.                                        *)
Left(w, n) ==
  CASE n = 0 -> Original(w)
    [] n = 1 -> LeftBy04(w)
    [] n = 2 -> LeftBy04b(w)
    [] n = 3 -> LeftBy05(w)
    [] n = 4 -> LeftBy05b(w)
    [] n = 5 -> LeftBy05c(w)
    [] n = 6 -> LeftBy06(w)
    [] OTHER -> LeftBy07(w)

LEMMA LeftNext ==
  ASSUME NEW w, NEW n \in 1..7
  PROVE  Left(w, n) = Written(Left(w, n - 1), Output(Scripts[n], w, Left(w, n - 1)))
<1>1. n \in {1, 2, 3, 4, 5, 6, 7}
  OBVIOUS
<1>2. /\ Scripts[1] = "04" /\ Scripts[2] = "04b" /\ Scripts[3] = "05" /\ Scripts[4] = "05b"
      /\ Scripts[5] = "05c" /\ Scripts[6] = "06" /\ Scripts[7] = "07"
  BY DEF Scripts
<1>3. /\ Left(w, 1) = LeftBy04(w) /\ Left(w, 2) = LeftBy04b(w) /\ Left(w, 3) = LeftBy05(w)
      /\ Left(w, 4) = LeftBy05b(w) /\ Left(w, 5) = LeftBy05c(w) /\ Left(w, 6) = LeftBy06(w)
      /\ Left(w, 7) = LeftBy07(w) /\ Left(w, 0) = Original(w)
  BY DEF Left
<1>4. /\ LeftBy04(w) = Written(Original(w), Output("04", w, Original(w)))
      /\ LeftBy04b(w) = Written(LeftBy04(w), Output("04b", w, LeftBy04(w)))
      /\ LeftBy05(w) = Written(LeftBy04b(w), Output("05", w, LeftBy04b(w)))
  BY DEF LeftBy04, LeftBy04b, LeftBy05, After04, After04b, After05, Output
<1>5. /\ LeftBy05b(w) = Written(LeftBy05(w), Output("05b", w, LeftBy05(w)))
      /\ LeftBy05c(w) = Written(LeftBy05b(w), Output("05c", w, LeftBy05b(w)))
      /\ LeftBy06(w) = Written(LeftBy05c(w), Output("06", w, LeftBy05c(w)))
      /\ LeftBy07(w) = Written(LeftBy06(w), Output("07", w, LeftBy06(w)))
  BY DEF LeftBy05b, LeftBy05c, LeftBy06, LeftBy07, After05b, After05c, After06, After07, Output
<1>6. 0 = 1 - 1 /\ 1 = 2 - 1 /\ 2 = 3 - 1 /\ 3 = 4 - 1 /\ 4 = 5 - 1 /\ 5 = 6 - 1 /\ 6 = 7 - 1
  OBVIOUS
<1>7. CASE n = 1
  BY <1>7, <1>2, <1>3, <1>4, <1>6
<1>8. CASE n = 2
  BY <1>8, <1>2, <1>3, <1>4, <1>6
<1>9. CASE n = 3
  BY <1>9, <1>2, <1>3, <1>4, <1>6
<1>10. CASE n = 4
  BY <1>10, <1>2, <1>3, <1>5, <1>6
<1>11. CASE n = 5
  BY <1>11, <1>2, <1>3, <1>5, <1>6
<1>12. CASE n = 6
  BY <1>12, <1>2, <1>3, <1>5, <1>6
<1>13. CASE n = 7
  BY <1>13, <1>2, <1>3, <1>5, <1>6
<1> QED BY <1>1, <1>7, <1>8, <1>9, <1>10, <1>11, <1>12, <1>13

LEMMA LeftFiles ==
  ASSUME NEW w, NEW n \in 0..7
  PROVE  Files(Left(w, n)) /\ Left(w, n).checked = {}
<1> DEFINE Good(k) == Files(Left(w, k)) /\ Left(w, k).checked = {}
<1>1. Good(0)
  BY OriginalFiles DEF Left
<1>2. ASSUME NEW k \in 1..7, Good(k - 1)
      PROVE  Good(k)
  BY <1>2, LeftNext, ProperOutput, WrittenIs
<1> HIDE DEF Good
<1>3. Good(1)
  BY <1>1, <1>2
<1>4. Good(2)
  BY <1>2, <1>3
<1>5. Good(3)
  BY <1>2, <1>4
<1>6. Good(4)
  BY <1>2, <1>5
<1>7. Good(5)
  BY <1>2, <1>6
<1>8. Good(6)
  BY <1>2, <1>7
<1>9. Good(7)
  BY <1>2, <1>8
<1>10. n \in {0, 1, 2, 3, 4, 5, 6, 7}
  OBVIOUS
<1>11. Good(n)
  BY <1>1, <1>3, <1>4, <1>5, <1>6, <1>7, <1>8, <1>9, <1>10
<1> QED BY <1>11 DEF Good

LEMMA CandidatesOf05 ==
  ASSUME NEW demand, NEW status, NEW queue
  PROVE  CandidatesShaped(CandidateTable05(demand, status, queue))
<1> DEFINE table == CandidateTable05(demand, status, queue)
           keys == {x \in (DOMAIN demand) \X Stations \X (Services \cup {"NONE"}) : x[3] = demand[x[1]].service}
           blank == [reason |-> "NO_SERVICE_NEEDED", leg |-> None, state |-> Unknown]
           row(e, s) == CandidateRow("05", e, s, demand[e].service,
                                     Compatible05(demand[e].vehicle, s, demand[e].service),
                                     demand[e].range, status, queue)
<1>1. table = [k \in keys |-> IF demand[k[1]].need THEN row(k[1], k[2]) ELSE blank]
  BY DEF CandidateTable05
<1>2. CandidateShape(blank)
  BY DEF CandidateShape
<1>3. \A e, s : CandidateShape(row(e, s))
  BY DEF CandidateRow, CandidateShape
<1> HIDE DEF table, keys, blank, row
<1>4. DOMAIN table = keys /\ table = [k \in DOMAIN table |-> table[k]]
  BY <1>1
<1>5. \A k \in keys : CandidateShape(table[k])
  BY <1>1, <1>2, <1>3
<1> QED BY <1>4, <1>5 DEF CandidatesShaped, table

(* The tables of 05.                                                       *)
Servings(d) == Preserved(d.scenario.rows, d.demand) \o Slowed(Farther(d.demand))

LEMMA LeftBy05Is ==
  ASSUME NEW w
  PROVE  LET d == LeftBy05(w)
         IN  /\ d.status = [split |-> TRUE, rows |-> d.events.status]
             /\ d.queue = [split |-> TRUE, rows |-> d.events.queue]
             /\ TablesShaped(d.events)
             /\ d.events = Served(Split05(w, LeftBy04b(w)), Servings(LeftBy04b(w)))
             /\ CandidatesShaped(d.candidates) /\ d.ranking = RankingTable(d.candidates)
             /\ d.candidates = CandidateTable05(LeftBy04b(w).demand, d.events.status, d.events.queue)
             /\ d.vehicles = LeftBy04b(w).vehicles /\ d.scenario.name = LeftBy04b(w).scenario.name
<1> DEFINE old == LeftBy04b(w)
           farther == Farther(old.demand)
           servings == Preserved(old.scenario.rows, old.demand) \o Slowed(farther)
           tables == Served(Split05(w, old), servings)
           candidates == CandidateTable05(old.demand, tables.status, tables.queue)
           ranking == RankingTable(candidates)
           output == Tables05(old, tables, farther, candidates, ranking)
           d == LeftBy05(w)
<1>1. Output05(w, old) = output
  BY DEF Output05, Staged05, Candidates05, Labelled05
<1>2. TablesShaped(tables)
  BY ServingsLength, SplitTablesShaped, ServedShape
<1>3. CandidatesShaped(candidates)
  BY CandidatesOf05
<1>4. d = Written(old, Output05(w, old))
  BY DEF LeftBy05, After05
<1>5. Files(old)
  <2>1. old = Left(w, 2)
    BY DEF Left
  <2> QED BY <2>1, LeftFiles
<1> HIDE DEF old, tables, farther, servings, candidates, ranking, d
<1>6. Proper(output) /\ Len(output) = 7
  BY Proper05
<1>7. Partly(d, old, output, Len(output))
  BY <1>1, <1>4, <1>5, <1>6, WrittenIs
<1>8. /\ output[1] = File("status", [split |-> TRUE, rows |-> tables.status])
      /\ output[2] = File("queue", [split |-> TRUE, rows |-> tables.queue])
      /\ output[3] = File("candidates", candidates) /\ output[4] = File("ranking", ranking)
      /\ output[5].file = "recommendations"
      /\ output[6] = File("events", tables)
      /\ output[7] = File("scenario", [old.scenario EXCEPT !.rows = FartherRow(@, ranking, farther)])
  BY DEF Tables05, File
<1> HIDE DEF output
<1>9. /\ d.status = [split |-> TRUE, rows |-> tables.status]
      /\ d.queue = [split |-> TRUE, rows |-> tables.queue]
      /\ d.candidates = candidates /\ d.ranking = ranking /\ d.events = tables
      /\ d.scenario = [old.scenario EXCEPT !.rows = FartherRow(@, ranking, farther)]
  <2>1. \A i \in 1..7 : d[output[i].file] = output[i].content
    BY <1>6, <1>7 DEF Partly
  <2>2. /\ d[output[1].file] = output[1].content /\ d[output[2].file] = output[2].content
        /\ d[output[3].file] = output[3].content /\ d[output[4].file] = output[4].content
        /\ d[output[6].file] = output[6].content /\ d[output[7].file] = output[7].content
    BY <2>1
  <2> QED BY <1>8, <2>2 DEF File
<1>10. d.vehicles = old.vehicles
  <2>1. \A i \in 1..7 : output[i].file # "vehicles"
    BY <1>8 DEF File
  <2> QED BY <1>6, <1>7, <2>1 DEF Partly, Names
<1>11. d.scenario.name = old.scenario.name
  BY <1>9
<1> QED BY <1>2, <1>3, <1>9, <1>10, <1>11 DEF ranking, d, old, candidates, tables, servings, farther, Servings

(* The candidate of the best station, with a longer queue.                 *)
Crowded(candidates, k, length, wait) ==
  [candidates EXCEPT ![k].state.length = length, ![k].state.wait = wait]

LEMMA PatchedCandidates ==
  ASSUME NEW candidates, CandidatesShaped(candidates), NEW k, NEW length, NEW wait
  PROVE  LET new == Crowded(candidates, k, length, wait)
         IN  CandidatesShaped(new) /\ Crowded(new, k, length, wait) = new
<1> DEFINE state(s) == [[s EXCEPT !.length = length] EXCEPT !.wait = wait]
           put(c) == [c EXCEPT ![k].state.length = length, ![k].state.wait = wait]
           one(c) == [c EXCEPT ![k].state.length = length]
           new(c) == [one(c) EXCEPT ![k].state.wait = wait]
<1>1. ASSUME NEW c, CandidatesShaped(c)
      PROVE  /\ CandidatesShaped(put(c)) /\ DOMAIN put(c) = DOMAIN c
             /\ \A j \in DOMAIN c :
                  put(c)[j] = IF j = k
                              THEN [reason |-> c[k].reason, leg |-> c[k].leg, state |-> state(c[k].state)]
                              ELSE c[j]
  <2> DEFINE a == one(c)
             b == new(c)
  <2>1. put(c) = b
    OBVIOUS
  <2>2. a = [j \in DOMAIN c |-> IF j = k THEN [c[j] EXCEPT !.state = [c[j].state EXCEPT !.length = length]]
                                ELSE c[j]]
    BY <1>1 DEF CandidatesShaped
  <2>3. \A r, x : CandidateShape(r) => [r EXCEPT !.state = x] = [reason |-> r.reason, leg |-> r.leg, state |-> x]
    BY DEF CandidateShape
  <2>4. \A j \in DOMAIN c : CandidateShape(c[j])
    BY <1>1 DEF CandidatesShaped
  <2> DEFINE later(j) == [a[j] EXCEPT !.state = [a[j].state EXCEPT !.wait = wait]]
  <2>5. b = [j \in DOMAIN a |-> IF j = k THEN later(j) ELSE a[j]]
    OBVIOUS
  <2> HIDE DEF a, b
  <2>6. /\ DOMAIN a = DOMAIN c
        /\ \A j \in DOMAIN c :
             a[j] = IF j = k THEN [reason |-> c[j].reason, leg |-> c[j].leg,
                                   state |-> [c[j].state EXCEPT !.length = length]] ELSE c[j]
    BY <2>2, <2>3, <2>4
  <2>7. \A j \in DOMAIN c : CandidateShape(a[j])
    <3> TAKE j \in DOMAIN c
    <3>1. CASE j = k
      <4>1. a[j] = [reason |-> c[j].reason, leg |-> c[j].leg,
                    state |-> [c[j].state EXCEPT !.length = length]]
        BY <2>6, <3>1
      <4> QED BY <4>1 DEF CandidateShape
    <3>2. CASE j # k
      BY <2>4, <2>6, <3>2
    <3> QED BY <3>1, <3>2
  <2>8. \A j \in DOMAIN c : j = k =>
          /\ a[j].reason = c[j].reason /\ a[j].leg = c[j].leg
          /\ a[j].state = [c[j].state EXCEPT !.length = length]
    BY <2>6
  <2>9. \A j \in DOMAIN c : j = k =>
          b[j] = [reason |-> a[j].reason, leg |-> a[j].leg, state |-> [a[j].state EXCEPT !.wait = wait]]
    <3> TAKE j \in DOMAIN c
    <3>1. later(j) = [reason |-> a[j].reason, leg |-> a[j].leg, state |-> [a[j].state EXCEPT !.wait = wait]]
      BY <2>3, <2>7
    <3> HIDE DEF later
    <3> QED BY <2>5, <2>6, <3>1
  <2> HIDE DEF later
  <2>10. /\ DOMAIN b = DOMAIN c
         /\ \A j \in DOMAIN c :
              b[j] = IF j = k THEN [reason |-> c[j].reason, leg |-> c[j].leg, state |-> state(c[j].state)]
                     ELSE c[j]
    <3>1. DOMAIN a = DOMAIN c /\ \A j \in DOMAIN c : j # k => a[j] = c[j]
      BY <2>6
    <3>2. DOMAIN b = DOMAIN c /\ \A j \in DOMAIN c : j # k => b[j] = c[j]
      BY <2>5, <3>1
    <3>3. \A j \in DOMAIN c : j = k =>
            b[j] = [reason |-> c[j].reason, leg |-> c[j].leg, state |-> state(c[j].state)]
      <4> TAKE j \in DOMAIN c
      <4> HAVE j = k
      <4> DEFINE x == [c[j].state EXCEPT !.length = length]
                 y == [x EXCEPT !.wait = wait]
      <4>1. a[j].reason = c[j].reason /\ a[j].leg = c[j].leg /\ a[j].state = x
        BY <2>8
      <4>2. b[j] = [reason |-> a[j].reason, leg |-> a[j].leg, state |-> [a[j].state EXCEPT !.wait = wait]]
        BY <2>9
      <4>3. state(c[j].state) = y
        OBVIOUS
      <4> HIDE DEF state, x
      <4> QED BY <4>1, <4>2, <4>3
    <3> HIDE DEF state
    <3> QED BY <3>2, <3>3
  <2> HIDE DEF state
  <2>11. b = [j \in DOMAIN b |-> b[j]]
    BY <2>5
  <2>12. \A j \in DOMAIN b : CandidateShape(b[j])
    <3> TAKE j \in DOMAIN b
    <3>1. CASE j = k
      <4>1. b[j] = [reason |-> c[j].reason, leg |-> c[j].leg, state |-> state(c[j].state)]
        BY <2>10, <3>1
      <4> QED BY <4>1 DEF CandidateShape
    <3>2. CASE j # k
      BY <2>4, <2>10, <3>2
    <3> QED BY <3>1, <3>2
  <2> QED BY <2>1, <2>10, <2>11, <2>12 DEF CandidatesShaped
<1>2. \A s : state(state(s)) = state(s)
  OBVIOUS
<1> DEFINE c1 == put(candidates)
           c2 == put(c1)
<1>3. /\ CandidatesShaped(c1) /\ DOMAIN c1 = DOMAIN candidates
      /\ \A j \in DOMAIN candidates :
           c1[j] = IF j = k THEN [reason |-> candidates[k].reason, leg |-> candidates[k].leg,
                                  state |-> state(candidates[k].state)] ELSE candidates[j]
  BY <1>1
<1> HIDE DEF c1
<1>4. /\ CandidatesShaped(c2) /\ DOMAIN c2 = DOMAIN c1
      /\ \A j \in DOMAIN c1 :
           c2[j] = IF j = k THEN [reason |-> c1[k].reason, leg |-> c1[k].leg, state |-> state(c1[k].state)]
                   ELSE c1[j]
  BY <1>1, <1>3
<1> HIDE DEF c2, state, put
<1>5. \A j \in DOMAIN candidates : c2[j] = c1[j]
  BY <1>2, <1>3, <1>4
<1>6. c2 = c1
  BY <1>3, <1>4, <1>5 DEF CandidatesShaped
<1>7. Crowded(candidates, k, length, wait) = c1 /\ Crowded(c1, k, length, wait) = c2
  BY DEF Crowded, put, c1, c2
<1> QED BY <1>3, <1>6, <1>7

(* 05b finds its near-tie untouched, tied by itself, or with the same work *)
(* to do; each time it writes the same.                                    *)
LEMMA SuitedIs ==
  ASSUME NEW w \in Worlds
  PROVE  LET d == LeftBy05(w)
             e == Chosen(d.ranking)
         IN  SuitedTo(d, e, At(d.ranking, e, 1), LeftBy05b(w).ranking)
BY WorldsAssumption DEF Suited, LeftBy05b

LEMMA RepricedAgain ==
  ASSUME NEW ranking, RankShaped(ranking), NEW k, NEW wait, NEW events
  PROVE  LET new == Reranked(Repriced(ranking, k, wait, ranking[k].capacity), events)
         IN  RankShaped(new) /\ Reranked(Repriced(new, k, wait, new[k].capacity), events) = new
<1> DEFINE capacity == ranking[k].capacity
           cost == CostOf(k[1], k[2], k[3], capacity, wait)
           priced == Repriced(ranking, k, wait, capacity)
           new == Reranked(priced, events)
<1>1. /\ RankShaped(priced) /\ DOMAIN priced = DOMAIN ranking
      /\ \A j \in DOMAIN ranking :
           priced[j] = IF j = k THEN [cost |-> cost, rank |-> ranking[k].rank, wait |-> wait,
                                      capacity |-> capacity, ltr |-> ranking[k].ltr]
                       ELSE ranking[j]
  BY RepricedIs
<1> HIDE DEF priced
<1>2. /\ RankShaped(new) /\ DOMAIN new = DOMAIN priced
      /\ \A j \in DOMAIN priced :
           new[j] = IF j[1] \in events
                    THEN [cost |-> priced[j].cost, rank |-> Ranked(Costs(priced))[j].rank,
                          wait |-> priced[j].wait, capacity |-> priced[j].capacity, ltr |-> priced[j].ltr]
                    ELSE priced[j]
  BY <1>1, RerankedIs
<1>3. Reranked(new, events) = new
  BY <1>1, RerankedAgain
<1> HIDE DEF new
<1> DEFINE more == new[k].capacity
           again == Repriced(new, k, wait, more)
<1>4. /\ RankShaped(again) /\ DOMAIN again = DOMAIN new
      /\ \A j \in DOMAIN new :
           again[j] = IF j = k THEN [cost |-> CostOf(k[1], k[2], k[3], more, wait), rank |-> new[k].rank,
                                     wait |-> wait, capacity |-> more, ltr |-> new[k].ltr]
                      ELSE new[j]
  BY <1>2, RepricedIs
<1>5. k \in DOMAIN ranking => more = capacity /\ new[k].cost = cost /\ new[k].wait = wait
  BY <1>1, <1>2
<1> HIDE DEF again, more, cost, capacity
<1>6. ASSUME k \in DOMAIN ranking
      PROVE  again[k] = new[k]
  <2>1. RankShape(new[k]) /\ k \in DOMAIN new
    BY <1>1, <1>2, <1>6 DEF RankShaped
  <2>2. again[k] = [cost |-> CostOf(k[1], k[2], k[3], capacity, wait), rank |-> new[k].rank,
                    wait |-> wait, capacity |-> capacity, ltr |-> new[k].ltr]
    BY <1>4, <1>5, <1>6, <2>1
  <2>3. new[k] = [cost |-> cost, rank |-> new[k].rank, wait |-> wait, capacity |-> capacity,
                  ltr |-> new[k].ltr]
    BY <1>5, <1>6, <2>1 DEF RankShape, more
  <2> QED BY <2>2, <2>3 DEF cost
<1>7. \A j \in DOMAIN new : again[j] = new[j]
  BY <1>1, <1>2, <1>4, <1>6
<1>8. again = new
  BY <1>2, <1>4, <1>7 DEF RankShaped
<1> QED BY <1>2, <1>3, <1>8 DEF again, new, priced, more, capacity

(* What 05b does with so much needed.                                      *)
LEMMA Tie05bIs ==
  ASSUME NEW d, NEW e, NEW best, NEW needed, e = Chosen(d.ranking), best = At(d.ranking, e, 1),
         needed = Needed(Lead(d.ranking, e))
  PROVE  Output05b(d) = NearTied(d, e, <<best[2], SnapshotOf(e).time>>, best, needed)
BY DEF Output05b, Tie05b, Patch05b

QueuePut(queue, key, row) == [queue EXCEPT !.rows[key] = row]

LEMMA TablesAfter05b ==
  ASSUME NEW w, NEW e, NEW key, NEW row, NEW candidates, NEW ranking,
         Output05b(LeftBy05(w)) = Tables05b(LeftBy05(w), e, key, row, candidates, ranking)
  PROVE  /\ LeftBy05b(w).ranking = ranking /\ LeftBy05b(w).candidates = candidates
         /\ LeftBy05b(w).status = LeftBy05(w).status
         /\ LeftBy05b(w).queue = QueuePut(LeftBy05(w).queue, key, row)
         /\ LeftBy05b(w).vehicles = LeftBy05(w).vehicles
         /\ LeftBy05b(w).scenario.name = LeftBy05(w).scenario.name
<1> DEFINE old == LeftBy05(w)
           d == LeftBy05b(w)
           output == Tables05b(old, e, key, row, candidates, ranking)
<1>1. d = Written(old, output)
  BY DEF LeftBy05b, After05b
<1>2. Files(old)
  <2>1. old = Left(w, 3)
    BY DEF Left
  <2> QED BY <2>1, LeftFiles
<1> HIDE DEF old, d
<1>3. Proper(output) /\ Len(output) = 6
  BY Proper05b
<1>4. /\ output[1] = File("queue", [old.queue EXCEPT !.rows[key] = row])
      /\ output[2] = File("candidates", candidates) /\ output[3] = File("ranking", ranking)
      /\ output[4].file = "recommendations" /\ output[5].file = "events"
      /\ output[6].file = "scenario"
  BY DEF Tables05b, File
<1>4a. output[6].content.name = old.scenario.name
  <2> DEFINE x == [passed |-> Leq(Lead(ranking, e), Whole(NearTie)), trip |-> e[1],
                   event |-> EventId(DOMAIN old.demand, e), station |-> At(ranking, e, 1)[2],
                   other |-> At(ranking, e, 2)[2], time |-> key[2]]
             y == [old.scenario.rows EXCEPT !["NEAR_TIE_STATIONS"] = x]
  <2>1. output[6].content = [old.scenario EXCEPT !.rows = y]
    BY DEF Tables05b, File
  <2> HIDE DEF y, output
  <2> QED BY <2>1
<1> HIDE DEF output
<1>5. Partly(d, old, output, Len(output))
  BY <1>1, <1>2, <1>3, WrittenIs
<1>6. /\ d[output[1].file] = output[1].content /\ d[output[2].file] = output[2].content
      /\ d[output[3].file] = output[3].content /\ d[output[6].file] = output[6].content
  BY <1>3, <1>5 DEF Partly
<1>7. \A i \in 1..6 : output[i].file # "vehicles" /\ output[i].file # "status"
  BY <1>4 DEF File
<1>8. d.vehicles = old.vehicles /\ d.status = old.status
  BY <1>3, <1>5, <1>7 DEF Partly, Names
<1> QED BY <1>4, <1>4a, <1>6, <1>8 DEF File, old, d, QueuePut

LEMMA Untied05b ==
  ASSUME NEW w \in Worlds, NEW d, NEW m \in 0..5,
         Partly(d, LeftBy05(w), Output05b(LeftBy05(w)), m),
         Needed(Lead(LeftBy05(w).ranking, Chosen(LeftBy05(w).ranking))) = Zero
  PROVE  /\ Output05b(d) = Output05b(LeftBy05(w))
         /\ LeftBy05b(w).status = LeftBy05(w).status /\ LeftBy05b(w).queue = LeftBy05(w).queue
         /\ LeftBy05b(w).candidates = LeftBy05(w).candidates
         /\ CandidatesShaped(LeftBy05b(w).candidates) /\ RankShaped(LeftBy05b(w).ranking)
<1> DEFINE old == LeftBy05(w)
           e == Chosen(old.ranking)
           best == At(old.ranking, e, 1)
           key == <<best[2], SnapshotOf(e).time>>
           row == old.queue.rows[key]
           needed == Needed(Lead(old.ranking, e))
<1>1. /\ old.queue = [split |-> TRUE, rows |-> old.events.queue]
      /\ old.events.queue = [k \in DOMAIN old.events.queue |-> old.events.queue[k]]
      /\ CandidatesShaped(old.candidates) /\ old.ranking = RankingTable(old.candidates)
  BY LeftBy05Is DEF TablesShaped
<1>2. RankShaped(old.ranking) /\ Reranked(old.ranking, {e}) = old.ranking
  <2> HIDE DEF e
  <2> QED BY <1>1, TableIsRanked
<1>3. needed = Zero
  OBVIOUS
<1>4. Output05b(old) = NearTied(old, e, key, best, needed)
  BY Tie05bIs
<1> HIDE DEF needed, key, best
<1>5. Output05b(old) = Tables05b(old, e, key, row, old.candidates, old.ranking)
  BY <1>2, <1>3, <1>4 DEF NearTied
<1>6. /\ CandidatesShaped(LeftBy05b(w).candidates) /\ RankShaped(LeftBy05b(w).ranking)
      /\ LeftBy05b(w).candidates = old.candidates /\ LeftBy05b(w).status = old.status
      /\ LeftBy05b(w).queue = QueuePut(old.queue, key, row)
  BY <1>1, <1>2, <1>5, TablesAfter05b
<1>7. Partly(d, old, Tables05b(old, e, key, row, old.candidates, old.ranking), m)
  BY <1>5
<1> HIDE DEF old, e
<1>8. /\ d.candidates = old.candidates /\ d.ranking = old.ranking
      /\ d.queue = [old.queue EXCEPT !.rows[key] = row] \/ d.queue = old.queue
      /\ Tables05b(d, e, key, row, old.candidates, old.ranking)
           = Tables05b(old, e, key, row, old.candidates, old.ranking)
  BY <1>7, Patched05b
<1>9. [old.queue EXCEPT !.rows[key] = row] = old.queue
  <2> DEFINE rows == old.events.queue
             put == [rows EXCEPT ![key] = rows[key]]
  <2>1. row = rows[key]
    BY <1>1
  <2>2. put = rows
    BY <1>1
  <2>3. [old.queue EXCEPT !.rows[key] = row] = [old.queue EXCEPT !.rows = put]
    BY <1>1, <2>1
  <2>4. old.queue = [split |-> TRUE, rows |-> rows]
    BY <1>1
  <2> HIDE DEF put, rows
  <2> DEFINE q == old.queue
  <2>5. q = [x \in DOMAIN q |-> q[x]] /\ q.rows = put
    BY <2>2, <2>4
  <2> HIDE DEF q
  <2>6. [q EXCEPT !.rows = put] = q
    BY <2>5
  <2> QED BY <2>3, <2>6 DEF q
<1>10. Output05b(d) = NearTied(d, e, key, best, needed)
  BY <1>8, Tie05bIs DEF e, best, key, needed
<1>11. d.queue.rows[key] = row
  BY <1>8, <1>9
<1>12. Output05b(d) = Tables05b(d, e, key, row, old.candidates, old.ranking)
  BY <1>2, <1>3, <1>8, <1>10, <1>11 DEF NearTied
<1> QED BY <1>5, <1>6, <1>8, <1>9, <1>12 DEF old, QueuePut

LEMMA Tied05b ==
  ASSUME NEW w \in Worlds, NEW d, NEW m \in 0..5,
         Partly(d, LeftBy05(w), Output05b(LeftBy05(w)), m),
         Needed(Lead(LeftBy05(w).ranking, Chosen(LeftBy05(w).ranking))) # Zero
  PROVE  /\ Output05b(d) = Output05b(LeftBy05(w))
         /\ CandidatesShaped(LeftBy05b(w).candidates) /\ RankShaped(LeftBy05b(w).ranking)
<1> DEFINE old == LeftBy05(w)
           e == Chosen(old.ranking)
           best == At(old.ranking, e, 1)
           key == <<best[2], SnapshotOf(e).time>>
           before == old.queue.rows[key]
           busy == old.status.rows[key].busy[best[3]]
           needed == Needed(Lead(old.ranking, e))
           row == Lengthen(before, best[3], busy, needed)
           length == row.length[best[3]]
           wait == row.wait[best[3]]
           put(c) == Crowded(c, best, length, wait)
           rerank(r) == Reranked(Repriced(r, best, wait, r[best].capacity), {e})
           candidates == put(old.candidates)
           ranking == rerank(old.ranking)
           output == Tables05b(old, e, key, row, candidates, ranking)
<1>1. /\ old.queue = [split |-> TRUE, rows |-> old.events.queue]
      /\ TablesShaped(old.events)
      /\ CandidatesShaped(old.candidates) /\ old.ranking = RankingTable(old.candidates)
  BY LeftBy05Is
<1>2. needed # Zero
  OBVIOUS
<1>3. /\ key = Target /\ Target \in DOMAIN old.queue.rows
      /\ old.queue.rows[Target].active[best[3]] > 0
      /\ Chosen(LeftBy05b(w).ranking) = e /\ At(LeftBy05b(w).ranking, e, 1) = best
      /\ Needed(Lead(LeftBy05b(w).ranking, e)) \in {Zero, needed}
  BY <1>2, SuitedIs DEF SuitedTo
<1>4. Output05b(old) = NearTied(old, e, key, best, needed)
  BY Tie05bIs
<1>5. \A x : NearTied(x, e, key, best, needed)
               = Tied(x, e, key, best, Lengthen(x.queue.rows[key], best[3],
                                                x.status.rows[key].busy[best[3]], needed))
  BY <1>2 DEF NearTied
<1>6. \A x : Tied(x, e, key, best, row) = Tables05b(x, e, key, row, put(x.candidates), rerank(x.ranking))
  BY DEF Tied, Crowded
<1>7. Output05b(old) = output
  BY <1>4, <1>5, <1>6, Zenon
<1>8. Partly(d, old, output, m)
  BY <1>7, Zenon
<1>9. LeftBy05b(w).ranking = ranking /\ LeftBy05b(w).candidates = candidates
  <2>1. Output05b(LeftBy05(w)) = Tables05b(LeftBy05(w), e, key, row, candidates, ranking)
    BY <1>7, Zenon
  <2> HIDE DEF e, key, row, candidates, ranking
  <2> QED BY <2>1, TablesAfter05b
<1>10. QueueShape(before) /\ before.active[best[3]] > 0 /\ key \in DOMAIN old.queue.rows
  <2>1. key \in DOMAIN old.queue.rows /\ before = old.events.queue[key] /\ key \in DOMAIN old.events.queue
    BY <1>1, <1>3
  <2> QED BY <1>1, <1>3, <2>1 DEF TablesShaped
<1>11. Lengthen(row, best[3], busy, needed) = row
  <2> HIDE DEF before, best, busy, needed
  <2> QED BY <1>10, LengthenAgain
<1>12. RankShaped(old.ranking)
  BY <1>1, TableIsRanked
<1> HIDE DEF old, e, best, key, before, busy, needed, row
<1>13. CandidatesShaped(candidates) /\ put(candidates) = candidates
  <2> HIDE DEF length, wait
  <2> DEFINE c == old.candidates
  <2>1. CandidatesShaped(c)
    BY <1>1
  <2> HIDE DEF c
  <2>2. CandidatesShaped(put(c)) /\ put(put(c)) = put(c)
    BY <2>1, PatchedCandidates
  <2> QED BY <2>2 DEF c
<1>14. RankShaped(ranking) /\ rerank(ranking) = ranking /\ Reranked(ranking, {e}) = ranking
  <2> HIDE DEF wait
  <2>1. RankShaped(Repriced(old.ranking, best, wait, old.ranking[best].capacity))
    BY <1>12, RepricedIs
  <2>2. Reranked(ranking, {e}) = ranking
    BY <2>1, RerankedAgain
  <2> QED BY <1>12, <2>2, RepricedAgain
<1> HIDE DEF put, rerank, length, wait, output
<1>15. /\ d.status = old.status
       /\ IF m >= 1 THEN d.queue = [old.queue EXCEPT !.rows[key] = row] ELSE d.queue = old.queue
       /\ IF m >= 2 THEN d.candidates = candidates ELSE d.candidates = old.candidates
       /\ IF m >= 3 THEN d.ranking = ranking ELSE d.ranking = old.ranking
       /\ Tables05b(d, e, key, row, candidates, ranking) = output
  <2> HIDE DEF candidates, ranking
  <2> QED BY <1>8, Patched05b DEF output
<1>16. put(d.candidates) = candidates
  BY <1>13, <1>15 DEF candidates
<1>17. d.queue.rows[key] \in {before, row}
  <2>1. [old.queue EXCEPT !.rows[key] = row].rows[key] = row
    BY <1>1, <1>10
  <2> QED BY <1>15, <2>1 DEF before
<1>18. Lengthen(d.queue.rows[key], best[3], d.status.rows[key].busy[best[3]], needed) = row
  <2>1. d.status.rows[key].busy[best[3]] = busy
    BY <1>15 DEF busy
  <2> QED BY <1>11, <1>17, <2>1 DEF row
<1>19. NearTied(d, e, key, best, needed) = Tables05b(d, e, key, row, candidates, rerank(d.ranking))
  BY <1>5, <1>6, <1>16, <1>18
<1>20. CASE m < 3
  <2>1. d.ranking = old.ranking
    BY <1>15, <1>20
  <2>2. Output05b(d) = NearTied(d, e, key, best, needed)
    BY <2>1, Tie05bIs DEF e, best, key, needed
  <2>3. Output05b(d) = output
    BY <1>15, <1>19, <2>1, <2>2 DEF ranking
  <2> QED BY <1>7, <1>9, <1>13, <1>14, <2>3 DEF old
<1>21. CASE m >= 3
  <2> DEFINE more == Needed(Lead(ranking, e))
  <2>1. d.ranking = ranking /\ d.candidates = candidates /\ d.queue = [old.queue EXCEPT !.rows[key] = row]
    BY <1>15, <1>21
  <2>2. Chosen(ranking) = e /\ At(ranking, e, 1) = best /\ more \in {Zero, needed}
    BY <1>3, <1>9
  <2>3. Output05b(d) = NearTied(d, e, key, best, more)
    BY <2>1, <2>2, Tie05bIs DEF key
  <2> HIDE DEF more
  <2>4. CASE more = Zero
    <3>1. d.queue.rows[key] = row
      BY <1>1, <1>10, <2>1
    <3>2. Output05b(d) = Tables05b(d, e, key, row, candidates, ranking)
      BY <1>14, <2>1, <2>3, <2>4, <3>1 DEF NearTied
    <3> QED BY <1>7, <1>9, <1>13, <1>14, <1>15, <3>2 DEF old
  <2>5. CASE more = needed
    <3>1. Output05b(d) = Tables05b(d, e, key, row, candidates, ranking)
      BY <1>14, <1>19, <2>1, <2>3, <2>5
    <3> QED BY <1>7, <1>9, <1>13, <1>14, <1>15, <3>1 DEF old
  <2> QED BY <2>2, <2>4, <2>5
<1> QED BY <1>20, <1>21

LEMMA Again05b ==
  ASSUME NEW w \in Worlds, NEW d, NEW m \in 0..5,
         Partly(d, LeftBy05(w), Output05b(LeftBy05(w)), m)
  PROVE  Output05b(d) = Output05b(LeftBy05(w))
BY Untied05b, Tied05b

-----------------------------------------------------------------------------
(* What 05b makes of the queue and of the candidates.                      *)
Longer(d, best, minutes) ==
  Lengthen(d.queue.rows[Target], best[3], d.status.rows[Target].busy[best[3]], minutes)

LEMMA TiedBy05b ==
  ASSUME NEW w \in Worlds, NEW old, old = LeftBy05(w), NEW e, e = Chosen(old.ranking),
         NEW best, best = At(old.ranking, e, 1), Needed(Lead(old.ranking, e)) # Zero
  PROVE  LET row == Longer(old, best, Needed(Lead(old.ranking, e)))
         IN  /\ LeftBy05b(w).status = old.status
             /\ LeftBy05b(w).queue = QueuePut(old.queue, Target, row)
             /\ LeftBy05b(w).candidates
                  = Crowded(old.candidates, best, row.length[best[3]], row.wait[best[3]])
<1> DEFINE needed == Needed(Lead(old.ranking, e))
           row == Longer(old, best, needed)
           candidates == Crowded(old.candidates, best, row.length[best[3]], row.wait[best[3]])
           ranking == Reranked(Repriced(old.ranking, best, row.wait[best[3]], old.ranking[best].capacity), {e})
<1>1. <<best[2], SnapshotOf(e).time>> = Target
  BY SuitedIs DEF SuitedTo
<1>2. Output05b(old) = NearTied(old, e, Target, best, needed)
  BY <1>1, Tie05bIs
<1> HIDE DEF needed
<1>3. NearTied(old, e, Target, best, needed) = Tied(old, e, Target, best, row)
  <2>1. needed # Zero
    BY DEF needed
  <2> QED BY <2>1 DEF NearTied, Longer
<1> HIDE DEF row
<1>4. Tied(old, e, Target, best, row) = Tables05b(old, e, Target, row, candidates, ranking)
  BY DEF Tied, Crowded
<1> HIDE DEF candidates, ranking
<1>5. Output05b(LeftBy05(w)) = Tables05b(LeftBy05(w), e, Target, row, candidates, ranking)
  BY <1>2, <1>3, <1>4
<1>6. /\ LeftBy05b(w).candidates = candidates /\ LeftBy05b(w).status = old.status
      /\ LeftBy05b(w).queue = QueuePut(old.queue, Target, row)
  BY <1>5, TablesAfter05b
<1> QED BY <1>6 DEF row, candidates, needed

-----------------------------------------------------------------------------
(* What the scripts before have left, of what the later ones depend on.    *)

LEMMA KeptFile ==
  ASSUME NEW w, NEW n \in 1..7, NEW f \in Names \ {"checked"},
         \A i \in 1..Len(Output(Scripts[n], w, Left(w, n - 1))) :
           Output(Scripts[n], w, Left(w, n - 1))[i].file # f
  PROVE  Left(w, n)[f] = Left(w, n - 1)[f]
<1> DEFINE old == Left(w, n - 1)
           output == Output(Scripts[n], w, old)
<1>1. Files(old)
  <2>1. n - 1 \in 0..7
    OBVIOUS
  <2> QED BY <2>1, LeftFiles
<1>2. Proper(output) /\ Left(w, n) = Written(old, output)
  BY ProperOutput, LeftNext
<1>3. Partly(Left(w, n), old, output, Len(output))
  <2> HIDE DEF old, output
  <2> QED BY <1>1, <1>2, WrittenIs
<1> QED BY <1>3 DEF Partly

LEMMA WroteFile ==
  ASSUME NEW w, NEW n \in 1..7, NEW i \in 1..Len(Output(Scripts[n], w, Left(w, n - 1)))
  PROVE  LET file == Output(Scripts[n], w, Left(w, n - 1))[i]
         IN  Left(w, n)[file.file] = file.content
<1> DEFINE old == Left(w, n - 1)
           output == Output(Scripts[n], w, old)
<1>1. Files(old)
  <2>1. n - 1 \in 0..7
    OBVIOUS
  <2> QED BY <2>1, LeftFiles
<1>2. Proper(output) /\ Left(w, n) = Written(old, output)
  BY ProperOutput, LeftNext
<1>3. Partly(Left(w, n), old, output, Len(output))
  <2> HIDE DEF old, output
  <2> QED BY <1>1, <1>2, WrittenIs
<1> QED BY <1>3 DEF Partly

LEMMA ScriptsAre ==
  /\ Scripts[1] = "04" /\ Scripts[2] = "04b" /\ Scripts[3] = "05" /\ Scripts[4] = "05b"
  /\ Scripts[5] = "05c" /\ Scripts[6] = "06" /\ Scripts[7] = "07"
BY DEF Scripts

LEMMA LeftAre ==
  ASSUME NEW w
  PROVE  /\ Left(w, 0) = Original(w) /\ Left(w, 1) = LeftBy04(w) /\ Left(w, 2) = LeftBy04b(w)
         /\ Left(w, 3) = LeftBy05(w) /\ Left(w, 4) = LeftBy05b(w) /\ Left(w, 5) = LeftBy05c(w)
         /\ Left(w, 6) = LeftBy06(w) /\ Left(w, 7) = LeftBy07(w)
BY DEF Left

LEMMA OutputsAre ==
  ASSUME NEW w, NEW d
  PROVE  /\ Output("04", w, d) = Output04(w, d) /\ Output("04b", w, d) = Output04b(d)
         /\ Output("05", w, d) = Output05(w, d) /\ Output("05b", w, d) = Output05b(d)
         /\ Output("05c", w, d) = Output05c(d) /\ Output("06", w, d) = Output06(d)
         /\ Output("07", w, d) = Output07(d)
BY DEF Output

(* Nobody changes the vehicles before 06, nor the name of the scenario     *)
(* before 07.                                                              *)
LEMMA OldNames ==
  ASSUME NEW w
  PROVE  /\ LeftBy05c(w).vehicles = OldVehicles
         /\ \A n \in 0..6 : Left(w, n).scenario.name = "NEED_SWAP"
<1> DEFINE Old(n) == Left(w, n).vehicles = OldVehicles /\ Left(w, n).scenario.name = "NEED_SWAP"
<1>0. Old(0)
  <2>1. Original(w).vehicles = OldVehicles /\ Original(w).scenario.name = "NEED_SWAP"
    BY DEF Original
  <2> QED BY <2>1, LeftAre
<1>1. ASSUME Old(0) PROVE Old(1)
  <2> DEFINE output == Output(Scripts[1], w, Left(w, 0))
  <2>1. output = Output04(w, Left(w, 0))
    BY ScriptsAre, OutputsAre
  <2>2. Len(output) = 9 /\ \A i \in 1..9 : output[i].file \notin {"vehicles", "scenario"}
    BY <2>1 DEF Output04, Driven04, Demanded04, Scripted04, Labelled04, Ranked04, Tables04, File
  <2>3. \A i \in 1..Len(output) : output[i].file # "vehicles" /\ output[i].file # "scenario"
    BY <2>2
  <2> HIDE DEF output
  <2>4. Left(w, 1).vehicles = Left(w, 0).vehicles /\ Left(w, 1).scenario = Left(w, 0).scenario
    <3>1. "vehicles" \in Names \ {"checked"} /\ "scenario" \in Names \ {"checked"} /\ 1 \in 1..7 /\ 1 - 1 = 0
      BY DEF Names
    <3>2. \A i \in 1..Len(Output(Scripts[1], w, Left(w, 1 - 1))) :
            /\ Output(Scripts[1], w, Left(w, 1 - 1))[i].file # "vehicles"
            /\ Output(Scripts[1], w, Left(w, 1 - 1))[i].file # "scenario"
      BY <2>3, <3>1 DEF output
    <3>3. /\ Left(w, 1)["vehicles"] = Left(w, 1 - 1)["vehicles"]
          /\ Left(w, 1)["scenario"] = Left(w, 1 - 1)["scenario"]
      BY ONLY <3>1, <3>2, KeptFile
    <3> QED BY <3>1, <3>3
  <2> QED BY <1>1, <2>4
<1>2. ASSUME Old(1) PROVE Old(2)
  <2> DEFINE output == Output(Scripts[2], w, Left(w, 1))
             old == Left(w, 1)
  <2>1. output = Output04b(old)
    BY ScriptsAre, OutputsAre
  <2>2. /\ Len(output) = 2 /\ output[1].file = "events" /\ output[2].file = "scenario"
        /\ output[2].content = [old.scenario EXCEPT !.rows = Found(old)]
    BY <2>1 DEF Output04b, File
  <2>3. \A i \in 1..Len(output) : output[i].file # "vehicles"
    BY <2>2
  <2>4. output[2].content.name = old.scenario.name
    <3> HIDE DEF output, old
    <3> QED BY <2>2
  <2> HIDE DEF output
  <2>5. "vehicles" \in Names \ {"checked"} /\ 2 \in 1..7 /\ 2 - 1 = 1 /\ 2 \in 1..Len(output)
    BY <2>2 DEF Names
  <2>6. Left(w, 2).vehicles = Left(w, 1).vehicles
    BY <2>3, <2>5, KeptFile DEF output
  <2>7. Left(w, 2)[output[2].file] = output[2].content
    BY <2>5, WroteFile DEF output
  <2> QED BY <1>2, <2>2, <2>4, <2>6, <2>7
<1>3. ASSUME Old(2) PROVE Old(3)
  BY <1>3, LeftAre, LeftBy05Is
<1>4. ASSUME Old(3) PROVE Old(4)
  <2> DEFINE old == LeftBy05(w)
  <2>1. \E e, key, row, candidates, ranking : Output05b(old) = Tables05b(old, e, key, row, candidates, ranking)
    BY Zenon DEF Output05b, Tie05b, Patch05b, NearTied, Tied
  <2> QED BY <1>4, <2>1, LeftAre, TablesAfter05b
<1>5. ASSUME Old(4) PROVE Old(5)
  <2> DEFINE output == Output(Scripts[5], w, Left(w, 4))
  <2>1. output = Output05c(Left(w, 4))
    BY ScriptsAre, OutputsAre
  <2>2. Len(output) = 3 /\ \A i \in 1..3 : output[i].file \notin {"vehicles", "scenario"}
    BY <2>1 DEF Output05c, File
  <2>3. \A i \in 1..Len(output) : output[i].file # "vehicles" /\ output[i].file # "scenario"
    BY <2>2
  <2> HIDE DEF output
  <2>4. Left(w, 5).vehicles = Left(w, 4).vehicles /\ Left(w, 5).scenario = Left(w, 4).scenario
    <3>1. "vehicles" \in Names \ {"checked"} /\ "scenario" \in Names \ {"checked"} /\ 5 \in 1..7 /\ 5 - 1 = 4
      BY DEF Names
    <3>2. \A i \in 1..Len(Output(Scripts[5], w, Left(w, 5 - 1))) :
            /\ Output(Scripts[5], w, Left(w, 5 - 1))[i].file # "vehicles"
            /\ Output(Scripts[5], w, Left(w, 5 - 1))[i].file # "scenario"
      BY <2>3, <3>1 DEF output
    <3>3. /\ Left(w, 5)["vehicles"] = Left(w, 5 - 1)["vehicles"]
          /\ Left(w, 5)["scenario"] = Left(w, 5 - 1)["scenario"]
      BY ONLY <3>1, <3>2, KeptFile
    <3> QED BY <3>1, <3>3
  <2> QED BY <1>5, <2>4
<1>6. ASSUME Old(5) PROVE Left(w, 6).scenario.name = "NEED_SWAP"
  <2> DEFINE output == Output(Scripts[6], w, Left(w, 5))
  <2>1. output = Output06(Left(w, 5))
    BY ScriptsAre, OutputsAre
  <2>2. Len(output) = 12 /\ \A i \in 1..12 : output[i].file # "scenario"
    BY <2>1 DEF Output06, Driven06, Demanded06, Tables06, Labelled06, Results06, File
  <2>3. \A i \in 1..Len(output) : output[i].file # "scenario"
    BY <2>2
  <2> HIDE DEF output
  <2>4. Left(w, 6).scenario = Left(w, 5).scenario
    <3>1. "scenario" \in Names \ {"checked"} /\ 6 \in 1..7 /\ 6 - 1 = 5
      BY DEF Names
    <3>2. \A i \in 1..Len(Output(Scripts[6], w, Left(w, 5))) :
            Output(Scripts[6], w, Left(w, 5))[i].file # "scenario"
      BY <2>3 DEF output
    <3>3. Left(w, 6)["scenario"] = Left(w, 5)["scenario"]
      BY ONLY <3>1, <3>2, KeptFile
    <3> QED BY <3>3
  <2> QED BY <1>6, <2>4
<1>7. \A n \in 0..6 : n \in {0, 1, 2, 3, 4, 5, 6}
  OBVIOUS
<1> QED BY <1>0, <1>1, <1>2, <1>3, <1>4, <1>5, <1>6, <1>7, LeftAre

-----------------------------------------------------------------------------
(* The files at any moment: what the finished scripts left, and so many    *)
(* files of the current one; a script that runs was started with all its   *)
(* files to write, and is at one of them, rewriting or writing.            *)
Made(w, n) == Output(Scripts[n], w, Left(w, n - 1))

Running(w, n, m) ==
  /\ Partly(disk, Left(w, n - 1), Made(w, n), m)
  /\ pending = <<>> \/ \E j \in 1..m + 1 : pending = SubSeq(Made(w, n), j, Len(Made(w, n)))

Passed(w) == disk = [LeftBy07(w) EXCEPT !.checked = Upheld(LeftBy07(w))]

Retraced ==
  /\ world \in Worlds /\ stage \in 1..Done
  /\ stage # Done => \E m \in 0..Len(Made(world, stage)) - 1 : Running(world, stage, m)
  /\ stage = Done => pending = <<>> /\ Alike(disk, LeftBy07(world))
  /\ verdict = "PASS" => stage = Done /\ Passed(world)

LEMMA ShapedBy05b ==
  ASSUME NEW w \in Worlds
  PROVE  CandidatesShaped(LeftBy05b(w).candidates) /\ RankShaped(LeftBy05b(w).ranking)
<1> DEFINE old == LeftBy05(w)
<1>1. Files(old)
  <2>1. 3 \in 0..7
    OBVIOUS
  <2> QED BY <2>1, LeftAre, LeftFiles
<1>2. Partly(old, old, Output05b(old), 0)
  BY <1>1, PartlyNone DEF Alike
<1>3. 0 \in 0..5
  OBVIOUS
<1> QED BY <1>2, <1>3, Untied05b, Tied05b

(* A script that is run again writes what it wrote before.                 *)
LEMMA Again ==
  ASSUME NEW w \in Worlds, NEW d, NEW n \in 1..7, NEW m \in 0..Len(Made(w, n)) - 1,
         Partly(d, Left(w, n - 1), Made(w, n), m), Runs(Scripts[n], d)
  PROVE  Output(Scripts[n], w, d) = Made(w, n)
<1>1. CASE n = 1
  <2> DEFINE old == Original(w)
  <2>1. Left(w, n - 1) = old /\ Made(w, n) = Output04(w, old) /\ Scripts[n] = "04"
    BY <1>1, ScriptsAre, LeftAre, OutputsAre DEF Made
  <2>2. Len(Output04(w, old)) = 9
    BY Proper04 DEF Output04, Driven04, Demanded04, Scripted04, Labelled04, Ranked04
  <2>3. m \in 0..8 /\ Partly(d, old, Output04(w, old), m)
    BY <2>1, <2>2
  <2>4. Output04(w, d) = Output04(w, old)
    BY <2>3, Again04
  <2> QED BY <2>1, <2>4, OutputsAre
<1>2. CASE n = 2
  <2> DEFINE old == LeftBy04(w)
  <2>1. Left(w, n - 1) = old /\ Made(w, n) = Output04b(old) /\ Scripts[n] = "04b"
    BY <1>2, ScriptsAre, LeftAre, OutputsAre DEF Made
  <2>2. Len(Output04b(old)) = 2
    BY Proper04b
  <2>3. m \in 0..1 /\ Partly(d, old, Output04b(old), m)
    BY <2>1, <2>2
  <2>4. Output04b(d) = Output04b(old)
    BY <2>3, Again04b
  <2> QED BY <2>1, <2>4, OutputsAre
<1>3. CASE n = 3
  <2> DEFINE old == LeftBy04b(w)
  <2>1. Left(w, n - 1) = old /\ Made(w, n) = Output05(w, old) /\ Scripts[n] = "05"
    BY <1>3, ScriptsAre, LeftAre, OutputsAre DEF Made
  <2>2. Len(Output05(w, old)) = 7
    BY Proper05 DEF Output05, Staged05, Candidates05, Labelled05
  <2>3. m \in 0..6 /\ Partly(d, old, Output05(w, old), m) /\ Runs("05", d)
    BY <2>1, <2>2
  <2>4. Output05(w, d) = Output05(w, old)
    BY <2>3, Again05
  <2> QED BY <2>1, <2>4, OutputsAre
<1>4. CASE n = 4
  <2> DEFINE old == LeftBy05(w)
  <2>1. Left(w, n - 1) = old /\ Made(w, n) = Output05b(old) /\ Scripts[n] = "05b"
    BY <1>4, ScriptsAre, LeftAre, OutputsAre DEF Made
  <2>2. Len(Output05b(old)) = 6
    BY Proper05b, Zenon DEF Output05b, Tie05b, Patch05b, NearTied, Tied
  <2>3. m \in 0..5 /\ Partly(d, old, Output05b(old), m)
    BY <2>1, <2>2
  <2>4. Output05b(d) = Output05b(old)
    BY <2>3, Again05b
  <2> QED BY <2>1, <2>4, OutputsAre
<1>5. CASE n = 5
  <2> DEFINE old == LeftBy05b(w)
  <2>1. Left(w, n - 1) = old /\ Made(w, n) = Output05c(old) /\ Scripts[n] = "05c"
    BY <1>5, ScriptsAre, LeftAre, OutputsAre DEF Made
  <2>2. Len(Output05c(old)) = 3
    BY Proper05c
  <2>3. m \in 0..2 /\ Partly(d, old, Output05c(old), m)
    BY <2>1, <2>2
  <2>4. CandidatesShaped(old.candidates) /\ RankShaped(old.ranking)
    BY ShapedBy05b
  <2>5. Output05c(d) = Output05c(old)
    BY <2>3, <2>4, Again05c
  <2> QED BY <2>1, <2>5, OutputsAre
<1>6. CASE n = 6
  <2> DEFINE old == LeftBy05c(w)
  <2>1. Left(w, n - 1) = old /\ Made(w, n) = Output06(old) /\ Scripts[n] = "06"
    BY <1>6, ScriptsAre, LeftAre, OutputsAre DEF Made
  <2>2. Len(Output06(old)) = 12
    BY Proper06 DEF Output06, Driven06, Demanded06, Tables06, Labelled06
  <2>3. m \in 0..11 /\ Partly(d, old, Output06(old), m)
    BY <2>1, <2>2
  <2>4. Files(old) /\ old.vehicles = OldVehicles
    <3>1. 5 \in 0..7
      OBVIOUS
    <3> QED BY <3>1, LeftAre, LeftFiles, OldNames
  <2>5. Output06(d) = Output06(old)
    BY <2>3, <2>4, Again06
  <2> QED BY <2>1, <2>5, OutputsAre
<1>7. CASE n = 7
  <2> DEFINE old == LeftBy06(w)
  <2>1. Left(w, n - 1) = old /\ Made(w, n) = Output07(old) /\ Scripts[n] = "07"
    BY <1>7, ScriptsAre, LeftAre, OutputsAre DEF Made
  <2>2. Len(Output07(old)) = 9
    BY Proper07 DEF Output07, Tables07, Labelled07
  <2>3. m \in 0..8 /\ Partly(d, old, Output07(old), m)
    BY <2>1, <2>2
  <2>4. Output07(d) = Output07(old)
    BY <2>3, Again07
  <2> QED BY <2>1, <2>4, OutputsAre
<1> QED BY <1>1, <1>2, <1>3, <1>4, <1>5, <1>6, <1>7

LEMMA MadeIs ==
  ASSUME NEW w, NEW n \in 1..7
  PROVE  /\ Proper(Made(w, n)) /\ Len(Made(w, n)) \in Nat \ {0}
         /\ Left(w, n) = Written(Left(w, n - 1), Made(w, n))
         /\ Files(Left(w, n - 1)) /\ Files(Left(w, n))
<1>1. Proper(Made(w, n))
  BY ProperOutput DEF Made
<1>2. Left(w, n) = Written(Left(w, n - 1), Made(w, n))
  BY LeftNext DEF Made
<1>3. n - 1 \in 0..7 /\ n \in 0..7
  OBVIOUS
<1> QED BY <1>1, <1>2, <1>3, ProperLength, LeftFiles

(* What is still to be written, and what is left of it after one file.     *)
LEMMA RestOf ==
  ASSUME NEW output, Proper(output), NEW j \in 1..Len(output)
  PROVE  /\ Head(SubSeq(output, j, Len(output))) = output[j]
         /\ Tail(SubSeq(output, j, Len(output))) = SubSeq(output, j + 1, Len(output))
         /\ SubSeq(output, j, Len(output)) # <<>>
         /\ SubSeq(output, 1, Len(output)) = output
         /\ SubSeq(output, Len(output) + 1, Len(output)) = <<>>
<1>1. PICK S : output \in Seq(S)
  BY DEF Proper
<1>2. Len(output) \in Nat
  BY <1>1
<1>3. Len(output) \in j..Len(output)
  BY <1>2
<1>4. /\ Head(SubSeq(output, j, Len(output))) = output[j]
      /\ Tail(SubSeq(output, j, Len(output))) = SubSeq(output, j + 1, Len(output))
  BY <1>1, <1>3, HeadTailOfSubSeq
<1>5. Len(SubSeq(output, j, Len(output))) = Len(output) - j + 1
  BY <1>1, <1>2, SubSeqProperties
<1>6. SubSeq(output, j, Len(output)) # <<>>
  <2> DEFINE rest == SubSeq(output, j, Len(output))
  <2>1. Len(rest) # 0
    BY <1>2, <1>5
  <2>2. Len(<<>>) = 0
    OBVIOUS
  <2> HIDE DEF rest
  <2>3. rest # <<>>
    BY <2>1, <2>2
  <2> QED BY <2>3 DEF rest
<1>7. SubSeq(output, 1, Len(output)) = output
  BY <1>1, SubSeqFull
<1>8. SubSeq(output, Len(output) + 1, Len(output)) = <<>>
  BY <1>2, SubSeqEmpty
<1> QED BY <1>4, <1>6, <1>7, <1>8

(* The name of the scenario changes with the very last file.               *)
LEMMA NameChangesLast ==
  ASSUME NEW w, NEW n \in 1..7, NEW d, NEW m \in 0..Len(Made(w, n)) - 1,
         Partly(d, Left(w, n - 1), Made(w, n), m)
  PROVE  d.scenario.name = "NEED_SWAP"
<1> DEFINE output == Made(w, n)
<1>1. Len(output) \in Nat
  BY MadeIs
<1>2. CASE \A i \in 1..m : output[i].file # "scenario"
  <2>1. d.scenario = Left(w, n - 1).scenario
    BY <1>2 DEF Partly, Names
  <2>2. n - 1 \in 0..6
    OBVIOUS
  <2> QED BY <2>1, <2>2, OldNames
<1>3. CASE \E i \in 1..m : output[i].file = "scenario"
  <2>1. PICK i \in 1..m : output[i].file = "scenario"
    BY <1>3
  <2>2. i \in 1..Len(output) /\ i <= Len(output) - 1
    BY <1>1
  <2>3. d.scenario = output[i].content
    BY <2>1 DEF Partly
  <2>4. Left(w, n).scenario = output[i].content
    <3>1. i \in 1..Len(Output(Scripts[n], w, Left(w, n - 1)))
      BY <2>2 DEF Made
    <3> QED BY <2>1, <3>1, WroteFile DEF Made
  <2>5. n # 7
    <3> SUFFICES ASSUME n = 7 PROVE FALSE
      OBVIOUS
    <3>1. output = Output07(LeftBy06(w))
      BY ScriptsAre, LeftAre, OutputsAre DEF Made
    <3>2. Len(output) = 9 /\ \A k \in 1..8 : output[k].file # "scenario"
      BY <3>1 DEF Output07, Tables07, Labelled07, Results07, File
    <3> HIDE DEF output
    <3>3. i \in 1..8
      BY ONLY <2>2, <3>2
    <3> QED BY <2>1, <3>2, <3>3
  <2>6. n \in 0..6
    BY <2>5
  <2> QED BY <2>3, <2>4, <2>6, OldNames
<1> QED BY <1>2, <1>3

(* The validator reads no column it writes itself.                         *)
LEMMA AlikeChecked ==
  ASSUME NEW d, NEW old, Files(old), Alike(d, old)
  PROVE  /\ Upheld(d) = Upheld(old)
         /\ \A x : /\ Alike([d EXCEPT !.checked = x], old)
                   /\ [d EXCEPT !.checked = x] = [old EXCEPT !.checked = x]
<1>1. /\ d.scenario = old.scenario /\ d.demand = old.demand /\ d.candidates = old.candidates
      /\ d.ranking = old.ranking /\ d.queue = old.queue /\ d.status = old.status
      /\ d.events = old.events
  BY DEF Alike, Names
<1>2. \A name, r : Asserted(name, r, d) = Asserted(name, r, old)
  <2> TAKE name, r
  <2>1. Example17(r, d.demand) = Example17(r, old.demand)
    BY <1>1
  <2> QED BY <1>1, <2>1, Zenon DEF Asserted
<1>3. Upheld(d) = Upheld(old)
  BY <1>1, <1>2 DEF Upheld
<1>4. ASSUME NEW x
      PROVE  /\ Alike([d EXCEPT !.checked = x], old)
             /\ [d EXCEPT !.checked = x] = [old EXCEPT !.checked = x]
  <2> DEFINE a == [d EXCEPT !.checked = x]
             b == [old EXCEPT !.checked = x]
  <2>1. /\ d = [f \in Names |-> d[f]] /\ old = [f \in Names |-> old[f]]
        /\ \A f \in Names \ {"checked"} : d[f] = old[f]
    BY DEF Alike, Files
  <2>2. /\ a = [f \in Names |-> IF f = "checked" THEN x ELSE d[f]]
        /\ b = [f \in Names |-> IF f = "checked" THEN x ELSE old[f]]
    BY <2>1
  <2> HIDE DEF a, b
  <2>3. \A f \in Names : a[f] = b[f]
    BY <2>1, <2>2
  <2>4. a = b
    BY <2>2, <2>3
  <2>5. Alike(a, old)
    BY <2>1, <2>2 DEF Alike, Files
  <2> QED BY <2>4, <2>5 DEF a, b
<1> QED BY <1>3, <1>4

-----------------------------------------------------------------------------
(* The invariant, action by action.                                        *)

LEMMA DoneIs == Done = 8
BY DEF Done, Scripts

LEMMA RetracedInit == Init => Retraced
<1> SUFFICES ASSUME Init PROVE Retraced
  OBVIOUS
<1> DEFINE output == Made(world, 1)
<1>1. world \in Worlds /\ disk = Original(world) /\ stage = 1 /\ pending = <<>> /\ verdict # "PASS"
  BY DEF Init
<1>2. Len(output) \in Nat \ {0} /\ Files(disk) /\ Left(world, 0) = disk
  <2>1. 1 \in 1..7 /\ 1 - 1 = 0
    OBVIOUS
  <2> QED BY <1>1, <2>1, MadeIs, LeftAre
<1> HIDE DEF output
<1>3. Partly(disk, Left(world, 0), output, 0)
  BY <1>2, PartlyNone DEF Alike
<1>4. 0 \in 0..Len(output) - 1
  BY <1>2
<1>5. Running(world, stage, 0)
  BY <1>1, <1>3 DEF Running, output
<1> QED BY <1>1, <1>4, <1>5, DoneIs DEF Retraced, output

LEMMA RetracedStart ==
  ASSUME Retraced, Start
  PROVE  Retraced' /\ pending' = Made(world, stage)
<1> DEFINE output == Made(world, stage)
           n == Len(output)
<1>1. /\ world \in Worlds /\ stage \in 1..7 /\ stage # Done
      /\ Runs(Scripts[stage], disk) /\ pending' = Output(Scripts[stage], world, disk)
      /\ UNCHANGED <<world, disk, stage, verdict>>
  BY DoneIs DEF Retraced, Start
<1>2. PICK m \in 0..n - 1 : Running(world, stage, m)
  BY <1>1 DEF Retraced
<1>3. Partly(disk, Left(world, stage - 1), output, m)
  BY <1>2 DEF Running
<1>4. pending' = output
  BY <1>1, <1>3, Again
<1>5. Proper(output) /\ n \in Nat \ {0}
  BY <1>1, MadeIs
<1> HIDE DEF output
<1>6. pending' = SubSeq(output, 1, n)
  <2>1. 1 \in 1..n
    BY <1>5
  <2> QED BY <1>4, <1>5, <2>1, RestOf
<1>7. 1 \in 1..m + 1 /\ m \in Nat
  BY <1>5
<1>8. Running(world, stage, m)'
  BY <1>1, <1>3, <1>6, <1>7 DEF Running, output
<1>9. stage' # Done => \E i \in 0..Len(Made(world, stage)') - 1 : Running(world, stage, i)'
  BY <1>1, <1>8 DEF output
<1> QED BY <1>1, <1>4, <1>9 DEF Retraced, Passed, output, Done

LEMMA RetracedWrite ==
  ASSUME Retraced, Write
  PROVE  Retraced'
<1> DEFINE output == Made(world, stage)
           old == Left(world, stage - 1)
           n == Len(output)
<1>1. /\ world \in Worlds /\ stage \in 1..7 /\ verdict # "PASS" /\ pending # <<>>
      /\ disk' = [disk EXCEPT ![Head(pending).file] = Head(pending).content]
      /\ pending' = Tail(pending)
      /\ stage' = IF Tail(pending) = <<>> THEN stage + 1 ELSE stage
      /\ UNCHANGED <<world, verdict>>
  BY DoneIs DEF Retraced, Write
<1>2. PICK m \in 0..n - 1 : Running(world, stage, m)
  BY <1>1, DoneIs DEF Retraced
<1>3. /\ Proper(output) /\ n \in Nat \ {0} /\ Files(old)
      /\ Left(world, stage) = Written(old, output)
  BY <1>1, MadeIs
<1>4. PICK j \in 1..m + 1 : pending = SubSeq(output, j, n)
  BY <1>1, <1>2 DEF Running
<1>5. j \in 1..n /\ m \in 0..n /\ m \in Nat /\ j <= m + 1 /\ m <= n - 1
  BY <1>3
<1>6. Head(pending) = output[j] /\ Tail(pending) = SubSeq(output, j + 1, n)
  BY <1>3, <1>4, <1>5, RestOf
<1>7. Partly(disk', old, output, IF j = m + 1 THEN j ELSE m)
  <2>1. Partly(disk, old, output, m)
    BY <1>2 DEF Running
  <2> HIDE DEF old, output
  <2> QED BY <1>1, <1>3, <1>5, <1>6, <2>1, PartlyMore
<1>8. CASE j = n
  <2>1. pending' = <<>> /\ stage' = stage + 1
    BY <1>1, <1>3, <1>5, <1>6, <1>8, RestOf
  <2>2. Partly(disk', old, output, n)
    BY <1>5, <1>7, <1>8
  <2>3. Alike(disk', Left(world, stage))
    <3> HIDE DEF old, output
    <3> QED BY <1>3, <2>2, PartlyAll
  <2>4. CASE stage = 7
    <3>1. Alike(disk', LeftBy07(world)) /\ stage' = Done
      BY <2>1, <2>3, <2>4, LeftAre, DoneIs
    <3> QED BY <1>1, <2>1, <3>1, DoneIs DEF Retraced, Done
  <2>5. CASE stage # 7
    <3> DEFINE next == Made(world, stage + 1)
    <3>1. stage + 1 \in 1..7 /\ stage + 1 - 1 = stage
      BY <1>1, <2>5
    <3>2. Len(next) \in Nat \ {0}
      BY <3>1, MadeIs
    <3>3. Partly(disk', Left(world, stage), next, 0)
      <4> HIDE DEF next
      <4> QED BY <2>3, PartlyNone
    <3>4. Running(world, stage, 0)'
      BY <1>1, <2>1, <3>1, <3>3 DEF Running
    <3>5. 0 \in 0..Len(next) - 1
      BY <3>2
    <3>6. stage' # Done /\ stage' \in 1..Done
      BY <2>1, <3>1, DoneIs
    <3>7. Len(Made(world, stage)') = Len(next)
      BY <1>1, <2>1
    <3> HIDE DEF next
    <3>8. \E i \in 0..Len(Made(world, stage)') - 1 : Running(world, stage, i)'
      BY <3>4, <3>5, <3>7
    <3> QED BY <1>1, <3>6, <3>8 DEF Retraced, Done
  <2> QED BY <2>4, <2>5
<1>9. CASE j # n
  <2> DEFINE k == IF j = m + 1 THEN j ELSE m
  <2>1. j + 1 \in 1..n /\ k \in 0..n - 1 /\ j + 1 \in 1..k + 1
    BY <1>3, <1>5, <1>9
  <2>2. Tail(pending) # <<>>
    <3> HIDE DEF output
    <3> QED BY <1>3, <1>6, <2>1, RestOf
  <2>3. stage' = stage /\ pending' = SubSeq(output, j + 1, n)
    BY <1>1, <1>6, <2>2
  <2>4. Running(world, stage, k)'
    BY <1>1, <1>7, <2>1, <2>3 DEF Running
  <2>5. Len(Made(world, stage)') = n
    BY <1>1, <2>3
  <2>6. stage' # Done /\ stage' \in 1..Done
    BY <1>1, <2>3, DoneIs
  <2> HIDE DEF k, n
  <2>7. \E i \in 0..Len(Made(world, stage)') - 1 : Running(world, stage, i)'
    BY <2>1, <2>4, <2>5
  <2> QED BY <1>1, <2>6, <2>7 DEF Retraced, Done
<1> QED BY <1>8, <1>9

LEMMA RetracedCrash ==
  ASSUME Retraced, Crash
  PROVE  Retraced'
<1>1. pending # <<>> /\ pending' = <<>> /\ UNCHANGED <<world, disk, stage, verdict>>
  BY DEF Crash
<1>2. stage # Done /\ world \in Worlds /\ stage \in 1..Done
  BY <1>1 DEF Retraced
<1>3. PICK m \in 0..Len(Made(world, stage)) - 1 : Running(world, stage, m)
  BY <1>2 DEF Retraced
<1>4. Running(world, stage, m)'
  BY <1>1, <1>3 DEF Running
<1>5. \E i \in 0..Len(Made(world, stage)') - 1 : Running(world, stage, i)'
  BY <1>1, <1>3, <1>4
<1> QED BY <1>1, <1>2, <1>5 DEF Retraced, Passed, Done

LEMMA RetracedValidate ==
  ASSUME Retraced, Validate
  PROVE  Retraced'
<1>1. pending = <<>> /\ UNCHANGED <<world, stage, pending>> /\ world \in Worlds /\ stage \in 1..Done
  BY DEF Validate, Retraced
<1>2. CASE ~Readable(disk)
  <2>1. UNCHANGED <<world, disk, stage, pending, verdict>>
    BY <1>1, <1>2 DEF Validate
  <2> QED BY <2>1 DEF Retraced, Running, Passed, Done
<1>3. CASE Readable(disk)
  <2>1. /\ disk' = [disk EXCEPT !.checked = Upheld(disk)]
        /\ verdict' = IF Accepted(disk) THEN "PASS" ELSE "FAIL"
    BY <1>3 DEF Validate
  <2>2. CASE stage # Done
    <3> DEFINE output == Made(world, stage)
               old == Left(world, stage - 1)
    <3>1. stage \in 1..7
      BY <1>1, <2>2, DoneIs
    <3>2. PICK m \in 0..Len(output) - 1 : Running(world, stage, m)
      BY <2>2 DEF Retraced
    <3>3. Partly(disk, old, output, m)
      BY <3>2 DEF Running
    <3>4. ~Accepted(disk)
      <4>1. disk.scenario.name = "NEED_SWAP"
        BY <3>1, <3>3, NameChangesLast
      <4> QED BY <4>1 DEF Accepted
    <3>5. Proper(output) /\ Len(output) \in Nat
      BY <3>1, MadeIs
    <3> HIDE DEF output, old
    <3>6. Partly(disk', old, output, m)
      <4>1. m \in 0..Len(output)
        BY <3>5
      <4> QED BY <2>1, <3>3, <3>5, <4>1, PartlyChecked
    <3>7. Running(world, stage, m)'
      BY <1>1, <3>6 DEF Running, output, old
    <3>8. \E i \in 0..Len(Made(world, stage)') - 1 : Running(world, stage, i)'
      BY <1>1, <3>7 DEF output
    <3>9. verdict' # "PASS"
      BY <2>1, <3>4
    <3> QED BY <1>1, <2>2, <3>8, <3>9 DEF Retraced, Done
  <2>3. CASE stage = Done
    <3> DEFINE final == LeftBy07(world)
    <3>1. Files(final)
      <4>1. 7 \in 0..7
        OBVIOUS
      <4> QED BY <4>1, LeftAre, LeftFiles
    <3>2. Alike(disk, final)
      BY <2>3 DEF Retraced
    <3>3. Alike(disk', final) /\ disk' = [final EXCEPT !.checked = Upheld(final)]
      <4> HIDE DEF final
      <4>1. Upheld(disk) = Upheld(final)
        BY <3>1, <3>2, AlikeChecked
      <4> QED BY <2>1, <3>1, <3>2, <4>1, AlikeChecked
    <3>4. Passed(world)'
      BY <1>1, <3>3 DEF Passed
    <3> QED BY <1>1, <2>3, <3>3, <3>4 DEF Retraced, Done
  <2> QED BY <2>2, <2>3
<1> QED BY <1>2, <1>3

LEMMA RetracedNext == Retraced /\ [Next]_vars => Retraced'
<1> SUFFICES ASSUME Retraced, [Next]_vars PROVE Retraced'
  OBVIOUS
<1>1. CASE Start
  BY <1>1, RetracedStart
<1>2. CASE Refuse
  BY <1>2 DEF Refuse, Retraced, Running, Passed, Done
<1>3. CASE Write
  BY <1>3, RetracedWrite
<1>4. CASE Crash
  BY <1>4, RetracedCrash
<1>5. CASE Validate
  BY <1>5, RetracedValidate
<1>6. CASE UNCHANGED vars
  BY <1>6 DEF vars, Retraced, Running, Passed, Done
<1> QED BY <1>1, <1>2, <1>3, <1>4, <1>5, <1>6 DEF Next

LEMMA FoundOrLeft ==
  ASSUME NEW w, NEW n \in 1..7, NEW d, NEW m \in 0..Len(Made(w, n)) - 1,
         Partly(d, Left(w, n - 1), Made(w, n), m), NEW f \in Names \ {"checked"}
  PROVE  d[f] = Left(w, n - 1)[f] \/ d[f] = Left(w, n)[f]
<1> DEFINE output == Made(w, n)
<1>1. Len(output) \in Nat
  BY MadeIs
<1>2. CASE \A i \in 1..m : output[i].file # f
  BY <1>2 DEF Partly
<1>3. CASE \E i \in 1..m : output[i].file = f
  <2>1. PICK i \in 1..m : output[i].file = f
    BY <1>3
  <2>2. i \in 1..Len(Output(Scripts[n], w, Left(w, n - 1)))
    BY <1>1 DEF Made
  <2>3. d[f] = output[i].content
    BY <2>1 DEF Partly
  <2>4. Left(w, n)[f] = output[i].content
    BY <2>1, <2>2, WroteFile DEF Made
  <2> QED BY <2>3, <2>4
<1> QED BY <1>2, <1>3

(* The tables do not know their services until 05 splits them.             *)
LEMMA UnsplitBy04b ==
  ASSUME NEW w
  PROVE  ~LeftBy04b(w).status.split /\ ~LeftBy04b(w).queue.split
<1>1. ~Left(w, 1).status.split /\ ~Left(w, 1).queue.split
  <2> DEFINE output == Output(Scripts[1], w, Left(w, 0))
  <2>1. output = Output04(w, Left(w, 0))
    BY ScriptsAre, OutputsAre
  <2>2. /\ Len(output) = 9 /\ output[4].file = "status" /\ output[5].file = "queue"
        /\ ~output[4].content.split /\ ~output[5].content.split
    BY <2>1 DEF Output04, Driven04, Demanded04, Scripted04, Labelled04, Ranked04, Tables04, File
  <2>3. 4 \in 1..Len(output) /\ 5 \in 1..Len(output) /\ 1 \in 1..7 /\ 1 - 1 = 0
    BY <2>2
  <2> HIDE DEF output
  <2>4. Left(w, 1)[output[4].file] = output[4].content /\ Left(w, 1)[output[5].file] = output[5].content
    BY <2>3, WroteFile DEF output
  <2> QED BY <2>2, <2>4
<1>2. Left(w, 2).status = Left(w, 1).status /\ Left(w, 2).queue = Left(w, 1).queue
  <2> DEFINE output == Output(Scripts[2], w, Left(w, 1))
  <2>1. output = Output04b(Left(w, 1))
    BY ScriptsAre, OutputsAre
  <2>2. Len(output) = 2 /\ output[1].file = "events" /\ output[2].file = "scenario"
    BY <2>1 DEF Output04b, File
  <2> HIDE DEF output
  <2>3. \A i \in 1..Len(output) : output[i].file # "status" /\ output[i].file # "queue"
    BY <2>2
  <2>4. "status" \in Names \ {"checked"} /\ "queue" \in Names \ {"checked"} /\ 2 \in 1..7 /\ 2 - 1 = 1
    BY DEF Names
  <2> QED BY <2>3, <2>4, KeptFile DEF output
<1> QED BY <1>1, <1>2, LeftAre

LEMMA RepricedShape ==
  ASSUME NEW ranking, RankShaped(ranking), NEW k, NEW wait, NEW capacity
  PROVE  /\ RankShaped(Repriced(ranking, k, wait, capacity))
         /\ DOMAIN Repriced(ranking, k, wait, capacity) = DOMAIN ranking
<1>1. RankShaped(Repriced(ranking, k, wait, capacity))
  BY RepricedIs, Zenon
<1>2. DOMAIN Repriced(ranking, k, wait, capacity) = DOMAIN ranking
  BY RepricedIs, Zenon
<1> QED BY <1>1, <1>2

(* 05b finds its events again.                                             *)
LEMMA TieEventsBy05b ==
  ASSUME NEW w \in Worlds
  PROVE  TieEvents(LeftBy05(w).ranking) # {} /\ TieEvents(LeftBy05b(w).ranking) # {}
<1> DEFINE old == LeftBy05(w)
           new == LeftBy05b(w)
<1>1. TieEvents(old.ranking) # {}
  BY WorldsAssumption DEF Suited
<1>2. DOMAIN new.ranking = DOMAIN old.ranking
  <2> DEFINE e == Chosen(old.ranking)
             best == At(old.ranking, e, 1)
             key == <<best[2], SnapshotOf(e).time>>
             needed == Needed(Lead(old.ranking, e))
  <2>1. RankShaped(old.ranking)
    BY LeftBy05Is, TableIsRanked
  <2>2. Output05b(old) = NearTied(old, e, key, best, needed)
    BY Tie05bIs
  <2>3. \E row, candidates, ranking :
          /\ NearTied(old, e, key, best, needed) = Tables05b(old, e, key, row, candidates, ranking)
          /\ DOMAIN ranking = DOMAIN old.ranking
    <3> HIDE DEF old, e, best, key, needed
    <3>1. DOMAIN Reranked(old.ranking, {e}) = DOMAIN old.ranking
      BY <2>1, RerankedIs
    <3>2. \A wait, capacity :
            DOMAIN Reranked(Repriced(old.ranking, best, wait, capacity), {e}) = DOMAIN old.ranking
      <4> TAKE wait, capacity
      <4> DEFINE priced == Repriced(old.ranking, best, wait, capacity)
      <4>1. RankShaped(priced) /\ DOMAIN priced = DOMAIN old.ranking
        BY <2>1, RepricedShape
      <4> HIDE DEF priced
      <4>2. DOMAIN Reranked(priced, {e}) = DOMAIN priced
        BY <4>1, RerankedIs
      <4> QED BY <4>1, <4>2 DEF priced
    <3> QED BY <3>1, <3>2, Zenon DEF NearTied, Tied
  <2>4. PICK row, candidates, ranking :
          /\ NearTied(old, e, key, best, needed) = Tables05b(old, e, key, row, candidates, ranking)
          /\ DOMAIN ranking = DOMAIN old.ranking
    BY <2>3
  <2>5. Output05b(old) = Tables05b(old, e, key, row, candidates, ranking)
    BY <2>2, <2>4
  <2> HIDE DEF e, key
  <2>6. new.ranking = ranking
    BY <2>5, TablesAfter05b
  <2> QED BY <2>4, <2>6
<1>3. \A r, s : DOMAIN r = DOMAIN s => TieEvents(r) = TieEvents(s)
  BY DEF TieEvents, Ranks
<1> QED BY <1>1, <1>2, <1>3

-----------------------------------------------------------------------------
(* In every reachable state.                                               *)

LEMMA RetracedAlways == Spec => []Retraced
<1>1. Init => Retraced
  BY RetracedInit
<1>2. Retraced /\ [Next]_vars => Retraced'
  BY RetracedNext
<1> QED BY <1>1, <1>2, PTL DEF Spec

(* What the validator has passed is, file by file, what an uninterrupted   *)
(* chain leaves behind: no mixture of old and new files passes, whatever   *)
(* was interrupted and run again, and nothing touches what has passed.     *)
THEOREM AcceptedIsFinal == Spec => []AcceptedMeansFinal
<1>1. Retraced => AcceptedMeansFinal
  BY DEF Retraced, Passed, AcceptedMeansFinal
<1> QED BY <1>1, RetracedAlways, PTL

(* A chain that gets to its end, after any number of interruptions, leaves *)
(* the files of one that was never interrupted: the scripts need no memory *)
(* of how far they got.                                                    *)
THEOREM FinishedIsFinal == Spec => [](Finished => Alike(disk, LeftBy07(world)))
<1>1. Retraced => (Finished => Alike(disk, LeftBy07(world)))
  BY DEF Retraced, Finished
<1> QED BY <1>1, RetracedAlways, PTL

(* A script that starts, for the first time or once more, is going to      *)
(* write what it writes when nothing is interrupted, although it reads     *)
(* some of the files it has already overwritten.                           *)
THEOREM RunsAgainTheSame == Spec => [][Start => pending' = Made(world, stage)]_vars
<1>1. Retraced /\ [Next]_vars => [Start => pending' = Made(world, stage)]_vars
  BY RetracedStart
<1> QED BY <1>1, RetracedAlways, PTL DEF Spec

LEMMA RetracedFiles ==
  ASSUME Retraced
  PROVE  Files(disk)
<1>1. CASE stage = Done
  BY <1>1 DEF Retraced, Alike
<1>2. CASE stage # Done
  BY <1>2 DEF Retraced, Running, Partly
<1> QED BY <1>1, <1>2

(* The chain gets stuck in two places only: in 05, which does not          *)
(* understand its own tables, once it has written the first of them; and   *)
(* before 05c, if the tables have no row for its target.                   *)
Stuck ==
  stopped => /\ pending = <<>>
             /\ \/ stage = 3 /\ disk.status.split
                \/ stage = 5 /\ Target \notin DOMAIN disk.status.rows

LEMMA RefuseStuck ==
  ASSUME Retraced, Refuse
  PROVE  Stuck'
<1>1. /\ world \in Worlds /\ stage \in 1..7 /\ stage # Done /\ ~Runs(Scripts[stage], disk)
      /\ UNCHANGED <<disk, stage, pending>> /\ pending = <<>>
  BY DoneIs DEF Retraced, Refuse, Idle
<1>2. PICK m \in 0..Len(Made(world, stage)) - 1 : Partly(disk, Left(world, stage - 1), Made(world, stage), m)
  BY <1>1 DEF Retraced, Running
<1>3. CASE stage = 3
  <2>1. Left(world, stage - 1) = LeftBy04b(world) /\ Scripts[stage] = "05"
    BY <1>3, ScriptsAre, LeftAre
  <2>2. Made(world, stage) = Output05(world, LeftBy04b(world))
    BY <1>3, ScriptsAre, LeftAre, OutputsAre DEF Made
  <2>3. disk.status.split \/ disk.queue.split
    BY <1>1, <2>1 DEF Runs
  <2>4. CASE m = 0
    <3>1. disk.status = LeftBy04b(world).status /\ disk.queue = LeftBy04b(world).queue
      BY <1>2, <2>1, <2>4 DEF Partly, Names
    <3> QED BY <2>3, <3>1, UnsplitBy04b
  <2>5. CASE m # 0
    <3> DEFINE output == Made(world, stage)
    <3>1. output[1].file = "status" /\ output[1].content.split
      BY <2>2 DEF Output05, Staged05, Candidates05, Labelled05, Tables05, File
    <3>2. 1 \in 1..m
      BY <1>1, <2>5, MadeIs
    <3> HIDE DEF output
    <3>3. disk[output[1].file] = output[1].content
      BY <1>2, <3>2 DEF Partly, output
    <3> QED BY <1>1, <1>3, <3>1, <3>3 DEF Stuck
  <2> QED BY <2>4, <2>5
<1>4. CASE stage = 5
  <2>1. Scripts[stage] = "05c"
    BY <1>4, ScriptsAre
  <2> QED BY <1>1, <1>4, <2>1 DEF Runs, Stuck
<1>5. CASE stage = 4
  <2>1. Scripts[stage] = "05b"
    BY <1>5, ScriptsAre
  <2>2. TieEvents(disk.ranking) = {}
    BY <1>1, <2>1 DEF Runs
  <2>3. "ranking" \in Names \ {"checked"} /\ stage - 1 = 3
    BY <1>5 DEF Names
  <2>4. disk.ranking = Left(world, 3).ranking \/ disk.ranking = Left(world, 4).ranking
    BY <1>1, <1>2, <1>5, <2>3, FoundOrLeft
  <2> QED BY <1>1, <2>2, <2>4, LeftAre, TieEventsBy05b
<1>6. CASE stage \notin {3, 4, 5}
  <2>1. Scripts[stage] \in {"04", "04b", "06", "07"}
    BY <1>1, <1>6 DEF Scripts
  <2> HIDE DEF Scripts
  <2>2. Runs(Scripts[stage], disk)
    BY <2>1 DEF Runs
  <2> QED BY <1>1, <2>2
<1> QED BY <1>3, <1>4, <1>5, <1>6

THEOREM StuckOnlyThere == Spec => []Stuck
<1>1. Init => Stuck
  BY DEF Init, Stuck
<1>2. Retraced /\ Retraced' /\ Stuck /\ [Next]_vars => Stuck'
  <2> SUFFICES ASSUME Retraced, Retraced', Stuck, [Next]_vars
               PROVE  Stuck'
    OBVIOUS
  <2>1. CASE Start
    BY <2>1 DEF Start, Idle, Stuck
  <2>2. CASE Refuse
    BY <2>2, RefuseStuck
  <2>3. CASE Write
    BY <2>3 DEF Write, Stuck
  <2>4. CASE Crash
    BY <2>4 DEF Crash, Stuck
  <2>5. CASE Validate
    <3>1. disk'.status = disk.status
      <4>1. disk = [f \in Names |-> disk[f]]
        BY RetracedFiles DEF Files
      <4>2. disk' = disk \/ disk' = [disk EXCEPT !.checked = Upheld(disk)]
        BY <2>5 DEF Validate
      <4>3. "status" \in Names
        BY DEF Names
      <4> QED BY <4>1, <4>2, <4>3
    <3> QED BY <2>5, <3>1 DEF Validate, Stuck
  <2>6. CASE UNCHANGED vars
    BY <2>6 DEF vars, Stuck
  <2> QED BY <2>1, <2>2, <2>3, <2>4, <2>5, <2>6 DEF Next
<1> QED BY <1>1, <1>2, RetracedAlways, PTL DEF Spec

(* The variables have their types: whatever is still to be written has a   *)
(* place among the files.                                                  *)
THEOREM TypeCorrect == Spec => []TypeOK
<1> DEFINE Flagged == stopped \in BOOLEAN
           Judgement == verdict \in {"none", "PASS", "FAIL"}
           Counted == crashes \in 0..MaxCrashes
<1>1. Init => Flagged /\ Judgement /\ Counted
  <2>1. Init => Flagged
    BY DEF Init
  <2>2. Init => Judgement
    BY DEF Init
  <2>3. Init => Counted
    BY CrashesAssumption DEF Init
  <2> QED BY <2>1, <2>2, <2>3
<1>2. Flagged /\ Judgement /\ Counted /\ [Next]_vars => (Flagged /\ Judgement /\ Counted)'
  <2>1. Flagged /\ [Next]_vars => Flagged'
    BY DEF Next, vars, Start, Refuse, Write, Crash, Validate
  <2>2. Judgement /\ [Next]_vars => Judgement'
    BY DEF Next, vars, Start, Refuse, Write, Crash, Validate
  <2>3. Counted /\ [Next]_vars => Counted'
    BY CrashesAssumption DEF Next, vars, Start, Refuse, Write, Crash, Validate
  <2> QED BY <2>1, <2>2, <2>3
<1>3. Retraced => \A i \in DOMAIN pending : pending[i].file \in DOMAIN disk
  <2> SUFFICES ASSUME Retraced, NEW i \in DOMAIN pending
               PROVE  pending[i].file \in DOMAIN disk
    OBVIOUS
  <2>1. CASE pending = <<>>
    BY <2>1
  <2>2. CASE pending # <<>>
    <3> DEFINE output == Made(world, stage)
               n == Len(output)
    <3>1. stage # Done /\ stage \in 1..7
      BY <2>2, DoneIs DEF Retraced
    <3>2. PICK m \in 0..n - 1 : Running(world, stage, m)
      BY <3>1 DEF Retraced
    <3>3. PICK j \in 1..m + 1 : pending = SubSeq(output, j, n)
      BY <2>2, <3>2 DEF Running
    <3>4. DOMAIN disk = Names
      BY <3>2 DEF Running, Partly, Files
    <3>5. Proper(output) /\ n \in Nat
      BY <3>1, MadeIs
    <3>6. PICK S : output \in Seq(S)
      BY <3>5 DEF Proper
    <3> HIDE DEF output
    <3>7. j \in 1..n /\ \A k \in j..n : output[k] \in S
      BY <3>5, <3>6
    <3>8. /\ pending \in Seq(S) /\ Len(pending) = n - j + 1
          /\ \A k \in 1..n - j + 1 : pending[k] = output[j + k - 1]
      BY <3>3, <3>5, <3>7, SubSeqProperties
    <3>9. i \in 1..n - j + 1 /\ j + i - 1 \in 1..n
      BY <3>5, <3>7, <3>8
    <3>10. output[j + i - 1].file \in Names
      BY <3>5, <3>9 DEF Proper
    <3> QED BY <3>4, <3>8, <3>9, <3>10
  <2> QED BY <2>1, <2>2
<1>4. Retraced /\ Flagged /\ Judgement /\ Counted => TypeOK
  BY <1>3 DEF Retraced, TypeOK
<1> QED BY <1>1, <1>2, <1>4, RetracedAlways, PTL DEF Spec
-----------------------------------------------------------------------------
(* Numbers: fractions keep their value (as in DecisionsProofs), and the    *)
(* rounded ones stay within whole bounds.                                  *)

LEMMA ExactDivision ==
  ASSUME NEW n \in Int, NEW g \in Nat \ {0}, n % g = 0
  PROVE  n \div g \in Int /\ n = g * (n \div g)
<1>1. n = g * (n \div g) + (n % g) /\ n \div g \in Int
  OBVIOUS
<1> QED BY <1>1

LEMMA ReducedValue ==
  ASSUME NEW n \in Int, NEW d \in Nat \ {0}, NEW g
  PROVE  Reduced(n, d, g) \in Fraction /\ Reduced(n, d, g).n * d = n * Reduced(n, d, g).d
<1>1. CASE n = 0
  BY <1>1 DEF Reduced, Zero, Whole, Fraction
<1>2. CASE n # 0 /\ g \in Nat \ {0} /\ n % g = 0 /\ d % g = 0
  <2>1. PICK m \in Int, e \in Int : m = n \div g /\ e = d \div g /\ n = g * m /\ d = g * e
    BY <1>2, ExactDivision
  <2>2. e > 0
    BY <1>2, <2>1
  <2>3. Reduced(n, d, g) = [n |-> m, d |-> e]
    BY <1>2, <2>1 DEF Reduced
  <2>4. m * (g * e) = (g * m) * e
    BY <1>2, <2>1
  <2>5. m * d = n * e
    BY <2>1, <2>4
  <2> QED BY <2>2, <2>3, <2>5 DEF Fraction
<1>3. CASE n # 0 /\ ~(g \in Nat \ {0} /\ n % g = 0 /\ d % g = 0)
  BY <1>3 DEF Reduced, Fraction
<1> QED BY <1>1, <1>2, <1>3

LEMMA QValue ==
  ASSUME NEW n \in Int, NEW d \in Nat \ {0}
  PROVE  Q(n, d) \in Fraction /\ Q(n, d).n * d = n * Q(n, d).d
BY ReducedValue, Zenon DEF Q

LEMMA QZero ==
  ASSUME NEW d
  PROVE  Q(0, d) = Zero /\ Zero \in Fraction /\ Zero.n = 0 /\ Zero.d = 1
<1>1. Q(0, d) = Zero
  BY Zenon DEF Q, Reduced
<1> QED BY <1>1 DEF Zero, Whole, Fraction

LEMMA QBounds ==
  ASSUME NEW n \in Nat, NEW d \in Nat \ {0}, NEW b \in Nat, n <= b * d
  PROVE  Q(n, d) \in Fraction /\ Q(n, d).n >= 0 /\ Q(n, d).n <= b * Q(n, d).d
<1>0. Q(n, d) \in Fraction /\ Q(n, d).n * d = n * Q(n, d).d
  BY QValue
<1>1. PICK x \in Int, y \in Nat \ {0} : x = Q(n, d).n /\ y = Q(n, d).d /\ x * d = n * y
  <2> HIDE DEF Q
  <2> QED BY <1>0 DEF Fraction
<1>2. n * y <= (b * d) * y /\ n * y >= 0
  OBVIOUS
<1>3. (b * d) * y = (b * y) * d
  OBVIOUS
<1>4. PICK z \in Int : z = b * y
  OBVIOUS
<1>5. x * d <= z * d /\ x * d >= 0
  BY <1>1, <1>2, <1>3, <1>4
<1>6. x <= z /\ x >= 0
  BY <1>5
<1> QED BY <1>1, <1>4, <1>6, QValue

LEMMA NearestBounds ==
  ASSUME NEW a \in Fraction
  PROVE  /\ Nearest(a) \in Int
         /\ Nearest(a) * (2 * a.d) <= 2 * a.n + a.d
         /\ 2 * a.n + a.d < (Nearest(a) + 1) * (2 * a.d)
<1>1. PICK n \in Int, d \in Nat \ {0} : n = a.n /\ d = a.d
  BY DEF Fraction
<1>2. PICK x \in Int, y \in Nat \ {0} : x = 2 * n + d /\ y = 2 * d
  OBVIOUS
<1>3. PICK q \in Int, r \in 0..y - 1 : q = x \div y /\ x = y * q + r
  <2>1. x \div y \in Int /\ x = y * (x \div y) + (x % y) /\ x % y \in 0..y - 1
    OBVIOUS
  <2> QED BY <2>1
<1>4. q * y <= x /\ x < (q + 1) * y
  BY <1>3
<1>5. Nearest(a) = q
  BY <1>1, <1>2, <1>3 DEF Nearest
<1> QED BY <1>1, <1>2, <1>4, <1>5

LEMMA HalfEvenType ==
  ASSUME NEW a \in Fraction
  PROVE  HalfEven(a) \in Int
BY NearestBounds DEF HalfEven

(* A share of a queue is no more than the queue.                           *)
LEMMA HalfEvenBounds ==
  ASSUME NEW a \in Fraction, NEW b \in Nat, a.n >= 0, a.n <= b * a.d
  PROVE  HalfEven(a) \in 0..b
<1>1. PICK n \in Nat, d \in Nat \ {0}, q \in Int :
         /\ n = a.n /\ d = a.d /\ q = Nearest(a) /\ q * (2 * d) <= 2 * n + d
         /\ 2 * n + d < (q + 1) * (2 * d) /\ n <= b * d
  BY NearestBounds DEF Fraction
<1>2. q >= 0
  <2>1. (q + 1) * (2 * d) > 0
    BY <1>1
  <2> QED BY <2>1
<1>3. q <= b
  <2>1. q * (2 * d) <= 2 * (b * d) + d
    BY <1>1
  <2>2. 2 * (b * d) + d < (b + 1) * (2 * d)
    OBVIOUS
  <2>3. q * (2 * d) < (b + 1) * (2 * d)
    BY <2>1, <2>2
  <2>4. PICK y \in Nat \ {0} : y = 2 * d
    OBVIOUS
  <2>5. q * y < (b + 1) * y
    BY <2>3, <2>4
  <2>6. q < b + 1
    BY <2>5
  <2> QED BY <2>6
<1>4. HalfEven(a) = q \/ (HalfEven(a) = q - 1 /\ q % 2 = 1)
  BY <1>1 DEF HalfEven
<1> QED BY <1>2, <1>3, <1>4

LEMMA HalfEvenZero == HalfEven(Zero) = 0
<1>1. Zero \in Fraction /\ Zero.n = 0 /\ Zero.d = 1
  BY QZero
<1>2. HalfEven(Zero) \in 0..0
  BY <1>1, HalfEvenBounds
<1> QED BY <1>2

LEMMA CeilingType ==
  ASSUME NEW n \in Nat, NEW d \in Nat \ {0}
  PROVE  Ceiling(Q(n, d)) \in Nat /\ (n = 0 => Ceiling(Q(n, d)) = 0)
<1>1. PICK x \in Nat, y \in Nat \ {0} : x = Q(n, d).n /\ y = Q(n, d).d
  <2>1. n <= n * d
    OBVIOUS
  <2>2. Q(n, d).n >= 0 /\ Q(n, d) \in Fraction
    BY <2>1, QBounds
  <2> QED BY <2>2 DEF Fraction
<1>2. (-x) \div y <= 0 /\ (-x) \div y \in Int
  OBVIOUS
<1>3. n = 0 => Q(n, d).n = 0 /\ Q(n, d).d = 1
  BY QZero
<1> QED BY <1>1, <1>2, <1>3 DEF Ceiling

-----------------------------------------------------------------------------
(* What 06 and 07 rebuild from a row is the row, if the queues they add up *)
(* are split the way they were.                                            *)
RowShape(r) == r = [status |-> r.status, free |-> r.free, busy |-> r.busy, batteries |-> r.batteries]

Pooled(q) == q.length["CHARGING"] + q.length["BATTERY_SWAP"]

(* Who waits is served, by all places that are taken.                      *)
Attended(s, r, q, v) ==
  /\ r.free[v] <= Slots(s)[v]
  /\ q.wait[v] = Wait(v, q.length[v], q.active[v])
  /\ q.length[v] > 0 => q.active[v] > 0
  /\ q.active[v] > 0 => r.busy[v] = q.active[v] /\ r.free[v] = Slots(s)[v] - r.busy[v]

Fits(s, r, q) ==
  /\ RowShape(r) /\ QueueShape(q)
  /\ r.free \in [Services -> Nat] /\ r.busy \in [Services -> Nat]
  /\ q.length \in [Services -> Nat] /\ q.active \in [Services -> Nat]
  /\ \A v \in Services : Attended(s, r, q, v)
  /\ r.status # "OPEN" => /\ r.free = None2 /\ r.batteries = 0
                          /\ q.length = None2 /\ q.active = None2
  /\ SplitQueue(s, Rebuilt(s, r), Pooled(q)) = q.length

LEMMA SlotsType ==
  ASSUME NEW s \in Stations
  PROVE  /\ Slots(s) \in [Services -> Nat] /\ Services = {"CHARGING", "BATTERY_SWAP"}
         /\ Total(s) = Slots(s)["CHARGING"] + Slots(s)["BATTERY_SWAP"] /\ Total(s) \in Nat
         /\ GenericTime(s) \in Nat \ {0} /\ \A v \in Services : ServiceTime[v] \in Nat \ {0}
<1>1. Slots(s) \in [Services -> Nat]
  BY SiteAssumption DEF Slots
<1>2. ServiceTime \in [Services -> Nat \ {0}]
  BY ServiceTimeAssumption
<1> QED BY <1>1, <1>2 DEF Services, Total, GenericTime

LEMMA BothIs ==
  ASSUME NEW a, NEW b
  PROVE  /\ Both(a, b) = [v \in Services |-> Both(a, b)[v]]
         /\ Both(a, b)["CHARGING"] = a /\ Both(a, b)["BATTERY_SWAP"] = b
BY DEF Both, Services

LEMMA None2Is ==
  None2 \in [Services -> Nat] /\ \A v \in Services : None2[v] = 0
BY BothIs DEF None2, Both, Services

(* The share of the chargers in the queue of a mixed station.              *)
LEMMA ShareType ==
  ASSUME NEW length \in Nat, NEW c \in Nat, NEW w \in Nat, c + w > 0
  PROVE  /\ HalfEven(Q(length * c, c + w)) \in 0..length
         /\ c = 0 => HalfEven(Q(length * c, c + w)) = 0
<1>1. length * c \in Nat /\ length * c <= length * (c + w) /\ c + w \in Nat \ {0}
  <2>1. length * (c + w) = length * c + length * w /\ length * w >= 0 /\ length * c >= 0
    OBVIOUS
  <2> QED BY <2>1
<1>2. /\ Q(length * c, c + w) \in Fraction /\ Q(length * c, c + w).n >= 0
      /\ Q(length * c, c + w).n <= length * Q(length * c, c + w).d
  BY <1>1, QBounds
<1>3. HalfEven(Q(length * c, c + w)) \in 0..length
  <2> DEFINE a == Q(length * c, c + w)
  <2>1. a \in Fraction /\ a.n >= 0 /\ a.n <= length * a.d
    BY <1>2
  <2> HIDE DEF a
  <2>2. HalfEven(a) \in 0..length
    BY <2>1, HalfEvenBounds
  <2> QED BY <2>2 DEF a
<1>4. c = 0 => HalfEven(Q(length * c, c + w)) = 0
  <2> SUFFICES ASSUME c = 0 PROVE HalfEven(Q(length * c, c + w)) = 0
    OBVIOUS
  <2>1. length * c = 0
    OBVIOUS
  <2> QED BY <2>1, QZero, HalfEvenZero
<1> QED BY <1>3, <1>4

LEMMA SplitQueueType ==
  ASSUME NEW s \in Stations, NEW row, NEW length \in Nat, row.busy \in [Services -> Nat]
  PROVE  /\ SplitQueue(s, row, length) \in [Services -> Nat]
         /\ \A v \in Services : SplitQueue(s, row, length)[v] > 0 =>
              row.busy[v] > 0 \/ (Single(s, v) /\ length > 0)
         /\ length = 0 => SplitQueue(s, row, length) = None2
         /\ SplitQueue(s, row, SplitQueue(s, row, length)["CHARGING"]
                               + SplitQueue(s, row, length)["BATTERY_SWAP"]) = SplitQueue(s, row, length)
<1> DEFINE c == row.busy["CHARGING"]
           w == row.busy["BATTERY_SWAP"]
           share(n) == IF w = 0 THEN n ELSE HalfEven(Q(n * c, c + w))
<1>1. c \in Nat /\ w \in Nat
  BY DEF Services
<1>2. \A n \in Nat : c + w > 0 =>
        /\ share(n) \in 0..n
        /\ c = 0 => share(n) = 0
  <2> TAKE n \in Nat
  <2> HAVE c + w > 0
  <2>1. CASE w = 0
    BY <1>1, <2>1
  <2>2. CASE w # 0
    <3>1. HalfEven(Q(n * c, c + w)) \in 0..n /\ (c = 0 => HalfEven(Q(n * c, c + w)) = 0)
      <4> HIDE DEF c, w
      <4> QED BY <1>1, ShareType
    <3> QED BY <2>2, <3>1
  <2> QED BY <2>1, <2>2
<1>3. \A n :
        SplitQueue(s, row, n) =
          IF row.status # "OPEN" THEN None2
          ELSE IF Single(s, "CHARGING") THEN Both(n, 0)
          ELSE IF Single(s, "BATTERY_SWAP") THEN Both(0, n)
          ELSE IF c + w = 0 THEN None2
          ELSE Both(share(n), n - share(n))
  BY DEF SplitQueue
<1> HIDE DEF share
<1>4. CASE row.status # "OPEN" \/ (~Single(s, "CHARGING") /\ ~Single(s, "BATTERY_SWAP") /\ c + w = 0)
  BY <1>3, <1>4, None2Is
<1>5. CASE row.status = "OPEN" /\ Single(s, "CHARGING")
  BY <1>3, <1>5 DEF Both, Services, None2
<1>6. CASE row.status = "OPEN" /\ ~Single(s, "CHARGING") /\ Single(s, "BATTERY_SWAP")
  BY <1>3, <1>6 DEF Both, Services, None2
<1>7. CASE row.status = "OPEN" /\ ~Single(s, "CHARGING") /\ ~Single(s, "BATTERY_SWAP") /\ c + w > 0
  <2> DEFINE x == share(length)
  <2>1. SplitQueue(s, row, length) = Both(x, length - x) /\ x \in 0..length
    BY <1>1, <1>2, <1>3, <1>7
  <2>2. (c = 0 => x = 0) /\ (w = 0 => x = length)
    BY <1>1, <1>2, <1>7 DEF share
  <2> HIDE DEF x
  <2>3. Both(x, length - x) \in [Services -> Nat] /\ Both(x, length - x)["CHARGING"] = x
        /\ Both(x, length - x)["BATTERY_SWAP"] = length - x
    BY <2>1, BothIs DEF Both, Services
  <2>4. x + (length - x) = length
    BY <2>1
  <2>5. \A v \in Services : Both(x, length - x)[v] > 0 => row.busy[v] > 0
    <3>1. x > 0 => c > 0
      BY <1>1, <2>2
    <3>2. length - x > 0 => w > 0
      BY <1>1, <2>1, <2>2
    <3> QED BY <2>3, <3>1, <3>2 DEF Services
  <2>6. length = 0 => Both(x, length - x) = None2
    BY <2>1 DEF None2
  <2> QED BY <2>1, <2>3, <2>4, <2>5, <2>6
<1> QED BY <1>1, <1>4, <1>5, <1>6, <1>7

(* A row before 05: nobody waits where nobody is served.                   *)
Before05(s, r) ==
  /\ StationShape(r) /\ r.occupied \in Int /\ r.queue \in Nat /\ r.batteries \in Nat
  /\ Total(s) > 0 => r.occupied >= 0
  /\ r.queue > 0 /\ Total(s) > 0 => r.occupied > 0

LEMMA ChargingType ==
  ASSUME NEW s \in Stations, NEW occupied \in Int, NEW bias \in Int
  PROVE  Charging(s, occupied, bias) \in 0..Slots(s)["CHARGING"]
<1> DEFINE ch == Slots(s)["CHARGING"]
           sw == Slots(s)["BATTERY_SWAP"]
           part == HalfEven(Q(occupied * ch, ch + sw))
           wanted == Most2(0, Least2(ch, part + bias))
<1>1. ch \in Nat /\ sw \in Nat
  BY SlotsType DEF Services
<1>2. part \in Int
  <2>1. CASE ch + sw > 0
    <3>1. occupied * ch \in Int /\ ch + sw \in Nat \ {0}
      BY <1>1, <2>1
    <3> HIDE DEF ch, sw
    <3>2. Q(occupied * ch, ch + sw) \in Fraction
      BY <3>1, QValue
    <3> QED BY <3>2, HalfEvenType DEF ch, sw
  <2>2. CASE ch + sw = 0
    <3>1. ch = 0 /\ occupied * ch = 0
      BY <1>1, <2>2
    <3>2. part = HalfEven(Q(0, ch + sw))
      BY <3>1
    <3> QED BY <3>2, QZero, HalfEvenZero
  <2> QED BY <1>1, <2>1, <2>2
<1>3. Charging(s, occupied, bias) = IF occupied - wanted > sw THEN Least2(ch, occupied - sw) ELSE wanted
  BY DEF Charging
<1> HIDE DEF ch, sw, part
<1>4. wanted \in 0..ch
  BY <1>1, <1>2 DEF Most2, Least2
<1> HIDE DEF wanted
<1>5. CASE occupied - wanted > sw
  <2>1. occupied - sw > wanted
    BY <1>1, <1>4, <1>5
  <2>2. Least2(ch, occupied - sw) \in 0..ch
    BY <1>1, <1>4, <2>1 DEF Least2
  <2> QED BY <1>3, <1>5, <2>2 DEF ch
<1>6. CASE ~(occupied - wanted > sw)
  BY <1>3, <1>4, <1>6 DEF ch
<1> QED BY <1>5, <1>6

LEMMA SplitBusyType ==
  ASSUME NEW s \in Stations, NEW occupied \in Int, NEW bias \in Int, Total(s) > 0 => occupied >= 0
  PROVE  /\ SplitBusy(s, occupied, bias) \in [Services -> Nat]
         /\ \A v \in Services : /\ SplitBusy(s, occupied, bias)[v] <= Slots(s)[v]
                                /\ Single(s, v) /\ occupied > 0 => SplitBusy(s, occupied, bias)[v] > 0
<1> DEFINE ch == Slots(s)["CHARGING"]
           sw == Slots(s)["BATTERY_SWAP"]
           total == Least2(occupied, ch + sw)
           c == Charging(s, total, bias)
           w == Least2(sw, Most2(0, total - c))
<1>1. ch \in Nat /\ sw \in Nat /\ Slots(s) \in [Services -> Nat] /\ Services = {"CHARGING", "BATTERY_SWAP"}
      /\ Total(s) = ch + sw
  BY SlotsType
<1>2. CASE \E v \in Services : Single(s, v)
  <2>1. SplitBusy(s, occupied, bias) = [v \in Services |-> Least2(Slots(s)[v], occupied)]
    BY <1>2 DEF SplitBusy
  <2>2. occupied >= 0
    BY <1>1, <1>2 DEF Single
  <2>3. \A v \in Services : Least2(Slots(s)[v], occupied) \in 0..Slots(s)[v]
    BY <1>1, <2>2 DEF Least2
  <2>4. \A v \in Services : Slots(s)[v] > 0 /\ occupied > 0 => Least2(Slots(s)[v], occupied) > 0
    BY <1>1 DEF Least2
  <2> QED BY <1>1, <2>1, <2>3, <2>4 DEF Single
<1>3. CASE ~\E v \in Services : Single(s, v)
  <2>1. SplitBusy(s, occupied, bias) = Both(c, w)
    BY <1>3 DEF SplitBusy
  <2>2. total \in Int
    BY <1>1 DEF Least2
  <2> HIDE DEF total
  <2>3. c \in 0..ch
    BY <2>2, ChargingType
  <2> HIDE DEF c
  <2>4. w \in 0..sw
    BY <1>1, <2>2, <2>3 DEF Least2, Most2
  <2> HIDE DEF w
  <2> QED BY <1>1, <1>3, <2>1, <2>3, <2>4 DEF Both
<1> QED BY <1>2, <1>3

LEMMA WaitNone ==
  ASSUME NEW v, NEW length \in Nat, NEW active
  PROVE  length = 0 => Wait(v, length, active) = Zero
BY DEF Wait

(* 05 splits it.                                                           *)
LEMMA SplitFits ==
  ASSUME NEW s \in Stations, NEW old, Before05(s, old), NEW bias \in Int
  PROVE  Fits(s, SplitStatus(s, old, bias), ServiceQueue(s, SplitStatus(s, old, bias), old.queue))
<1> DEFINE r == SplitStatus(s, old, bias)
           q == ServiceQueue(s, r, old.queue)
           b == SplitBusy(s, old.occupied, bias)
           split == SplitQueue(s, r, old.queue)
<1>1. old.queue \in Nat /\ old.occupied \in Int /\ (Total(s) > 0 => old.occupied >= 0)
      /\ (old.queue > 0 /\ Total(s) > 0 => old.occupied > 0)
  BY DEF Before05
<1>2. QueueShape(q)
  BY SplitShape
<1>3. CASE old.status # "OPEN"
  <2>1. r = [status |-> old.status, free |-> None2, busy |-> None2, batteries |-> 0]
    BY <1>3 DEF SplitStatus
  <2>2. split = None2 /\ SplitQueue(s, Rebuilt(s, r), Pooled(q)) = None2
    BY <1>3, <2>1 DEF SplitQueue, Rebuilt
  <2>3. q.length = None2 /\ q.active = None2 /\ q.wait = [v \in Services |-> Wait(v, None2[v], None2[v])]
    BY <1>3, <2>1, <2>2 DEF ServiceQueue, QueueRow
  <2> HIDE DEF r, q
  <2>4. \A v \in Services : Attended(s, r, q, v)
    BY <2>1, <2>3, None2Is, SlotsType DEF Attended
  <2>5. RowShape(r)
    BY <2>1 DEF RowShape
  <2> QED BY <1>2, <1>3, <2>1, <2>2, <2>3, <2>4, <2>5, None2Is DEF Fits, r, q
<1>4. CASE old.status = "OPEN"
  <2>1. /\ b \in [Services -> Nat]
        /\ \A v \in Services : b[v] <= Slots(s)[v] /\ (Single(s, v) /\ old.occupied > 0 => b[v] > 0)
    BY <1>1, SplitBusyType
  <2>2. r.status = "OPEN" /\ r.free = Free(s, b) /\ r.busy = b /\ RowShape(r)
    BY <1>4 DEF SplitStatus, OpenRow, RowShape
  <2> HIDE DEF b, r
  <2>3. /\ split \in [Services -> Nat]
        /\ \A v \in Services : split[v] > 0 => r.busy[v] > 0 \/ (Single(s, v) /\ old.queue > 0)
        /\ SplitQueue(s, r, split["CHARGING"] + split["BATTERY_SWAP"]) = split
    BY <1>1, <2>1, <2>2, SplitQueueType
  <2>4. q.length = split /\ q.active = b /\ q.wait = [v \in Services |-> Wait(v, split[v], b[v])]
    BY <2>2 DEF ServiceQueue, QueueRow
  <2> HIDE DEF q, split
  <2>5. \A v \in Services : Single(s, v) => Total(s) > 0
    BY SlotsType DEF Single
  <2>6. \A v \in Services : split[v] > 0 => b[v] > 0
    BY <1>1, <2>1, <2>2, <2>3, <2>5
  <2>7. r.free = [v \in Services |-> Slots(s)[v] - b[v]]
    BY <2>2 DEF Free
  <2>8. /\ \A v \in Services : r.free[v] = Slots(s)[v] - b[v] /\ r.free[v] \in Nat /\ r.free[v] <= Slots(s)[v]
        /\ r.free \in [Services -> Nat]
    BY <2>1, <2>7, SlotsType
  <2>9. \A v \in Services : Attended(s, r, q, v)
    BY <2>2, <2>4, <2>6, <2>8 DEF Attended
  <2>10. /\ Rebuilt(s, r).status = "OPEN" /\ Rebuilt(s, r).busy = b
    <3> DEFINE free == [v \in Services |-> Least2(Slots(s)[v], r.free[v])]
    <3>1. free = [v \in Services |-> Slots(s)[v] - b[v]]
      BY <2>8, SlotsType DEF Least2
    <3>2. Rebuilt(s, r).status = "OPEN" /\ Rebuilt(s, r).busy = Free(s, free)
      BY <2>2 DEF Rebuilt
    <3> HIDE DEF free
    <3>3. Free(s, free) = [v \in Services |-> b[v]]
      BY <2>1, <3>1, SlotsType DEF Free
    <3> QED BY <2>1, <3>2, <3>3
  <2>11. \A n : SplitQueue(s, Rebuilt(s, r), n) = SplitQueue(s, r, n)
    BY <2>2, <2>10 DEF SplitQueue
  <2>12. SplitQueue(s, Rebuilt(s, r), Pooled(q)) = q.length
    BY <2>3, <2>4, <2>11 DEF Pooled
  <2> QED BY <1>2, <2>1, <2>2, <2>3, <2>4, <2>8, <2>9, <2>12 DEF Fits, q, r
<1> QED BY <1>3, <1>4

-----------------------------------------------------------------------------
(* 04 stages no row where somebody waits and nobody is served.             *)
LEMMA RestockedType ==
  ASSUME NEW s \in Stations, NEW batteries \in Nat
  PROVE  Restocked(s, batteries) \in Nat
BY SlotsType DEF Restocked, Services

LEMMA QueuedBefore ==
  ASSUME NEW s \in Stations, NEW row, StationShape(row), row.batteries \in Nat,
         NEW available \in Nat, NEW target \in Nat
  PROVE  Before05(s, Queued(s, row, available, target))
<1> DEFINE o == Most2(1, Total(s) - Most2(1, Least2(available, Total(s) - 1)))
           q == Ceiling(Q(target * o, GenericTime(s)))
<1>1. o \in Nat /\ o > 0
  BY SlotsType DEF Most2, Least2
<1>2. q \in Nat
  <2>1. target * o \in Nat /\ GenericTime(s) \in Nat \ {0}
    BY <1>1, SlotsType
  <2> HIDE DEF o
  <2> QED BY <2>1, CeilingType
<1>3. Queued(s, row, available, target) = [row EXCEPT !.status = "OPEN", !.occupied = o, !.queue = q]
  BY DEF Queued
<1> HIDE DEF o, q
<1>4. [row EXCEPT !.status = "OPEN", !.occupied = o, !.queue = q]
        = [status |-> "OPEN", occupied |-> o, batteries |-> row.batteries, queue |-> q]
  <2> DEFINE a == row.status
             b == row.occupied
             c == row.batteries
             e == row.queue
  <2>1. row = [status |-> a, occupied |-> b, batteries |-> c, queue |-> e]
    BY DEF StationShape
  <2> DEFINE new == [row EXCEPT !.status = "OPEN", !.occupied = o, !.queue = q]
  <2>2. new = [row EXCEPT !.status = "OPEN", !.occupied = o, !.queue = q]
    OBVIOUS
  <2> HIDE DEF a, b, c, e, new
  <2>3. new = [status |-> "OPEN", occupied |-> o, batteries |-> c, queue |-> q]
    BY <2>1, <2>2
  <2> QED BY <2>3 DEF c, new
<1> QED BY <1>1, <1>2, <1>3, <1>4 DEF Before05, StationShape

LEMMA OpenedBefore ==
  ASSUME NEW s \in Stations, NEW row, StationShape(row), row.batteries \in Nat,
         NEW available \in Nat, NEW target \in Nat
  PROVE  Before05(s, Opened(s, row, available, target))
<1> DEFINE free == Most2(1, Least2(available, Total(s)))
           o == Total(s) - free
           open == [row EXCEPT !.status = "OPEN", !.occupied = o, !.queue = 0, !.batteries = Restocked(s, @)]
<1>1. free \in Nat /\ o \in Int /\ (Total(s) > 0 => o >= 0)
  BY SlotsType DEF Most2, Least2
<1>2. Opened(s, row, available, target) = IF target > 0 THEN Queued(s, open, free, target) ELSE open
  BY DEF Opened
<1> HIDE DEF free, o
<1>3. open = [status |-> "OPEN", occupied |-> o, queue |-> 0, batteries |-> Restocked(s, row.batteries)]
  BY PutSame
<1> HIDE DEF open
<1>4. Before05(s, open)
  BY <1>1, <1>3, RestockedType DEF Before05, StationShape
<1>5. Before05(s, Queued(s, open, free, target))
  BY <1>1, <1>4, QueuedBefore DEF Before05
<1> QED BY <1>2, <1>4, <1>5

LEMMA BecomeBefore ==
  ASSUME NEW p, p.station \in Stations, NEW row, StationShape(row), row.batteries \in Nat,
         p.available \in Nat, p.wait \in Nat
  PROVE  Before05(p.station, Become(row, p))
<1> DEFINE s == p.station
<1>1. CASE p.to = "OPEN"
  BY <1>1, OpenedBefore DEF Become
<1>2. CASE p.to = "FULL"
  <2>1. Become(row, p) = [row EXCEPT !.status = "OPEN", !.occupied = Total(s), !.queue = 3,
                                     !.batteries = Restocked(s, @)]
    BY <1>2 DEF Become, Filled
  <2>2. Become(row, p) = [status |-> "OPEN", occupied |-> Total(s), queue |-> 3,
                          batteries |-> Restocked(s, row.batteries)]
    BY <2>1, PutSame
  <2>3. Total(s) \in Nat /\ Restocked(s, row.batteries) \in Nat
    BY SlotsType, RestockedType
  <2> QED BY <2>2, <2>3 DEF Before05, StationShape
<1>3. CASE p.to = "OFFLINE"
  <2>1. Become(row, p) = [row EXCEPT !.status = "OFFLINE", !.occupied = 0, !.batteries = 0, !.queue = 0]
    BY <1>3 DEF Become, Offline
  <2>2. Become(row, p) = [status |-> "OFFLINE", occupied |-> 0, batteries |-> 0, queue |-> 0]
    BY <2>1 DEF StationShape
  <2> QED BY <2>2 DEF Before05, StationShape
<1>4. CASE p.to \notin {"OPEN", "FULL", "OFFLINE"}
  <2> DEFINE x == Queued(s, row, p.available, p.wait)
  <2>1. Become(row, p) = [x EXCEPT !.batteries = Restocked(s, @)]
    BY <1>4 DEF Become
  <2>2. Before05(s, x)
    BY QueuedBefore
  <2> HIDE DEF x
  <2>3. Become(row, p) = [status |-> x.status, occupied |-> x.occupied,
                          batteries |-> Restocked(s, x.batteries), queue |-> x.queue]
    BY <2>1, <2>2 DEF Before05, StationShape
  <2>4. Restocked(s, x.batteries) \in Nat
    BY <2>2, RestockedType DEF Before05
  <2> QED BY <2>2, <2>3, <2>4 DEF Before05, StationShape
<1> QED BY <1>1, <1>2, <1>3, <1>4

Ready(rows) ==
  /\ rows = [k \in DOMAIN rows |-> rows[k]] /\ DOMAIN rows \subseteq Stations \X Nat
  /\ \A k \in DOMAIN rows : Before05(k[1], rows[k])

LEMMA OnceReady ==
  ASSUME NEW rows, Ready(rows), NEW p, p.available \in Nat, p.wait \in Nat
  PROVE  Ready(StagedOnce(rows, p)) /\ DOMAIN StagedOnce(rows, p) = DOMAIN rows
<1> DEFINE key == <<p.station, p.time>>
           row == Become(rows[key], p)
           new == [rows EXCEPT ![key] = row]
<1>1. CASE key \notin DOMAIN rows
  BY <1>1 DEF StagedOnce
<1>2. CASE key \in DOMAIN rows
  <2>1. StagedOnce(rows, p) = new
    BY <1>2 DEF StagedOnce
  <2>2. key \in Stations \X Nat /\ StationShape(rows[key]) /\ rows[key].batteries \in Nat
    BY <1>2 DEF Ready, Before05
  <2>3. p.station \in Stations /\ key[1] = p.station
    BY <2>2
  <2>4. Before05(key[1], row)
    BY <2>2, <2>3, BecomeBefore
  <2> HIDE DEF row, key
  <2>5. new = [k \in DOMAIN rows |-> IF k = key THEN row ELSE rows[k]]
    BY DEF Ready
  <2> HIDE DEF new
  <2> QED BY <2>1, <2>4, <2>5 DEF Ready
<1> QED BY <1>1, <1>2

LEMMA StagedReady ==
  ASSUME NEW rows, Ready(rows), NEW stagings, Plain(stagings), Len(stagings) \in Nat
  PROVE  Ready(Staged04(rows, stagings)) /\ DOMAIN Staged04(rows, stagings) = DOMAIN rows
<1> DEFINE n == Len(stagings)
<1>1. PICK f : Steps04(f, rows, stagings, n) /\ Staged04(rows, stagings) = f[n]
  BY Staged04Is
<1> DEFINE Good(x) == Ready(x) /\ DOMAIN x = DOMAIN rows
           bad == {i \in 0..n : ~Good(f[i])}
<1> SUFFICES ASSUME bad # {} PROVE FALSE
  BY <1>1
<1>2. PICK k \in bad : \A j \in bad : k <= j
  <2>1. bad \in SUBSET Nat
    OBVIOUS
  <2> HIDE DEF bad
  <2> QED BY <2>1, LeastNumber
<1>3. \A i \in 0..n : f[i] = IF i = 0 THEN rows ELSE StagedOnce(f[i - 1], stagings[i])
  BY <1>1 DEF Steps04
<1>4. k # 0
  BY <1>2, <1>3
<1>5. k \in 0..n /\ k - 1 \in 0..n /\ k - 1 \notin bad /\ k \in 1..n
  BY <1>2, <1>4
<1>6. Good(f[k - 1])
  BY <1>5
<1>7. stagings[k].available \in Nat /\ stagings[k].wait \in Nat
  BY <1>5 DEF Plain
<1>8. Good(StagedOnce(f[k - 1], stagings[k]))
  BY <1>6, <1>7, OnceReady
<1> QED BY <1>2, <1>3, <1>4, <1>5, <1>8

(* What 04 leaves is ready for 05.                                         *)
LEMMA RowsBy04b ==
  ASSUME NEW w \in Worlds
  PROVE  LET d == LeftBy04b(w)
         IN  /\ Ready(d.status.rows) /\ DOMAIN d.status.rows = DOMAIN w.rows
             /\ d.queue.rows = [k \in DOMAIN d.status.rows |-> d.status.rows[k].queue]
             /\ \E vehicles, battery : d.demand = Demand04(vehicles, battery)
<1> DEFINE battery == Battery04(OldVehicles, OldBattery)
           demand == Demand04(OldVehicles, battery)
           stagings == Stagings(demand)
           rows == Staged04(w.rows, stagings)
           output == Output(Scripts[1], w, Left(w, 0))
<1>1. Ready(w.rows)
  <2>1. DOMAIN w.rows \subseteq Stations \X Nat /\ w.rows \in [DOMAIN w.rows -> StationRow]
    BY WorldsAssumption
  <2>2. \A s, r : r \in StationRow => Before05(s, r)
    BY DEF StationRow, Before05, StationShape
  <2> QED BY <2>1, <2>2 DEF Ready
<1>2. Ready(rows) /\ DOMAIN rows = DOMAIN w.rows
  <2>1. Plain(stagings) /\ Len(stagings) \in Nat
    BY StagingsPlain
  <2> HIDE DEF stagings
  <2> QED BY <1>1, <2>1, StagedReady
<1>3. output = Output04(w, Original(w))
  BY ScriptsAre, OutputsAre, LeftAre
<1>4. Output04(w, Original(w)) = Scripted04(w, Original(w), battery, demand, stagings)
  BY DEF Output04, Driven04, Demanded04, Original
<1>5. Staged04(RowsOf(Original(w)), stagings) = rows
  BY WorldRows
<1> HIDE DEF battery, demand, stagings, rows
<1>6. /\ Len(output) = 9
      /\ output[2] = File("demand", demand)
      /\ output[4] = File("status", [split |-> FALSE, rows |-> rows])
      /\ output[5] = File("queue", [split |-> FALSE, rows |-> [k \in DOMAIN rows |-> rows[k].queue]])
  BY <1>3, <1>4, <1>5 DEF Scripted04, Labelled04, Ranked04, Tables04
<1>7. 2 \in 1..Len(output) /\ 4 \in 1..Len(output) /\ 5 \in 1..Len(output) /\ 1 \in 1..7 /\ 1 - 1 = 0
  BY <1>6
<1> HIDE DEF output
<1>8. /\ Left(w, 1)[output[2].file] = output[2].content /\ Left(w, 1)[output[4].file] = output[4].content
      /\ Left(w, 1)[output[5].file] = output[5].content
  BY <1>7, WroteFile DEF output
<1>9. /\ Left(w, 1).status.rows = rows /\ Left(w, 1).demand = demand
      /\ Left(w, 1).queue.rows = [k \in DOMAIN rows |-> rows[k].queue]
  BY <1>6, <1>8 DEF File
<1>10. Left(w, 2).status = Left(w, 1).status /\ Left(w, 2).queue = Left(w, 1).queue
       /\ Left(w, 2).demand = Left(w, 1).demand
  <2> DEFINE files == Output(Scripts[2], w, Left(w, 1))
  <2>1. files = Output04b(Left(w, 1))
    BY ScriptsAre, OutputsAre
  <2>2. Len(files) = 2 /\ files[1].file = "events" /\ files[2].file = "scenario"
    BY <2>1 DEF Output04b, File
  <2> HIDE DEF files
  <2>3. \A i \in 1..Len(files) : files[i].file # "status" /\ files[i].file # "queue" /\ files[i].file # "demand"
    BY <2>2
  <2>4. /\ "status" \in Names \ {"checked"} /\ "queue" \in Names \ {"checked"}
        /\ "demand" \in Names \ {"checked"} /\ 2 \in 1..7 /\ 2 - 1 = 1
    BY DEF Names
  <2>5. \A i \in 1..Len(Output(Scripts[2], w, Left(w, 2 - 1))) :
          /\ Output(Scripts[2], w, Left(w, 2 - 1))[i].file # "status"
          /\ Output(Scripts[2], w, Left(w, 2 - 1))[i].file # "queue"
          /\ Output(Scripts[2], w, Left(w, 2 - 1))[i].file # "demand"
    BY <2>3, <2>4 DEF files
  <2>6. /\ Left(w, 2)["status"] = Left(w, 2 - 1)["status"]
        /\ Left(w, 2)["queue"] = Left(w, 2 - 1)["queue"]
        /\ Left(w, 2)["demand"] = Left(w, 2 - 1)["demand"]
    BY ONLY <2>4, <2>5, KeptFile
  <2> QED BY <2>4, <2>6
<1>11. Left(w, 2) = LeftBy04b(w)
  BY LeftAre
<1> QED BY <1>2, <1>9, <1>10, <1>11 DEF demand

(* Who has no need asks for no service.                                    *)
LEMMA NeedlessAsksNone ==
  ASSUME NEW vehicles, NEW battery, NEW e \in DOMAIN Demand04(vehicles, battery),
         ~Demand04(vehicles, battery)[e].need
  PROVE  Demand04(vehicles, battery)[e].service = "NONE"
<1> DEFINE why == Detected(e, battery)
           service == Forced(vehicles[Trip[e[1]].vehicle], why # "SUFFICIENT_SOC_RANGE")
           row == [source |-> "AUTO_DETECTED", need |-> why # "SUFFICIENT_SOC_RANGE", reason |-> why,
                   requested |-> service, service |-> service, resolved |-> "no column", valid |-> None]
           all == Extended(row, Telemetry(e, vehicles, battery))
<1>1. Demand04(vehicles, battery)[e] = all
  BY DEF Demand04, AutoRow06, DetectedRow06, Auto06
<1>2. all.need = (why # "SUFFICIENT_SOC_RANGE") /\ all.service = service
  <2>1. \A f, g : \A x \in DOMAIN f : Extended(f, g)[x] = f[x]
    BY DEF Extended
  <2>2. "need" \in DOMAIN row /\ "service" \in DOMAIN row
    OBVIOUS
  <2>3. row.need = (why # "SUFFICIENT_SOC_RANGE") /\ row.service = service
    <3> HIDE DEF why, service
    <3> QED OBVIOUS
  <2>4. all.need = row.need /\ all.service = row.service
    <3> HIDE DEF row
    <3> QED BY <2>1, <2>2
  <2> QED BY <2>3, <2>4
<1> HIDE DEF all
<1>3. why = "SUFFICIENT_SOC_RANGE"
  <2> HIDE DEF why, service
  <2> QED BY <1>1, <1>2
<1>4. service = "NONE"
  BY <1>3 DEF Forced
<1> QED BY <1>1, <1>2, <1>4

-----------------------------------------------------------------------------
(* The tables of 05.                                                       *)
(* No more places and batteries than the station has.                      *)
Roomy(s, r) ==
  /\ r.batteries \in Nat /\ (Slots(s)["BATTERY_SWAP"] = 0 => r.batteries = 0)
  /\ \A v \in Services : r.free[v] + r.busy[v] <= Slots(s)[v]
  /\ r.status # "OPEN" => r.busy = None2

FitTables(t) ==
  /\ TablesShaped(t) /\ DOMAIN t.status \subseteq Stations \X Nat
  /\ \A k \in DOMAIN t.status : Fits(k[1], t.status[k], t.queue[k]) /\ Roomy(k[1], t.status[k])

LEMMA SplitRoomy ==
  ASSUME NEW s \in Stations, NEW old, Before05(s, old), NEW bias \in Int
  PROVE  Roomy(s, SplitStatus(s, old, bias))
<1> DEFINE r == SplitStatus(s, old, bias)
           b == SplitBusy(s, old.occupied, bias)
<1>1. old.occupied \in Int /\ (Total(s) > 0 => old.occupied >= 0) /\ old.batteries \in Nat
  BY DEF Before05
<1>2. Slots(s) \in [Services -> Nat]
  BY SlotsType
<1>3. CASE old.status # "OPEN"
  <2>1. r = [status |-> old.status, free |-> None2, busy |-> None2, batteries |-> 0]
    BY <1>3 DEF SplitStatus
  <2>2. \A v \in Services : None2[v] + None2[v] <= Slots(s)[v]
    BY <1>2, None2Is
  <2> HIDE DEF r
  <2> QED BY <2>1, <2>2 DEF Roomy, r
<1>4. CASE old.status = "OPEN"
  <2>1. r = OpenRow(s, b, old.batteries)
    BY <1>4 DEF SplitStatus
  <2>2. b \in [Services -> Nat]
    BY <1>1, SplitBusyType
  <2> HIDE DEF r, b
  <2>3. /\ r.status = "OPEN" /\ r.free = Free(s, b) /\ r.busy = b
        /\ r.batteries = IF Slots(s)["BATTERY_SWAP"] = 0 THEN 0 ELSE old.batteries
    BY <2>1 DEF OpenRow
  <2>4. \A v \in Services : Free(s, b)[v] + b[v] = Slots(s)[v]
    BY <1>2, <2>2 DEF Free
  <2>5. \A v \in Services : r.free[v] + r.busy[v] <= Slots(s)[v]
    BY <1>2, <2>3, <2>4
  <2> QED BY <1>1, <2>3, <2>5 DEF Roomy, r
<1> QED BY <1>3, <1>4

LEMMA SplitTablesFit ==
  ASSUME NEW w \in Worlds
  PROVE  FitTables(Split05(w, LeftBy04b(w)))
<1> DEFINE d == LeftBy04b(w)
           rows == d.status.rows
           split == SplitRows(w, d)
           queues == SplitQueues(split, d)
<1>1. /\ Ready(rows) /\ DOMAIN rows = DOMAIN w.rows
      /\ d.queue.rows = [k \in DOMAIN rows |-> rows[k].queue]
  BY RowsBy04b
<1>2. /\ TablesShaped(Split05(w, d)) /\ DOMAIN Split05(w, d).status = DOMAIN rows
  BY SplitTablesShaped
<1>3. \A k \in DOMAIN w.rows : w.bias[k] \in Int
  BY WorldsAssumption
<1>4. split = [k \in DOMAIN rows |-> SplitStatus(k[1], rows[k], w.bias[k])]
  BY DEF SplitRows
<1>5. queues = [k \in DOMAIN split |-> ServiceQueue(k[1], split[k], d.queue.rows[k])]
  BY DEF SplitQueues
<1>6. Split05(w, d) = [status |-> split, queue |-> queues]
  BY DEF Split05, SplitTables
<1> HIDE DEF d, split, queues, rows
<1>7. \A k \in DOMAIN rows : Fits(k[1], split[k], queues[k]) /\ Roomy(k[1], split[k])
  <2> TAKE k \in DOMAIN rows
  <2>1. k[1] \in Stations /\ Before05(k[1], rows[k]) /\ w.bias[k] \in Int
    BY <1>1, <1>3 DEF Ready
  <2>2. split[k] = SplitStatus(k[1], rows[k], w.bias[k])
        /\ queues[k] = ServiceQueue(k[1], SplitStatus(k[1], rows[k], w.bias[k]), rows[k].queue)
    BY <1>1, <1>4, <1>5
  <2> QED BY <2>1, <2>2, SplitFits, SplitRoomy
<1> QED BY <1>1, <1>2, <1>6, <1>7 DEF FitTables, d, Ready

-----------------------------------------------------------------------------
(* What 05 sets for a scenario fits as well, if the other service of the   *)
(* row is at leisure.                                                      *)
LEMMA OneServed ==
  ASSUME NEW s \in Stations, NEW row, NEW v \in Services, NEW length \in Nat,
         row.status = "OPEN", Slots(s)[v] > 0, row.busy[v] \in Nat, length > 0 => row.busy[v] > 0,
         \A u \in Services \ {v} : row.busy[u] = 0
  PROVE  SplitQueue(s, row, length) = [u \in Services |-> IF u = v THEN length ELSE 0]
<1> DEFINE c == row.busy["CHARGING"]
           w == row.busy["BATTERY_SWAP"]
           ch == IF w = 0 THEN length ELSE HalfEven(Q(length * c, c + w))
           one == [u \in Services |-> IF u = v THEN length ELSE 0]
<1>1. SplitQueue(s, row, length) =
        IF Single(s, "CHARGING") THEN Both(length, 0)
        ELSE IF Single(s, "BATTERY_SWAP") THEN Both(0, length)
        ELSE IF c + w = 0 THEN None2
        ELSE Both(ch, length - ch)
  BY DEF SplitQueue
<1>2. v = "CHARGING" => one = Both(length, 0)
  BY DEF Both, Services
<1>3. v = "BATTERY_SWAP" => one = Both(0, length)
  BY DEF Both, Services
<1>4. length = 0 => one = None2
  BY DEF Both, None2
<1>5. v = "CHARGING" \/ v = "BATTERY_SWAP"
  BY DEF Services
<1> SUFFICES SplitQueue(s, row, length) = one
  OBVIOUS
<1>6. CASE v = "CHARGING"
  <2>1. w = 0 /\ ~Single(s, "BATTERY_SWAP")
    BY <1>6, SlotsType DEF Services, Single
  <2>2. ch = length /\ length - ch = 0 /\ c \in Nat /\ (c + w = 0 => length = 0)
    BY <1>6, <2>1
  <2> HIDE DEF c, w, ch, one
  <2> QED BY <1>1, <1>2, <1>4, <1>6, <2>1, <2>2
<1>7. CASE v = "BATTERY_SWAP"
  <2>1. c = 0 /\ ~Single(s, "CHARGING")
    BY <1>7, SlotsType DEF Services, Single
  <2>2. w \in Nat /\ (c + w = 0 => length = 0)
    BY <1>7, <2>1
  <2>3. w > 0 => ch = 0 /\ length - ch = length
    <3>1. length * c = 0
      BY <2>1
    <3>2. HalfEven(Q(length * c, c + w)) = 0
      BY <3>1, QZero, HalfEvenZero
    <3> HIDE DEF c, w
    <3> QED BY <3>2
  <2> HIDE DEF c, w, ch, one
  <2> QED BY <1>1, <1>3, <1>4, <1>7, <2>1, <2>2, <2>3
<1> QED BY <1>5, <1>6, <1>7

LEMMA SetBusyType ==
  ASSUME NEW s \in Stations, NEW v \in Services, NEW available \in Nat, NEW target \in Fraction,
         target.n >= 0, CanSet(s, v, target)
  PROVE  LET busy == SetBusy(s, v, available, target)
             length == Ceiling(Q(target.n * busy, target.d * ServiceTime[v]))
         IN  /\ Slots(s)[v] > 0 /\ busy \in 0..Slots(s)[v] - 1
             /\ length \in Nat /\ (length > 0 => busy > 0)
<1> DEFINE busy == SetBusy(s, v, available, target)
           free == Most2(1, Least2(available, Slots(s)[v]))
           more == Less(Zero, target)
<1>1. Slots(s)[v] \in Nat /\ ServiceTime[v] \in Nat \ {0}
  BY SlotsType
<1>2. Slots(s)[v] > 0 /\ (more => Slots(s)[v] > 1)
  BY <1>1 DEF CanSet
<1>3. free \in 1..Slots(s)[v]
  BY <1>1, <1>2 DEF Most2, Least2
<1>4. busy = IF more THEN Slots(s)[v] - Least2(free, Slots(s)[v] - 1) ELSE Slots(s)[v] - free
  BY DEF SetBusy
<1> HIDE DEF free, more, busy
<1>5. busy \in 0..Slots(s)[v] - 1
  BY <1>1, <1>2, <1>3, <1>4 DEF Least2
<1>6. target.n * busy \in Nat /\ (busy = 0 => target.n * busy = 0)
      /\ target.d * ServiceTime[v] \in Nat \ {0}
  <2>1. PICK m \in Nat, t \in Nat \ {0}, d \in Nat \ {0} :
          m = target.n /\ t = ServiceTime[v] /\ d = target.d
    BY <1>1 DEF Fraction
  <2>2. m * busy \in Nat /\ (busy = 0 => m * busy = 0) /\ d * t \in Nat \ {0}
    BY <1>1, <1>5
  <2> QED BY <2>1, <2>2
<1> DEFINE a == target.n * busy
           b == target.d * ServiceTime[v]
<1>7. Ceiling(Q(a, b)) \in Nat /\ (a = 0 => Ceiling(Q(a, b)) = 0)
  <2> HIDE DEF a, b
  <2>1. a \in Nat /\ b \in Nat \ {0}
    BY <1>6 DEF a, b
  <2> QED BY <2>1, CeilingType
<1> QED BY <1>1, <1>2, <1>5, <1>6, <1>7 DEF busy

(* What 06 and 07 take for busy where all that is taken is served.         *)
LEMMA RebuiltBusy ==
  ASSUME NEW s \in Stations, NEW r, r.free \in [Services -> Nat],
         \A v \in Services : r.free[v] <= Slots(s)[v]
  PROVE  /\ Rebuilt(s, r).status = r.status /\ Rebuilt(s, r).free = r.free
         /\ Rebuilt(s, r).busy \in [Services -> Nat]
         /\ \A v \in Services : Rebuilt(s, r).busy[v] = Slots(s)[v] - r.free[v]
         /\ Rebuilt(s, r).batteries = IF r.status = "OPEN" THEN r.batteries ELSE 0
<1> DEFINE free == [v \in Services |-> Least2(Slots(s)[v], r.free[v])]
<1>1. free = r.free
  <2>1. \A v \in Services : Least2(Slots(s)[v], r.free[v]) = r.free[v]
    BY SlotsType DEF Least2
  <2> QED BY <2>1
<1>2. Rebuilt(s, r) = [status |-> r.status, free |-> free, busy |-> Free(s, free),
                       batteries |-> IF r.status = "OPEN" THEN r.batteries ELSE 0]
  BY DEF Rebuilt
<1> HIDE DEF free
<1>3. \A v \in Services : Slots(s)[v] - r.free[v] \in Nat
  BY SlotsType
<1> QED BY <1>1, <1>2, <1>3 DEF Free

LEMMA SetFits ==
  ASSUME NEW s \in Stations, NEW r, NEW q, Fits(s, r, q), NEW v \in Services, NEW available \in Nat,
         NEW target \in Fraction, target.n >= 0, CanSet(s, v, target) => AllFree(r, s, v)
  PROVE  /\ Fits(s, SetStatus(s, r, v, available, target), SetQueue(s, q, v, available, target))
         /\ ~CanSet(s, v, target) => SetStatus(s, r, v, available, target).free = r.free
         /\ \A u \in Services \ {v} : SetStatus(s, r, v, available, target).free[u] = r.free[u]
<1> DEFINE busy == SetBusy(s, v, available, target)
           length == Ceiling(Q(target.n * busy, target.d * ServiceTime[v]))
           row == SetStatus(s, r, v, available, target)
           queue == SetQueue(s, q, v, available, target)
<1>0. Slots(s) \in [Services -> Nat]
  BY SlotsType
<1>1. CASE Slots(s)[v] = 0
  BY <1>1 DEF SetStatus, SetQueue
<1>2. CASE Slots(s)[v] # 0 /\ ~CanSet(s, v, target)
  <2>1. row = [r EXCEPT !.status = "OPEN"] /\ queue = q
    BY <1>2 DEF SetStatus, SetQueue
  <2>2. row = [status |-> "OPEN", free |-> r.free, busy |-> r.busy, batteries |-> r.batteries]
    <3>1. r = [status |-> r.status, free |-> r.free, busy |-> r.busy, batteries |-> r.batteries]
      BY DEF Fits, RowShape
    <3> HIDE DEF row
    <3> QED BY <2>1, <3>1
  <2> HIDE DEF row, queue
  <2>3. /\ r.free \in [Services -> Nat] /\ \A u \in Services : r.free[u] <= Slots(s)[u]
    BY DEF Fits, Attended
  <2>4. SplitQueue(s, Rebuilt(s, row), Pooled(q)) = q.length
    <3>1. CASE r.status = "OPEN"
      <4>1. row = r
        BY <2>2, <3>1 DEF Fits, RowShape
      <4> QED BY <4>1 DEF Fits
    <3>2. CASE r.status # "OPEN"
      <4>1. q.length = None2
        BY <3>2 DEF Fits
      <4>2. Pooled(q) = 0
        BY <4>1, None2Is DEF Pooled, Services
      <4>3. Rebuilt(s, row).busy \in [Services -> Nat]
        BY <2>2, <2>3, RebuiltBusy
      <4>4. SplitQueue(s, Rebuilt(s, row), 0) = None2
        BY <4>3, SplitQueueType
      <4> QED BY <4>1, <4>2, <4>4
    <3> QED BY <3>1, <3>2
  <2>5. \A u \in Services : Attended(s, row, q, u)
    BY <2>2 DEF Fits, Attended
  <2>6. Fits(s, row, queue)
    BY <2>1, <2>2, <2>4, <2>5 DEF Fits, RowShape
  <2> QED BY <1>2, <2>2, <2>6 DEF row, queue
<1>3. CASE CanSet(s, v, target)
  <2>1. /\ Slots(s)[v] > 0 /\ busy \in 0..Slots(s)[v] - 1 /\ length \in Nat /\ (length > 0 => busy > 0)
    BY <1>3, SetBusyType
  <2> DEFINE free1 == [r.free EXCEPT ![v] = Slots(s)[v] - busy]
             busy1 == [r.busy EXCEPT ![v] = busy]
             batteries == IF v = "BATTERY_SWAP" THEN Most2(1, r.batteries) ELSE r.batteries
             length1 == [q.length EXCEPT ![v] = length]
             active1 == [q.active EXCEPT ![v] = busy]
  <2>2. row = [status |-> "OPEN", free |-> free1, busy |-> busy1, batteries |-> batteries]
    <3> DEFINE f == r.free
               b == r.busy
               a == r.batteries
    <3>1. row = [r EXCEPT !.status = "OPEN", !.free[v] = Slots(s)[v] - busy, !.busy[v] = busy,
                       !.batteries = IF v = "BATTERY_SWAP" THEN Most2(1, @) ELSE @]
      BY <1>3, <2>1 DEF SetStatus
    <3>2. r = [status |-> r.status, free |-> f, busy |-> b, batteries |-> a]
      BY DEF Fits, RowShape
    <3>3. row = [r EXCEPT !.status = "OPEN", !.free = free1, !.busy = busy1, !.batteries = batteries]
      <4> HIDE DEF row, busy
      <4> QED BY <3>1, <3>2
    <3> HIDE DEF row, free1, busy1, batteries, f, b, a
    <3> QED BY <3>2, <3>3
  <2>3. queue = QueueRow(length1, active1)
    BY <1>3, <2>1 DEF SetQueue
  <2> HIDE DEF row, queue, length, busy
  <2>4. /\ free1 \in [Services -> Nat] /\ busy1 \in [Services -> Nat]
        /\ length1 \in [Services -> Nat] /\ active1 \in [Services -> Nat]
        /\ free1[v] = Slots(s)[v] - busy /\ busy1[v] = busy /\ length1[v] = length /\ active1[v] = busy
        /\ \A u \in Services \ {v} : /\ free1[u] = r.free[u] /\ busy1[u] = r.busy[u]
                                     /\ length1[u] = q.length[u] /\ active1[u] = q.active[u]
    BY <1>0, <2>1 DEF Fits
  <2> HIDE DEF free1, busy1, length1, active1, batteries
  <2>5. /\ queue.length = length1 /\ queue.active = active1 /\ QueueShape(queue)
        /\ \A u \in Services : queue.wait[u] = Wait(u, length1[u], active1[u])
    <3>1. length1 = [u \in Services |-> length1[u]] /\ active1 = [u \in Services |-> active1[u]]
      BY <2>4
    <3>2. QueueShape(QueueRow(length1, active1))
      BY <3>1, QueueRowShape
    <3> QED BY <2>3, <3>2 DEF QueueRow
  <2>6. \A u \in Services \ {v} : free1[u] = Slots(s)[u] /\ active1[u] = 0 /\ length1[u] = 0
    <3> TAKE u \in Services \ {v}
    <3>1. r.free[u] = Slots(s)[u] /\ Attended(s, r, q, u)
      BY <1>3 DEF AllFree, Fits
    <3>2. /\ q.length[u] > 0 => q.active[u] > 0
          /\ q.active[u] > 0 => r.busy[u] = q.active[u] /\ r.free[u] = Slots(s)[u] - r.busy[u]
      BY <3>1 DEF Attended
    <3>3. q.length[u] \in Nat /\ q.active[u] \in Nat /\ Slots(s)[u] \in Nat
      BY <1>0 DEF Fits
    <3>4. q.active[u] = 0 /\ q.length[u] = 0
      BY <3>1, <3>2, <3>3
    <3> QED BY <2>4, <3>1, <3>4
  <2>7. \A u \in Services : Attended(s, row, queue, u)
    <3> TAKE u \in Services
    <3>1. CASE u = v
      BY <1>0, <2>1, <2>2, <2>4, <2>5, <3>1 DEF Attended
    <3>2. CASE u # v
      <4>1. u \in Services \ {v} /\ Slots(s)[u] \in Nat
        BY <1>0, <3>2
      <4> QED BY <2>2, <2>5, <2>6, <4>1 DEF Attended
    <3> QED BY <3>1, <3>2
  <2>8. \A u \in Services : free1[u] <= Slots(s)[u]
    BY <2>2, <2>7 DEF Attended
  <2> DEFINE again == Rebuilt(s, row)
  <2>9. /\ again.status = "OPEN" /\ \A u \in Services : again.busy[u] = Slots(s)[u] - free1[u]
    BY <2>2, <2>4, <2>8, RebuiltBusy
  <2> HIDE DEF again
  <2>10. again.busy[v] = busy /\ \A u \in Services \ {v} : again.busy[u] = 0
    <3>1. again.busy[v] = Slots(s)[v] - (Slots(s)[v] - busy)
      BY <2>4, <2>9
    <3>2. \A m, n \in Int : m - (m - n) = n
      OBVIOUS
    <3>3. Slots(s)[v] \in Int /\ busy \in Int
      BY <1>0, <2>1
    <3>4. \A u \in Services \ {v} : again.busy[u] = Slots(s)[u] - Slots(s)[u]
      BY <2>6, <2>9
    <3>5. \A u \in Services : Slots(s)[u] - Slots(s)[u] = 0
      BY <1>0
    <3>6. again.busy[v] = busy
      BY <3>1, <3>2, <3>3
    <3> QED BY <3>4, <3>5, <3>6
  <2>11. Pooled(queue) = length
    <3>1. v = "CHARGING" \/ v = "BATTERY_SWAP"
      BY DEF Services
    <3>2. length1["CHARGING"] + length1["BATTERY_SWAP"] = length
      BY <2>1, <2>4, <2>6, <3>1 DEF Services
    <3> QED BY <2>5, <3>2 DEF Pooled
  <2>12. SplitQueue(s, again, length) = [u \in Services |-> IF u = v THEN length ELSE 0]
    <3>1. again.busy[v] \in Nat /\ (length > 0 => again.busy[v] > 0)
      BY <1>0, <2>1, <2>10
    <3> QED BY <2>1, <2>9, <2>10, <3>1, OneServed
  <2>13. length1 = [u \in Services |-> IF u = v THEN length ELSE 0]
    BY <2>4, <2>6
  <2>14. Fits(s, row, queue)
    <3>1. RowShape(row) /\ row.status = "OPEN" /\ row.free = free1 /\ row.busy = busy1
      BY <2>2 DEF RowShape
    <3>2. SplitQueue(s, Rebuilt(s, row), Pooled(queue)) = queue.length
      BY <2>5, <2>11, <2>12, <2>13 DEF again
    <3> QED BY <2>4, <2>5, <2>7, <3>1, <3>2 DEF Fits
  <2>15. \A u \in Services \ {v} : row.free[u] = r.free[u]
    BY <2>2, <2>4
  <2> QED BY <1>3, <2>14, <2>15 DEF row, queue
<1>4. Slots(s)[v] = 0 => ~CanSet(s, v, target)
  BY DEF CanSet
<1> QED BY <1>1, <1>2, <1>3, <1>4

LEMMA SetRoomy ==
  ASSUME NEW s \in Stations, NEW r, RowShape(r), r.free \in [Services -> Nat], r.busy \in [Services -> Nat],
         Roomy(s, r), NEW v \in Services, NEW available \in Nat, NEW target \in Fraction, target.n >= 0
  PROVE  Roomy(s, SetStatus(s, r, v, available, target))
<1> DEFINE busy == SetBusy(s, v, available, target)
           row == SetStatus(s, r, v, available, target)
<1>1. Slots(s) \in [Services -> Nat]
  BY SlotsType
<1>2. CASE Slots(s)[v] = 0
  BY <1>2 DEF SetStatus
<1>3. CASE Slots(s)[v] # 0 /\ ~CanSet(s, v, target)
  <2>1. row = [r EXCEPT !.status = "OPEN"]
    BY <1>3 DEF SetStatus
  <2>2. r = [status |-> r.status, free |-> r.free, busy |-> r.busy, batteries |-> r.batteries]
    BY DEF RowShape
  <2>3. row = [status |-> "OPEN", free |-> r.free, busy |-> r.busy, batteries |-> r.batteries]
    <3> HIDE DEF row
    <3> QED BY <2>1, <2>2
  <2> HIDE DEF row
  <2> QED BY <2>3 DEF Roomy, row
<1>4. CASE CanSet(s, v, target)
  <2>1. Slots(s)[v] > 0 /\ busy \in 0..Slots(s)[v] - 1
    BY <1>4, SetBusyType
  <2> DEFINE free1 == [r.free EXCEPT ![v] = Slots(s)[v] - busy]
             busy1 == [r.busy EXCEPT ![v] = busy]
             batteries == IF v = "BATTERY_SWAP" THEN Most2(1, r.batteries) ELSE r.batteries
             f == r.free
             b == r.busy
             a == r.batteries
  <2>2. row = [status |-> "OPEN", free |-> free1, busy |-> busy1, batteries |-> batteries]
    <3>1. row = [r EXCEPT !.status = "OPEN", !.free[v] = Slots(s)[v] - busy, !.busy[v] = busy,
                       !.batteries = IF v = "BATTERY_SWAP" THEN Most2(1, @) ELSE @]
      BY <1>4, <2>1 DEF SetStatus
    <3>2. r = [status |-> r.status, free |-> f, busy |-> b, batteries |-> a]
      BY DEF RowShape
    <3>3. row = [r EXCEPT !.status = "OPEN", !.free = free1, !.busy = busy1, !.batteries = batteries]
      <4> HIDE DEF row, busy
      <4> QED BY <3>1, <3>2
    <3> HIDE DEF row, free1, busy1, batteries, f, b, a
    <3> QED BY <3>2, <3>3
  <2>3. batteries \in Nat /\ (Slots(s)["BATTERY_SWAP"] = 0 => batteries = 0)
    BY <1>1, <2>1 DEF Roomy, Most2
  <2> HIDE DEF row, busy
  <2>4. /\ free1[v] = Slots(s)[v] - busy /\ busy1[v] = busy
        /\ \A u \in Services \ {v} : free1[u] = r.free[u] /\ busy1[u] = r.busy[u]
    OBVIOUS
  <2>5. (Slots(s)[v] - busy) + busy = Slots(s)[v]
    BY <1>1, <2>1
  <2>6. \A u \in Services : free1[u] + busy1[u] <= Slots(s)[u]
    <3> TAKE u \in Services
    <3>1. CASE u = v
      BY <1>1, <2>4, <2>5, <3>1
    <3>2. CASE u # v
      BY <2>4, <3>2 DEF Roomy
    <3> QED BY <3>1, <3>2
  <2> HIDE DEF free1, busy1, batteries, f, b, a
  <2> QED BY <2>2, <2>3, <2>6 DEF Roomy, row
<1>5. Slots(s)[v] = 0 => ~CanSet(s, v, target)
  BY DEF CanSet
<1> QED BY <1>2, <1>3, <1>4, <1>5

LEMMA ServingFits ==
  ASSUME NEW t, FitTables(t), NEW p \in ServingRow,
         \A k \in DOMAIN t.status : Sets(p, k) => AllFree(t.status[k], k[1], p.service)
  PROVE  /\ FitTables(Serving(t, p)) /\ DOMAIN Serving(t, p).status = DOMAIN t.status
         /\ \A k \in DOMAIN t.status : \A v \in Services :
              ~(Sets(p, k) /\ p.service = v) => Serving(t, p).status[k].free[v] = t.status[k].free[v]
<1> DEFINE key == <<p.station, p.time>>
           row == SetStatus(p.station, t.status[key], p.service, p.available, p.wait)
           queue == SetQueue(p.station, t.queue[key], p.service, p.available, p.wait)
           status1 == [t.status EXCEPT ![key] = row]
           queue1 == [t.queue EXCEPT ![key] = queue]
<1>1. CASE key \notin DOMAIN t.status
  BY <1>1 DEF Serving
<1>2. CASE key \in DOMAIN t.status
  <2>1. Serving(t, p) = [status |-> status1, queue |-> queue1]
    BY <1>2 DEF Serving
  <2>2. /\ p.station \in Stations /\ p.service \in Services /\ p.available \in Nat
        /\ p.wait \in Fraction /\ p.wait.n >= 0
    BY DEF ServingRow
  <2>3. Fits(p.station, t.status[key], t.queue[key]) /\ Roomy(p.station, t.status[key])
    BY <1>2 DEF FitTables
  <2>4. CanSet(p.station, p.service, p.wait) => AllFree(t.status[key], p.station, p.service)
    BY <1>2 DEF Sets
  <2>5. /\ Fits(p.station, row, queue) /\ Roomy(p.station, row)
        /\ ~CanSet(p.station, p.service, p.wait) => row.free = t.status[key].free
        /\ \A u \in Services \ {p.service} : row.free[u] = t.status[key].free[u]
    <3> DEFINE s == p.station
               v == p.service
               a == p.available
               w == p.wait
               r == t.status[key]
               q == t.queue[key]
    <3>1. /\ s \in Stations /\ v \in Services /\ a \in Nat /\ w \in Fraction /\ w.n >= 0
          /\ Fits(s, r, q) /\ Roomy(s, r) /\ (CanSet(s, v, w) => AllFree(r, s, v))
      BY <2>2, <2>3, <2>4
    <3> HIDE DEF s, v, a, w, r, q
    <3>2. /\ Fits(s, SetStatus(s, r, v, a, w), SetQueue(s, q, v, a, w))
          /\ ~CanSet(s, v, w) => SetStatus(s, r, v, a, w).free = r.free
          /\ \A u \in Services \ {v} : SetStatus(s, r, v, a, w).free[u] = r.free[u]
      BY <3>1, SetFits
    <3>3. Roomy(s, SetStatus(s, r, v, a, w))
      BY <3>1, SetRoomy DEF Fits
    <3> QED BY <3>2, <3>3 DEF s, v, a, w, r, q
  <2>6. TablesShaped(Serving(t, p)) /\ DOMAIN Serving(t, p).status = DOMAIN t.status
    BY ServingShape DEF FitTables
  <2> HIDE DEF row, queue
  <2>7. /\ status1 = [k \in DOMAIN t.status |-> IF k = key THEN row ELSE t.status[k]]
        /\ queue1 = [k \in DOMAIN t.status |-> IF k = key THEN queue ELSE t.queue[k]]
    BY DEF FitTables, TablesShaped
  <2> HIDE DEF status1, queue1
  <2>8. \A k \in DOMAIN t.status : Fits(k[1], status1[k], queue1[k]) /\ Roomy(k[1], status1[k])
    BY <2>5, <2>7 DEF FitTables
  <2>9. \A k \in DOMAIN t.status : \A v \in Services :
          ~(Sets(p, k) /\ p.service = v) => status1[k].free[v] = t.status[k].free[v]
    BY <2>5, <2>7 DEF Sets
  <2> QED BY <2>1, <2>6, <2>8, <2>9 DEF FitTables
<1> QED BY <1>1, <1>2

LEMMA ServedFits ==
  ASSUME NEW t, FitTables(t), NEW servings, SeparableBy(t.status, servings)
  PROVE  FitTables(Served(t, servings)) /\ DOMAIN Served(t, servings).status = DOMAIN t.status
<1> DEFINE n == Len(servings)
<1>0. n \in Nat /\ DOMAIN servings = 1..n /\ \A i \in 1..n : servings[i] \in ServingRow
  BY DEF SeparableBy
<1>1. PICK f : Steps05(f, t, servings, n) /\ Served(t, servings) = f[n]
  BY <1>0, ServedIs
<1> DEFINE Good(x) == /\ FitTables(x) /\ DOMAIN x.status = DOMAIN t.status
                      /\ \A k \in DOMAIN t.status : \A v \in Services :
                           (\A j \in 1..n : ~(Sets(servings[j], k) /\ servings[j].service = v))
                             => x.status[k].free[v] = t.status[k].free[v]
           bad == {i \in 0..n : ~Good(f[i])}
<1> SUFFICES ASSUME bad # {} PROVE FALSE
  BY <1>0, <1>1
<1>2. PICK m \in bad : \A j \in bad : m <= j
  <2>1. bad \in SUBSET Nat
    BY <1>0
  <2> HIDE DEF bad
  <2> QED BY <2>1, LeastNumber
<1>3. \A i \in 0..n : f[i] = IF i = 0 THEN t ELSE Serving(f[i - 1], servings[i])
  BY <1>1 DEF Steps05
<1>4. m # 0
  BY <1>2, <1>3
<1>5. m \in 1..n /\ m \in 0..n /\ m - 1 \in 0..n /\ m - 1 \notin bad
  BY <1>0, <1>2, <1>4
<1>6. Good(f[m - 1])
  BY <1>5
<1> DEFINE p == servings[m]
           x == f[m - 1]
<1>7. p \in ServingRow
  BY <1>0, <1>5
<1>8. \A k \in DOMAIN x.status : Sets(p, k) => AllFree(x.status[k], k[1], p.service)
  <2> TAKE k \in DOMAIN x.status
  <2> HAVE Sets(p, k)
  <2>1. k \in DOMAIN t.status
    BY <1>6
  <2>2. /\ AllFree(t.status[k], k[1], p.service)
        /\ \A j \in 1..n : Sets(servings[j], k) => servings[j].service = p.service
    BY <1>0, <1>5, <2>1 DEF SeparableBy
  <2>3. \A u \in Services \ {p.service} : x.status[k].free[u] = t.status[k].free[u]
    <3> TAKE u \in Services \ {p.service}
    <3>1. \A j \in 1..n : ~(Sets(servings[j], k) /\ servings[j].service = u)
      BY <2>2
    <3> QED BY <1>6, <2>1, <3>1
  <2> QED BY <2>2, <2>3 DEF AllFree
<1>9. /\ FitTables(Serving(x, p)) /\ DOMAIN Serving(x, p).status = DOMAIN x.status
      /\ \A k \in DOMAIN x.status : \A v \in Services :
           ~(Sets(p, k) /\ p.service = v) => Serving(x, p).status[k].free[v] = x.status[k].free[v]
  <2>1. FitTables(x)
    BY <1>6
  <2> HIDE DEF x, p
  <2> QED BY <1>7, <1>8, <2>1, ServingFits
<1>10. f[m] = Serving(x, p)
  BY <1>3, <1>4, <1>5
<1>11. Good(f[m])
  <2> DEFINE y == Serving(x, p)
  <2>1. FitTables(y) /\ DOMAIN y.status = DOMAIN t.status
    BY <1>6, <1>9
  <2>2. \A k \in DOMAIN t.status : \A v \in Services :
          (\A j \in 1..n : ~(Sets(servings[j], k) /\ servings[j].service = v))
            => y.status[k].free[v] = t.status[k].free[v]
    <3> TAKE k \in DOMAIN t.status
    <3> TAKE v \in Services
    <3> HAVE \A j \in 1..n : ~(Sets(servings[j], k) /\ servings[j].service = v)
    <3>1. ~(Sets(p, k) /\ p.service = v)
      BY <1>5
    <3>2. x.status[k].free[v] = t.status[k].free[v] /\ k \in DOMAIN x.status
      BY <1>6
    <3> QED BY <1>9, <3>1, <3>2
  <2> QED BY <1>10, <2>1, <2>2
<1> QED BY <1>2, <1>11

(* What is at leisure has no queue.                                        *)
LEMMA Leisure ==
  ASSUME NEW s \in Stations, NEW r, NEW q, Fits(s, r, q), NEW v, AllFree(r, s, v)
  PROVE  \A u \in Services \ {v} : q.active[u] = 0 /\ q.length[u] = 0 /\ r.free[u] = Slots(s)[u]
<1> TAKE u \in Services \ {v}
<1>1. r.free[u] = Slots(s)[u] /\ Attended(s, r, q, u)
  BY DEF AllFree, Fits
<1>2. /\ q.length[u] > 0 => q.active[u] > 0
      /\ q.active[u] > 0 => r.busy[u] = q.active[u] /\ r.free[u] = Slots(s)[u] - r.busy[u]
  BY <1>1 DEF Attended
<1>3. q.length[u] \in Nat /\ q.active[u] \in Nat /\ Slots(s)[u] \in Nat
  BY SlotsType DEF Fits
<1> QED BY <1>1, <1>2, <1>3

(* 05b lengthens the queue of the only service somebody waits for.         *)
LEMMA LengthenFits ==
  ASSUME NEW s \in Stations, NEW r, NEW q, Fits(s, r, q), NEW v, AllFree(r, s, v), q.active[v] > 0,
         NEW busy, NEW minutes \in Fraction
  PROVE  Fits(s, r, Lengthen(q, v, busy, minutes))
<1> DEFINE active == q.active[v]
           length == Most2(1, HalfEven(Q(minutes.n * active, minutes.d * ServiceTime[v])))
           row == Lengthen(q, v, busy, minutes)
           length1 == [q.length EXCEPT ![v] = length]
           active1 == [q.active EXCEPT ![v] = active]
           wait1 == [q.wait EXCEPT ![v] = Wait(v, length, active)]
<1>0. Slots(s) \in [Services -> Nat]
  BY SlotsType
<1>1. row = [length |-> length1, active |-> active1, wait |-> wait1]
  <2>1. row = [q EXCEPT !.length[v] = length, !.active[v] = active, !.wait[v] = Wait(v, length, active)]
    BY DEF Lengthen
  <2> DEFINE a == q.length
             b == q.active
             c == q.wait
  <2>2. q = [length |-> a, active |-> b, wait |-> c]
    BY DEF Fits, QueueShape
  <2>3. row = [q EXCEPT !.length = length1, !.active = active1, !.wait = wait1]
    <3> HIDE DEF row, length, active
    <3> QED BY <2>1, <2>2
  <2> HIDE DEF row, length1, active1, wait1, a, b, c
  <2> QED BY <2>2, <2>3
<1> HIDE DEF row
<1>2. CASE v \notin Services
  <2>1. length1 = q.length /\ active1 = q.active /\ wait1 = q.wait
    BY <1>2 DEF Fits, QueueShape
  <2>2. q = [length |-> q.length, active |-> q.active, wait |-> q.wait]
    BY DEF Fits, QueueShape
  <2> HIDE DEF length1, active1, wait1
  <2>3. row = q
    BY <1>1, <2>1, <2>2
  <2> QED BY <2>3 DEF row
<1>3. CASE v \in Services
  <2>1. active \in Nat /\ active > 0
    BY <1>3 DEF Fits
  <2>2. length \in Nat /\ length > 0
    <3>1. minutes.n * active \in Int /\ minutes.d * ServiceTime[v] \in Nat \ {0}
      <4>1. ServiceTime[v] \in Nat \ {0}
        BY <1>3, SlotsType
      <4>2. PICK m \in Int, t \in Nat \ {0}, d \in Nat \ {0} :
              m = minutes.n /\ t = ServiceTime[v] /\ d = minutes.d
        BY <4>1 DEF Fraction
      <4>3. m * active \in Int /\ d * t \in Nat \ {0}
        BY <2>1
      <4> QED BY <4>2, <4>3
    <3> DEFINE x == minutes.n * active
               y == minutes.d * ServiceTime[v]
    <3>2. x \in Int /\ y \in Nat \ {0}
      BY <3>1
    <3>3. length = Most2(1, HalfEven(Q(x, y)))
      OBVIOUS
    <3> HIDE DEF x, y, length
    <3>4. HalfEven(Q(x, y)) \in Int
      BY <3>2, QValue, HalfEvenType
    <3> QED BY <3>3, <3>4 DEF Most2
  <2> HIDE DEF length, active
  <2>3. /\ r.status = "OPEN" /\ r.busy[v] = active /\ r.free[v] = Slots(s)[v] - active
        /\ r.free[v] <= Slots(s)[v] /\ r.free[v] \in Nat
    <3>1. r.status = "OPEN"
      <4>1. r.status # "OPEN" => active = 0
        BY <1>3, None2Is DEF Fits, active
      <4> QED BY <2>1, <4>1
    <3>2. Attended(s, r, q, v) /\ r.free[v] \in Nat
      BY <1>3 DEF Fits
    <3> QED BY <2>1, <3>1, <3>2 DEF Attended, active
  <2>4. \A u \in Services \ {v} : q.active[u] = 0 /\ q.length[u] = 0 /\ r.free[u] = Slots(s)[u]
    BY Leisure
  <2>5. active1 = q.active
    BY <1>3 DEF active, Fits
  <2>6. length1 = [u \in Services |-> IF u = v THEN length ELSE 0]
    BY <2>4 DEF Fits
  <2>7. wait1 = [u \in Services |-> IF u = v THEN Wait(v, length, active) ELSE q.wait[u]]
    BY DEF Fits, QueueShape
  <2> HIDE DEF length1, active1, wait1
  <2>8. QueueShape(row)
    BY <1>1, <2>5, <2>6, <2>7 DEF QueueShape, Fits
  <2>9. \A u \in Services : Attended(s, r, row, u)
    <3> TAKE u \in Services
    <3>1. row.length[u] = (IF u = v THEN length ELSE 0) /\ row.active[u] = q.active[u]
          /\ row.wait[u] = IF u = v THEN Wait(v, length, active) ELSE q.wait[u]
      BY <1>1, <2>5, <2>6, <2>7
    <3>2. CASE u = v
      BY <2>1, <2>2, <2>3, <3>1, <3>2 DEF Attended, active
    <3>3. CASE u # v
      <4>1. Attended(s, r, q, u) /\ q.length[u] = 0
        BY <2>4, <3>3 DEF Fits
      <4> QED BY <3>1, <3>3, <4>1 DEF Attended
    <3> QED BY <3>2, <3>3
  <2> DEFINE again == Rebuilt(s, r)
  <2>10. /\ again.status = "OPEN" /\ \A u \in Services : again.busy[u] = Slots(s)[u] - r.free[u]
    <3>1. r.free \in [Services -> Nat] /\ \A u \in Services : r.free[u] <= Slots(s)[u]
      BY DEF Fits, Attended
    <3> QED BY <2>3, <3>1, RebuiltBusy
  <2> HIDE DEF again
  <2>11. again.busy[v] = active /\ \A u \in Services \ {v} : again.busy[u] = 0
    <3>1. \A m, n \in Int : m - (m - n) = n
      OBVIOUS
    <3>2. Slots(s)[v] \in Int /\ active \in Int
      BY <1>0, <1>3, <2>1
    <3>3. again.busy[v] = Slots(s)[v] - (Slots(s)[v] - active)
      BY <1>3, <2>3, <2>10
    <3>4. \A u \in Services \ {v} : again.busy[u] = Slots(s)[u] - Slots(s)[u]
      BY <2>4, <2>10
    <3>5. \A u \in Services : Slots(s)[u] - Slots(s)[u] = 0
      BY <1>0
    <3> QED BY <3>1, <3>2, <3>3, <3>4, <3>5
  <2>12. Pooled(row) = length
    <3>1. v = "CHARGING" \/ v = "BATTERY_SWAP"
      BY <1>3 DEF Services
    <3>2. length1["CHARGING"] + length1["BATTERY_SWAP"] = length
      BY <2>2, <2>6, <3>1 DEF Services
    <3> QED BY <1>1, <3>2 DEF Pooled
  <2>13. SplitQueue(s, again, length) = [u \in Services |-> IF u = v THEN length ELSE 0]
    <3>1. Slots(s)[v] > 0
      <4>1. Slots(s)[v] \in Nat
        BY <1>0, <1>3
      <4> QED BY <2>1, <2>3, <4>1
    <3> QED BY <1>3, <2>1, <2>2, <2>10, <2>11, <3>1, OneServed
  <2>14. SplitQueue(s, Rebuilt(s, r), Pooled(row)) = row.length
    BY <1>1, <2>6, <2>12, <2>13 DEF again
  <2>15. row.length \in [Services -> Nat] /\ row.active \in [Services -> Nat]
    BY <1>1, <2>2, <2>5, <2>6 DEF Fits
  <2>16. Fits(s, r, row)
    BY <2>3, <2>8, <2>9, <2>14, <2>15 DEF Fits
  <2> QED BY <2>16 DEF row
<1> QED BY <1>2, <1>3

(* 06 and 07 derive a row, and a candidate sees in it what was there.      *)
Seen(r, q, v) ==
  [status |-> r.status, slots |-> r.free[v],
   batteries |-> IF v = "BATTERY_SWAP" THEN r.batteries ELSE 0,
   capacity |-> IF v = "BATTERY_SWAP" THEN Least2(r.free[v], r.batteries) ELSE r.free[v],
   length |-> q.length[v], wait |-> q.wait[v]]

LEMMA SeenAgain ==
  ASSUME NEW s \in Stations, NEW r, NEW q, Fits(s, r, q), NEW v \in Services
  PROVE  Seen(Rebuilt(s, r), RebuiltQueue(s, Rebuilt(s, r), q), v) = Seen(r, q, v)
<1> DEFINE again == Rebuilt(s, r)
           queue == RebuiltQueue(s, again, q)
<1>0. Slots(s) \in [Services -> Nat] /\ ServiceTime[v] \in Nat \ {0}
  BY SlotsType
<1>1. /\ again.status = r.status /\ again.free = r.free
      /\ \A u \in Services : again.busy[u] = Slots(s)[u] - r.free[u]
      /\ again.batteries = IF r.status = "OPEN" THEN r.batteries ELSE 0
  <2>1. r.free \in [Services -> Nat] /\ \A u \in Services : r.free[u] <= Slots(s)[u]
    BY DEF Fits, Attended
  <2> QED BY <2>1, RebuiltBusy
<1>2. again.batteries = r.batteries
  BY <1>1 DEF Fits
<1>3. SplitQueue(s, again, Pooled(q)) = q.length
  BY DEF Fits
<1>4. /\ queue.length = q.length
      /\ queue.wait[v] = Q(q.length[v] * ServiceTime[v], Most2(1, again.busy[v]))
  BY <1>3 DEF RebuiltQueue, Pooled
<1> HIDE DEF again, queue
<1>5. /\ Attended(s, r, q, v) /\ q.length[v] \in Nat /\ q.active[v] \in Nat /\ r.busy[v] \in Nat
  BY DEF Fits
<1>6. queue.wait[v] = q.wait[v]
  <2>1. CASE q.length[v] = 0
    <3>1. q.length[v] * ServiceTime[v] = 0
      BY <1>0, <2>1
    <3>2. queue.wait[v] = Q(0, Most2(1, again.busy[v]))
      BY <1>4, <3>1
    <3>3. queue.wait[v] = Zero
      BY <3>2, QZero
    <3>4. q.wait[v] = Zero
      BY <1>5, <2>1 DEF Attended, Wait
    <3> QED BY <3>3, <3>4
  <2>2. CASE q.length[v] > 0
    <3>1. /\ q.active[v] > 0 /\ r.busy[v] = q.active[v] /\ r.free[v] = Slots(s)[v] - r.busy[v]
          /\ q.wait[v] = Wait(v, q.length[v], q.active[v])
      BY <1>5, <2>2 DEF Attended
    <3>2. again.busy[v] = Slots(s)[v] - (Slots(s)[v] - q.active[v])
      BY <1>1, <3>1
    <3>3. \A m, n \in Int : m - (m - n) = n
      OBVIOUS
    <3>4. Slots(s)[v] \in Int /\ q.active[v] \in Int
      BY <1>0, <1>5
    <3>5. again.busy[v] = q.active[v]
      BY <3>2, <3>3, <3>4
    <3>6. Most2(1, again.busy[v]) = q.active[v]
      BY <1>5, <3>1, <3>5 DEF Most2
    <3>7. q.wait[v] = Q(q.length[v] * ServiceTime[v], q.active[v])
      BY <2>2, <3>1 DEF Wait
    <3> QED BY <1>4, <3>6, <3>7
  <2> QED BY <1>5, <2>1, <2>2
<1>7. Seen(again, queue, v) = Seen(r, q, v)
  BY <1>1, <1>2, <1>4, <1>6 DEF Seen
<1> QED BY <1>7 DEF again, queue

LEMMA ObservedSeen ==
  ASSUME NEW status, NEW queue, NEW s, NEW time, NEW v
  PROVE  Observed(status, queue, s, time, v) =
           IF <<s, time>> \notin DOMAIN status THEN Unknown
           ELSE Seen(status[<<s, time>>], queue[<<s, time>>], v)
BY DEF Observed, Seen

LEMMA ObservedAgain ==
  ASSUME NEW d, NEW t, FitTables(t), d.status.rows = t.status, d.queue.rows = t.queue,
         NEW s, NEW time, NEW v \in Services
  PROVE  Observed(RebuiltTables(d).status, RebuiltTables(d).queue, s, time, v)
           = Observed(t.status, t.queue, s, time, v)
<1> DEFINE key == <<s, time>>
           status == [k \in DOMAIN d.status.rows |-> Rebuilt(k[1], d.status.rows[k])]
           queue == [k \in DOMAIN d.queue.rows |-> RebuiltQueue(k[1], status[k], d.queue.rows[k])]
<1>1. RebuiltTables(d) = [status |-> status, queue |-> queue]
  BY DEF RebuiltTables, Rebuild
<1>2. CASE key \notin DOMAIN t.status
  <2>1. key \notin DOMAIN status
    BY <1>2
  <2> HIDE DEF status, queue
  <2>2. Observed(status, queue, s, time, v) = Unknown
    BY <2>1, ObservedSeen
  <2>3. Observed(t.status, t.queue, s, time, v) = Unknown
    BY <1>2, ObservedSeen
  <2> QED BY <1>1, <2>2, <2>3
<1>3. CASE key \in DOMAIN t.status
  <2>1. key \in DOMAIN t.queue /\ key[1] = s /\ Fits(s, t.status[key], t.queue[key]) /\ s \in Stations
    BY <1>3 DEF FitTables, TablesShaped
  <2>2. status[key] = Rebuilt(s, t.status[key]) /\ key \in DOMAIN status
    BY <1>3, <2>1
  <2>3. queue[key] = RebuiltQueue(s, Rebuilt(s, t.status[key]), t.queue[key])
    BY <2>1, <2>2
  <2> HIDE DEF key, status, queue
  <2>4. Seen(status[key], queue[key], v) = Seen(t.status[key], t.queue[key], v)
    BY <2>1, <2>2, <2>3, SeenAgain
  <2>5. Observed(status, queue, s, time, v) = Seen(status[key], queue[key], v)
    BY <2>2, ObservedSeen DEF key
  <2>6. Observed(t.status, t.queue, s, time, v) = Seen(t.status[key], t.queue[key], v)
    BY <1>3, ObservedSeen DEF key
  <2> QED BY <1>1, <2>4, <2>5, <2>6 DEF status, queue
<1> QED BY <1>2, <1>3

-----------------------------------------------------------------------------
(* A candidate says what the tables say.                                   *)
MirrorsOf(k, row, t) == k[3] = "NONE" \/ row.state = Observed(t.status, t.queue, k[2], SnapshotOf(k[1]).time, k[3])

Mirrors(candidates, t) == \A k \in DOMAIN candidates : MirrorsOf(k, candidates[k], t)

LEMMA CandidatesBy05 ==
  ASSUME NEW vehicles, NEW battery, NEW t
  PROVE  Mirrors(CandidateTable05(Demand04(vehicles, battery), t.status, t.queue), t)
<1> DEFINE demand == Demand04(vehicles, battery)
           row(e, s) == CandidateRow("05", e, s, demand[e].service,
                                     Compatible05(demand[e].vehicle, s, demand[e].service),
                                     demand[e].range, t.status, t.queue)
           blank == [reason |-> "NO_SERVICE_NEEDED", leg |-> None, state |-> Unknown]
           keys == {x \in (DOMAIN demand) \X Stations \X (Services \cup {"NONE"}) :
                      x[3] = demand[x[1]].service}
           table == [k \in keys |-> IF demand[k[1]].need THEN row(k[1], k[2]) ELSE blank]
<1>1. CandidateTable05(demand, t.status, t.queue) = table
  BY DEF CandidateTable05
<1>2. \A e \in DOMAIN demand : ~demand[e].need => demand[e].service = "NONE"
  BY NeedlessAsksNone
<1>3. \A e, s : row(e, s).state = Observed(t.status, t.queue, s, SnapshotOf(e).time, demand[e].service)
  BY DEF CandidateRow
<1> HIDE DEF demand, row, blank
<1>4. \A k \in keys : MirrorsOf(k, table[k], t)
  <2> TAKE k \in keys
  <2>1. k[1] \in DOMAIN demand /\ k[3] = demand[k[1]].service
    OBVIOUS
  <2>2. CASE demand[k[1]].need
    <3>1. table[k] = row(k[1], k[2])
      BY <2>2
    <3>2. table[k].state = Observed(t.status, t.queue, k[2], SnapshotOf(k[1]).time, k[3])
      BY <1>3, <2>1, <3>1
    <3> QED BY <3>2 DEF MirrorsOf
  <2>3. CASE ~demand[k[1]].need
    BY <1>2, <2>1, <2>3 DEF MirrorsOf
  <2> QED BY <2>2, <2>3
<1>5. DOMAIN table = keys
  OBVIOUS
<1> HIDE DEF table, keys
<1>6. Mirrors(table, t)
  BY <1>4, <1>5 DEF Mirrors
<1> QED BY <1>1, <1>6 DEF demand

LEMMA TablesBy05 ==
  ASSUME NEW w \in Worlds
  PROVE  /\ FitTables(LeftBy05(w).events)
         /\ LeftBy05(w).status.rows = LeftBy05(w).events.status
         /\ LeftBy05(w).queue.rows = LeftBy05(w).events.queue
         /\ CandidatesShaped(LeftBy05(w).candidates)
         /\ Mirrors(LeftBy05(w).candidates, LeftBy05(w).events)
<1> DEFINE old == LeftBy04b(w)
           t == LeftBy05(w).events
<1>1. /\ t = Served(Split05(w, old), Servings(old))
      /\ LeftBy05(w).candidates = CandidateTable05(old.demand, t.status, t.queue)
      /\ CandidatesShaped(LeftBy05(w).candidates)
      /\ LeftBy05(w).status.rows = t.status /\ LeftBy05(w).queue.rows = t.queue
  <2> DEFINE d == LeftBy05(w)
  <2>1. /\ d.events = Served(Split05(w, old), Servings(old))
        /\ d.candidates = CandidateTable05(old.demand, d.events.status, d.events.queue)
        /\ CandidatesShaped(d.candidates)
        /\ d.status = [split |-> TRUE, rows |-> d.events.status]
        /\ d.queue = [split |-> TRUE, rows |-> d.events.queue]
    BY LeftBy05Is
  <2> HIDE DEF d, old
  <2> QED BY <2>1 DEF d
<1>2. FitTables(Split05(w, old))
  BY SplitTablesFit
<1>3. SeparableBy(Split05(w, old).status, Servings(old))
  BY WorldsAssumption DEF Separable, Split05, SplitTables, Servings
<1>4. PICK vehicles, battery : old.demand = Demand04(vehicles, battery)
  BY RowsBy04b
<1> HIDE DEF old, t
<1>5. FitTables(t)
  BY <1>1, <1>2, <1>3, ServedFits
<1>6. Mirrors(LeftBy05(w).candidates, t)
  BY <1>1, <1>4, CandidatesBy05
<1> QED BY <1>1, <1>5, <1>6 DEF t

(* 05b leaves the rows of Target half updated.                             *)
HalfMirrors(candidates, t) ==
  /\ CandidatesShaped(candidates)
  /\ \A k \in DOMAIN candidates :
       IF k \in Affected(candidates, Target)
       THEN k[3] = "NONE" \/ candidates[k].state.status
                               = Observed(t.status, t.queue, k[2], SnapshotOf(k[1]).time, k[3]).status
       ELSE MirrorsOf(k, candidates[k], t)

LEMMA CrowdedIs ==
  ASSUME NEW candidates, CandidatesShaped(candidates), NEW k, NEW length, NEW wait
  PROVE  LET new == Crowded(candidates, k, length, wait)
         IN  /\ CandidatesShaped(new) /\ DOMAIN new = DOMAIN candidates
             /\ \A j \in DOMAIN candidates :
                  /\ j # k => new[j] = candidates[j]
                  /\ "status" \in DOMAIN candidates[j].state => new[j].state.status = candidates[j].state.status
<1> DEFINE one == [candidates EXCEPT ![k].state.length = length]
           new == [one EXCEPT ![k].state.wait = wait]
<1>1. Crowded(candidates, k, length, wait) = new
  BY DEF Crowded
<1>2. CandidatesShaped(Crowded(candidates, k, length, wait))
  BY PatchedCandidates
<1>3. DOMAIN one = DOMAIN candidates /\ \A j \in DOMAIN candidates : j # k => one[j] = candidates[j]
  BY DEF CandidatesShaped
<1>4. DOMAIN new = DOMAIN one /\ \A j \in DOMAIN one : j # k => new[j] = one[j]
  <2> HIDE DEF one
  <2> QED OBVIOUS
<1>5. ASSUME k \in DOMAIN candidates, "status" \in DOMAIN candidates[k].state
      PROVE  new[k].state.status = candidates[k].state.status
  <2> DEFINE a == candidates[k]
             b == a.state
             c == [b EXCEPT !.length = length]
             e == [c EXCEPT !.wait = wait]
  <2>1. a = [reason |-> a.reason, leg |-> a.leg, state |-> b]
    BY <1>5 DEF CandidatesShaped, CandidateShape
  <2>2. one[k] = [a EXCEPT !.state = c]
    BY <1>5 DEF CandidatesShaped
  <2>3. one[k].state = c /\ "state" \in DOMAIN one[k]
    <3> HIDE DEF a, b, c, one
    <3> QED BY <2>1, <2>2
  <2>4. new[k].state = e
    <3> HIDE DEF one, e
    <3>1. new[k] = [one[k] EXCEPT !.state.wait = wait]
      BY <1>3, <1>5
    <3> HIDE DEF new
    <3>2. new[k].state = [one[k].state EXCEPT !.wait = wait]
      BY <2>3, <3>1
    <3> QED BY <2>3, <3>2 DEF e
  <2>5. "status" \in DOMAIN b
    BY <1>5
  <2> HIDE DEF b
  <2>6. e.status = b.status
    BY <2>5
  <2> HIDE DEF e, new, one
  <2> QED BY <2>4, <2>6 DEF b
<1> HIDE DEF one, new
<1> QED BY <1>1, <1>2, <1>3, <1>4, <1>5

LEMMA ObservedApart ==
  ASSUME NEW status, NEW queue, NEW other, NEW s, NEW time, NEW v
  PROVE  /\ other[<<s, time>>] = queue[<<s, time>>] =>
              Observed(status, other, s, time, v) = Observed(status, queue, s, time, v)
         /\ Observed(status, other, s, time, v).status = Observed(status, queue, s, time, v).status
         /\ "status" \in DOMAIN Observed(status, queue, s, time, v)
<1> DEFINE key == <<s, time>>
<1>1. CASE key \notin DOMAIN status
  BY <1>1, ObservedSeen DEF Unknown
<1>2. CASE key \in DOMAIN status
  <2>1. /\ Observed(status, queue, s, time, v) = Seen(status[key], queue[key], v)
        /\ Observed(status, other, s, time, v) = Seen(status[key], other[key], v)
    BY <1>2, ObservedSeen
  <2>2. \A r, q : Seen(r, q, v).status = r.status /\ "status" \in DOMAIN Seen(r, q, v)
    BY DEF Seen
  <2> QED BY <2>1, <2>2
<1> QED BY <1>1, <1>2

LEMMA TiedHalf ==
  ASSUME NEW t, FitTables(t), NEW candidates, CandidatesShaped(candidates), Mirrors(candidates, t),
         NEW row, Target \in DOMAIN t.queue, Fits(Target[1], t.status[Target], row),
         NEW best \in Affected(candidates, Target), NEW length, NEW wait
  PROVE  LET new == [status |-> t.status, queue |-> [t.queue EXCEPT ![Target] = row]]
         IN  FitTables(new) /\ HalfMirrors(Crowded(candidates, best, length, wait), new)
<1> DEFINE queue == [t.queue EXCEPT ![Target] = row]
           new == [status |-> t.status, queue |-> queue]
           crowded == Crowded(candidates, best, length, wait)
<1>1. queue = [k \in DOMAIN t.status |-> IF k = Target THEN row ELSE t.queue[k]]
  BY DEF FitTables, TablesShaped
<1>2. FitTables(new)
  <2> HIDE DEF queue
  <2>1. \A k \in DOMAIN t.status : Fits(k[1], t.status[k], queue[k]) /\ Roomy(k[1], t.status[k])
    BY <1>1 DEF FitTables
  <2>2. DOMAIN queue = DOMAIN t.status /\ queue = [k \in DOMAIN queue |-> queue[k]]
        /\ \A k \in DOMAIN queue : QueueShape(queue[k])
    BY <1>1, <2>1 DEF Fits
  <2>3. TablesShaped(new)
    BY <2>2 DEF FitTables, TablesShaped
  <2> QED BY <2>1, <2>3 DEF FitTables
<1>3. /\ CandidatesShaped(crowded) /\ DOMAIN crowded = DOMAIN candidates
      /\ \A j \in DOMAIN candidates :
           /\ j # best => crowded[j] = candidates[j]
           /\ "status" \in DOMAIN candidates[j].state => crowded[j].state.status = candidates[j].state.status
  BY CrowdedIs
<1>4. Affected(crowded, Target) = Affected(candidates, Target)
  BY <1>3 DEF Affected
<1>5. Target = <<Target[1], Target[2]>>
  BY <1>1 DEF FitTables
<1> HIDE DEF queue, crowded
<1>6. ASSUME NEW k \in DOMAIN candidates
      PROVE  IF k \in Affected(candidates, Target)
             THEN k[3] = "NONE" \/ crowded[k].state.status
                                     = Observed(t.status, queue, k[2], SnapshotOf(k[1]).time, k[3]).status
             ELSE MirrorsOf(k, crowded[k], new)
  <2> DEFINE s == k[2]
             time == SnapshotOf(k[1]).time
             v == k[3]
             seen == Observed(t.status, t.queue, s, time, v)
  <2>1. v = "NONE" \/ candidates[k].state = seen
    BY DEF Mirrors, MirrorsOf
  <2>2. /\ queue[<<s, time>>] = t.queue[<<s, time>>] => Observed(t.status, queue, s, time, v) = seen
        /\ Observed(t.status, queue, s, time, v).status = seen.status /\ "status" \in DOMAIN seen
    <3> HIDE DEF s, time, v
    <3> QED BY ObservedApart
  <2>3. CASE k \in Affected(candidates, Target)
    <3> HIDE DEF s, time, v, seen
    <3>1. v = "NONE" \/ crowded[k].state.status = Observed(t.status, queue, s, time, v).status
      BY <1>3, <2>1, <2>2
    <3> QED BY <2>3, <3>1 DEF s, time, v
  <2>4. CASE k \notin Affected(candidates, Target)
    <3>1. crowded[k] = candidates[k]
      BY <1>3, <2>4
    <3>2. <<s, time>> # Target
      BY <1>5, <2>4 DEF Affected
    <3>3. queue[<<s, time>>] = t.queue[<<s, time>>]
      <4> HIDE DEF s, time
      <4>1. DOMAIN t.queue = DOMAIN t.status
        BY DEF FitTables, TablesShaped
      <4>2. queue = [t.queue EXCEPT ![Target] = row]
        BY DEF queue
      <4> QED BY <3>2, <4>1, <4>2
    <3>4. MirrorsOf(k, crowded[k], new)
      <4> HIDE DEF seen
      <4>1. v = "NONE" \/ crowded[k].state = Observed(t.status, queue, s, time, v)
        BY <2>1, <2>2, <3>1, <3>3
      <4> QED BY <4>1 DEF MirrorsOf
    <3> QED BY <2>4, <3>4
  <2> QED BY <2>3, <2>4
<1>7. HalfMirrors(crowded, new)
  BY <1>3, <1>4, <1>6 DEF HalfMirrors
<1> QED BY <1>2, <1>7 DEF queue, crowded

LEMMA TablesBy05b ==
  ASSUME NEW w \in Worlds
  PROVE  \E t : /\ FitTables(t) /\ LeftBy05b(w).status.rows = t.status /\ LeftBy05b(w).queue.rows = t.queue
                /\ HalfMirrors(LeftBy05b(w).candidates, t)
<1> DEFINE old == LeftBy05(w)
           t == old.events
           e == Chosen(old.ranking)
           best == At(old.ranking, e, 1)
           needed == Needed(Lead(old.ranking, e))
<1>1. /\ FitTables(t) /\ old.status.rows = t.status /\ old.queue.rows = t.queue
      /\ CandidatesShaped(old.candidates) /\ Mirrors(old.candidates, t)
  BY TablesBy05
<1>2. CASE needed = Zero
  <2>1. /\ LeftBy05b(w).status = old.status /\ LeftBy05b(w).queue = old.queue
        /\ LeftBy05b(w).candidates = old.candidates
    <3>1. Files(old)
      BY LeftAre, LeftFiles
    <3>2. Alike(old, old)
      BY <3>1 DEF Alike
    <3>3. Partly(old, old, Output05b(old), 0)
      BY <3>2, PartlyNone
    <3> QED BY <1>2, <3>3, Untied05b
  <2> HIDE DEF old, t
  <2>2. \A k \in DOMAIN old.candidates :
          k[3] = "NONE" \/ old.candidates[k].state = Observed(t.status, t.queue, k[2], SnapshotOf(k[1]).time, k[3])
    BY <1>1 DEF Mirrors, MirrorsOf
  <2>3. HalfMirrors(old.candidates, t)
    BY <1>1, <2>2 DEF HalfMirrors, MirrorsOf
  <2> QED BY <1>1, <2>1, <2>3
<1>3. CASE needed # Zero
  <2> DEFINE row == Longer(old, best, needed)
             length == row.length[best[3]]
             wait == row.wait[best[3]]
             queue == [t.queue EXCEPT ![Target] = row]
             new == [status |-> t.status, queue |-> queue]
  <2>1. /\ Target \in DOMAIN t.queue /\ best \in Affected(old.candidates, Target)
        /\ t.queue[Target].active[best[3]] > 0 /\ AllFree(t.status[Target], Target[1], best[3])
        /\ needed \in Fraction
    BY <1>1, <1>3, SuitedIs DEF SuitedTo
  <2>2. /\ LeftBy05b(w).status = old.status
        /\ LeftBy05b(w).queue = QueuePut(old.queue, Target, row)
        /\ LeftBy05b(w).candidates = Crowded(old.candidates, best, length, wait)
    BY <1>3, TiedBy05b
  <2>3. Target[1] \in Stations /\ Fits(Target[1], t.status[Target], t.queue[Target])
    BY <1>1, <2>1 DEF FitTables, TablesShaped
  <2>4. Fits(Target[1], t.status[Target], row)
    <3>1. row = Lengthen(t.queue[Target], best[3], old.status.rows[Target].busy[best[3]], needed)
      BY <1>1 DEF Longer
    <3> HIDE DEF row, t, best, needed, old
    <3> QED BY <2>1, <2>3, <3>1, LengthenFits
  <2>5. FitTables(new) /\ HalfMirrors(Crowded(old.candidates, best, length, wait), new)
    <3> HIDE DEF row, length, wait, best, old, t
    <3> QED BY <1>1, <2>1, <2>4, TiedHalf
  <2>6. LeftBy05b(w).queue.rows = queue
    <3>1. old.queue = [split |-> TRUE, rows |-> t.queue]
      BY LeftBy05Is
    <3> HIDE DEF row, old, t
    <3> QED BY <2>2, <3>1 DEF QueuePut
  <2> HIDE DEF row, length, wait, queue, old, t
  <2>7. new.status = t.status /\ new.queue = queue
    OBVIOUS
  <2> HIDE DEF new
  <2> QED BY <1>1, <2>2, <2>5, <2>6, <2>7
<1> QED BY <1>2, <1>3

(* 05c completes the update; 06 and 07 see the same in what they rebuild.  *)
LEMMA SyncedMirrors ==
  ASSUME NEW candidates, NEW t, HalfMirrors(candidates, t)
  PROVE  Mirrors(Synced(candidates, Target, t.status, t.queue), t)
<1> DEFINE new == Synced(candidates, Target, t.status, t.queue)
           seen(k) == Observed(t.status, t.queue, Target[1], Target[2], k[3])
           now(k) == [seen(k) EXCEPT !.status = candidates[k].state.status]
<1>1. /\ DOMAIN new = DOMAIN candidates
      /\ \A k \in DOMAIN candidates :
           new[k] = IF k \in Affected(candidates, Target) /\ k[3] # "NONE"
                    THEN [reason |-> candidates[k].reason, leg |-> candidates[k].leg, state |-> now(k)]
                    ELSE candidates[k]
  BY SyncedIs DEF HalfMirrors
<1> HIDE DEF new, now
<1>2. \A k \in DOMAIN candidates : MirrorsOf(k, new[k], t)
  <2> TAKE k \in DOMAIN candidates
  <2>1. CASE k \notin Affected(candidates, Target)
    BY <1>1, <2>1 DEF HalfMirrors
  <2>2. CASE k[3] = "NONE"
    BY <2>2 DEF MirrorsOf
  <2>3. CASE k \in Affected(candidates, Target) /\ k[3] # "NONE"
    <3>1. Target[1] = k[2] /\ Target[2] = SnapshotOf(k[1]).time
      BY <2>3 DEF Affected
    <3>2. seen(k) = Observed(t.status, t.queue, k[2], SnapshotOf(k[1]).time, k[3])
      BY <3>1
    <3> HIDE DEF seen
    <3>3. candidates[k].state.status = seen(k).status
      BY <2>3, <3>2 DEF HalfMirrors
    <3>4. now(k) = [seen(k) EXCEPT !.status = seen(k).status]
      BY <3>3 DEF now
    <3>5. \A v : LET o == Observed(t.status, t.queue, Target[1], Target[2], v)
                 IN  [o EXCEPT !.status = o.status] = o
      BY DEF Observed, Unknown
    <3>6. now(k) = seen(k)
      BY <3>4, <3>5 DEF seen
    <3>7. new[k].state = seen(k)
      BY <1>1, <2>3, <3>6
    <3> QED BY <3>2, <3>7 DEF MirrorsOf
  <2> QED BY <2>1, <2>2, <2>3
<1>3. Mirrors(new, t)
  BY <1>1, <1>2 DEF Mirrors
<1> QED BY <1>3 DEF new

LEMMA RowsMirror ==
  ASSUME NEW t, FitTables(t), NEW d, d.status.rows = t.status, d.queue.rows = t.queue, NEW version,
         NEW keys, \A k \in keys : k[3] \in Services, NEW demand, NEW normalized
  PROVE  Mirrors(Rows(version, keys, demand, normalized, RebuiltTables(d).status, RebuiltTables(d).queue), t)
<1> DEFINE status == RebuiltTables(d).status
           queue == RebuiltTables(d).queue
           table == Rows(version, keys, demand, normalized, status, queue)
<1>1. /\ DOMAIN table = keys
      /\ \A k \in keys : table[k].state = Observed(status, queue, k[2], SnapshotOf(k[1]).time, k[3])
  <2> HIDE DEF status, queue
  <2> QED BY DEF Rows, CandidateRow
<1> HIDE DEF table
<1>2. \A k \in keys : MirrorsOf(k, table[k], t)
  <2> TAKE k \in keys
  <2> DEFINE s == k[2]
             time == SnapshotOf(k[1]).time
             v == k[3]
  <2>1. table[k].state = Observed(status, queue, s, time, v) /\ v \in Services
    BY <1>1
  <2> HIDE DEF s, time, v
  <2>2. Observed(status, queue, s, time, v) = Observed(t.status, t.queue, s, time, v)
    BY <2>1, ObservedAgain
  <2> QED BY <2>1, <2>2 DEF MirrorsOf, s, time, v
<1>3. Mirrors(table, t)
  BY <1>1, <1>2 DEF Mirrors
<1> QED BY <1>3 DEF table

(* What the last three scripts leave.                                      *)
Agrees(w, n, t) ==
  /\ Left(w, n).status.rows = t.status /\ Left(w, n).queue.rows = t.queue
  /\ Mirrors(Left(w, n).candidates, t)

LEMMA TablesStay ==
  ASSUME NEW w, NEW n \in {5, 6, 7}
  PROVE  Left(w, n).status = Left(w, n - 1).status /\ Left(w, n).queue = Left(w, n - 1).queue
<1> DEFINE old == Left(w, n - 1)
           output == Output(Scripts[n], w, old)
<1>1. \A i \in 1..Len(output) : output[i].file # "status" /\ output[i].file # "queue"
  <2>1. CASE n = 5
    <3>1. output = Output05c(old)
      BY <2>1, ScriptsAre, OutputsAre
    <3> HIDE DEF old
    <3>2. Len(output) = 3 /\ \A i \in 1..3 : output[i].file # "status" /\ output[i].file # "queue"
      BY <3>1 DEF Output05c, File
    <3> QED BY <3>2
  <2>2. CASE n = 6
    <3>1. output = Output06(old)
      BY <2>2, ScriptsAre, OutputsAre
    <3> HIDE DEF old
    <3>2. Len(output) = 12 /\ \A i \in 1..12 : output[i].file # "status" /\ output[i].file # "queue"
      BY <3>1 DEF Output06, Driven06, Demanded06, Tables06, Labelled06, Results06, File
    <3> QED BY <3>2
  <2>3. CASE n = 7
    <3>1. output = Output07(old)
      BY <2>3, ScriptsAre, OutputsAre
    <3> HIDE DEF old
    <3>2. Len(output) = 9 /\ \A i \in 1..9 : output[i].file # "status" /\ output[i].file # "queue"
      BY <3>1 DEF Output07, Tables07, Labelled07, Results07, File
    <3> QED BY <3>2
  <2> QED BY <2>1, <2>2, <2>3
<1>2. "status" \in Names \ {"checked"} /\ "queue" \in Names \ {"checked"} /\ n \in 1..7
  BY DEF Names
<1> HIDE DEF output
<1>3. Left(w, n)["status"] = Left(w, n - 1)["status"] /\ Left(w, n)["queue"] = Left(w, n - 1)["queue"]
  BY <1>1, <1>2, KeptFile DEF output
<1> QED BY <1>3

LEMMA LeftAgree ==
  ASSUME NEW w \in Worlds
  PROVE  \E t : \A n \in {5, 6, 7} : Agrees(w, n, t)
<1>1. PICK t : /\ FitTables(t) /\ LeftBy05b(w).status.rows = t.status /\ LeftBy05b(w).queue.rows = t.queue
               /\ HalfMirrors(LeftBy05b(w).candidates, t)
  BY TablesBy05b
<1>2. \A n \in {5, 6, 7} : Left(w, n).status.rows = t.status /\ Left(w, n).queue.rows = t.queue
  <2>1. Left(w, 5).status = LeftBy05b(w).status /\ Left(w, 5).queue = LeftBy05b(w).queue
    <3>1. 5 \in {5, 6, 7} /\ 5 - 1 = 4
      OBVIOUS
    <3> QED BY <3>1, TablesStay, LeftAre
  <2>2. Left(w, 6).status = Left(w, 5).status /\ Left(w, 6).queue = Left(w, 5).queue
    <3>1. 6 \in {5, 6, 7} /\ 6 - 1 = 5
      OBVIOUS
    <3> QED BY <3>1, TablesStay
  <2>3. Left(w, 7).status = Left(w, 6).status /\ Left(w, 7).queue = Left(w, 6).queue
    <3>1. 7 \in {5, 6, 7} /\ 7 - 1 = 6
      OBVIOUS
    <3> QED BY <3>1, TablesStay
  <2> QED BY <1>1, <2>1, <2>2, <2>3
<1>3. Mirrors(Left(w, 5).candidates, t)
  <2> DEFINE old == LeftBy05b(w)
             output == Output(Scripts[5], w, Left(w, 4))
             new == Synced(old.candidates, Target, t.status, t.queue)
  <2>1. output = Output05c(old)
    BY ScriptsAre, OutputsAre, LeftAre
  <2>2. Len(output) = 3 /\ output[1] = File("candidates", new)
    BY <1>1, <2>1 DEF Output05c
  <2>3. Mirrors(new, t)
    BY <1>1, SyncedMirrors
  <2>4. 5 \in 1..7 /\ 5 - 1 = 4 /\ 1 \in 1..Len(output)
    BY <2>2
  <2> HIDE DEF output, new
  <2>5. Left(w, 5)[output[1].file] = output[1].content
    BY <2>4, WroteFile DEF output
  <2> QED BY <2>2, <2>3, <2>5 DEF File
<1>4. Mirrors(Left(w, 6).candidates, t)
  <2> DEFINE old == Left(w, 5)
             output == Output(Scripts[6], w, old)
             vehicles == IF old.vehicles = OldVehicles THEN [v \in DOMAIN OldVehicles |-> Patched(v)]
                         ELSE old.vehicles
             battery == old.battery
             demand == DemandTable06(vehicles, battery)
             keys == {k \in Needing(demand) \X Stations \X Services : k[3] = demand[k[1]].requested}
             tables == RebuiltTables(old)
             new == Rows("06", keys, demand, TRUE, tables.status, tables.queue)
  <2>1. output = Tables06(vehicles, battery, demand, tables)
    BY ScriptsAre, OutputsAre DEF Output06, Driven06, Demanded06
  <2>2. CandidateTable06(demand, TRUE, tables.status, tables.queue) = new
    BY DEF CandidateTable06
  <2>3. \A k \in keys : k[3] \in Services
    OBVIOUS
  <2>4. Mirrors(new, t)
    <3>1. old.status.rows = t.status /\ old.queue.rows = t.queue
      BY <1>2
    <3> HIDE DEF old, demand, keys
    <3> QED BY <1>1, <2>3, <3>1, RowsMirror
  <2> HIDE DEF vehicles, battery, demand, keys, tables, new, output
  <2>5. Len(output) = 12 /\ output[9] = File("candidates", new)
    BY <2>1, <2>2 DEF Tables06, Labelled06, Results06
  <2>6. Left(w, 6)[output[9].file] = output[9].content
    <3>1. 6 \in 1..7 /\ 6 - 1 = 5 /\ 9 \in 1..Len(output)
      BY <2>5
    <3> QED BY <3>1, WroteFile DEF output
  <2> QED BY <2>4, <2>5, <2>6 DEF File
<1>5. Mirrors(Left(w, 7).candidates, t)
  <2> DEFINE old == Left(w, 6)
             output == Output(Scripts[7], w, old)
             demand == DemandTable07(old.vehicles, old.battery)
             services(row) == IF row.resolved # None THEN {row.resolved} ELSE AllowedServices(row.vehicle)
             all == {k \in Needing(demand) \X Stations \X Services : k[3] \in services(demand[k[1]])}
             tables == RebuiltTables(old)
             new == Rows("07", all, demand, old.normalized, tables.status, tables.queue)
  <2>1. output = Tables07(old, demand, tables)
    BY ScriptsAre, OutputsAre DEF Output07
  <2>2. CandidateTable07(demand, old.normalized, tables.status, tables.queue) = new
    BY DEF CandidateTable07
  <2>3. \A k \in all : k[3] \in Services
    OBVIOUS
  <2>4. Mirrors(new, t)
    <3>1. old.status.rows = t.status /\ old.queue.rows = t.queue
      BY <1>2
    <3> DEFINE normalized == old.normalized
    <3> HIDE DEF old, demand, all, normalized
    <3> QED BY <1>1, <2>3, <3>1, RowsMirror DEF normalized
  <2>5. Len(output) = 9 /\ output[5] = File("candidates", new)
    <3> DEFINE normalized == old.normalized
    <3>1. output = Results07(old, demand, tables, new, RankingTable(new))
      BY <2>1, <2>2 DEF Tables07, Labelled07
    <3> HIDE DEF new, demand, tables, old, output
    <3> QED BY <3>1 DEF Results07
  <2> HIDE DEF new, output
  <2>6. Left(w, 7)[output[5].file] = output[5].content
    <3>1. 7 \in 1..7 /\ 7 - 1 = 6 /\ 5 \in 1..Len(output)
      BY <2>5
    <3> QED BY <3>1, WroteFile DEF output
  <2> QED BY <2>4, <2>5, <2>6 DEF File
<1> QED BY <1>2, <1>3, <1>4, <1>5 DEF Agrees

(* From 05c on a candidate row says of its station what the tables of its  *)
(* ten minutes say, whatever was interrupted and run again, although 05c   *)
(* copies it and 06 and 07 compute it from tables they rebuild.            *)
THEOREM CandidatesFollow == Spec => []CandidatesMirrorState
<1>1. Retraced => CandidatesMirrorState
  <2> SUFFICES ASSUME Retraced, stage > 5 PROVE Mirrors(disk.candidates, [status |-> disk.status.rows, queue |-> disk.queue.rows])
    BY DEF CandidatesMirrorState, Mirrors, MirrorsOf
  <2> DEFINE Here == [status |-> disk.status.rows, queue |-> disk.queue.rows]
  <2>1. PICK t : \A n \in {5, 6, 7} : Agrees(world, n, t)
    BY LeftAgree DEF Retraced
  <2>2. stage \in {6, 7, 8}
    BY DoneIs DEF Retraced
  <2>3. CASE stage = 8
    <3>1. Alike(disk, Left(world, 7))
      BY <2>3, DoneIs, LeftAre DEF Retraced
    <3>2. disk.status = Left(world, 7).status /\ disk.queue = Left(world, 7).queue
          /\ disk.candidates = Left(world, 7).candidates
      BY <3>1 DEF Alike, Names
    <3> QED BY <2>1, <3>2 DEF Agrees, Mirrors, MirrorsOf
  <2>4. CASE stage \in {6, 7}
    <3>1. PICK m \in 0..Len(Made(world, stage)) - 1 : Running(world, stage, m)
      BY <2>4, DoneIs DEF Retraced
    <3>2. \A f \in Names \ {"checked"} : disk[f] = Left(world, stage - 1)[f] \/ disk[f] = Left(world, stage)[f]
      BY <2>4, <3>1, FoundOrLeft DEF Running
    <3>3. /\ disk.status = Left(world, stage - 1).status \/ disk.status = Left(world, stage).status
          /\ disk.queue = Left(world, stage - 1).queue \/ disk.queue = Left(world, stage).queue
          /\ disk.candidates = Left(world, stage - 1).candidates \/ disk.candidates = Left(world, stage).candidates
      BY <3>2 DEF Names
    <3>4. stage - 1 \in {5, 6, 7} /\ stage \in {5, 6, 7}
      BY <2>4
    <3>5. disk.status.rows = t.status /\ disk.queue.rows = t.queue /\ Mirrors(disk.candidates, t)
      BY <2>1, <3>3, <3>4 DEF Agrees
    <3> QED BY <3>5 DEF Mirrors, MirrorsOf
  <2> QED BY <2>2, <2>3, <2>4
<1> QED BY <1>1, RetracedAlways, PTL

-----------------------------------------------------------------------------
(* What the validator accepts.  First orders: comparing fractions and rows *)
(* by cross products is one, and places in it are counted from 1.          *)
LEMMA MulMono ==
  ASSUME NEW x \in Int, NEW y \in Int, NEW k \in Nat, x <= y
  PROVE  x * k <= y * k
OBVIOUS

LEMMA MulCancel ==
  ASSUME NEW x \in Int, NEW y \in Int, NEW k \in Nat \ {0}, x * k <= y * k
  PROVE  x <= y
OBVIOUS

LEMMA LeqTotal ==
  ASSUME NEW a \in Fraction, NEW b \in Fraction, ~Leq(a, b)
  PROVE  Leq(b, a)
BY DEF Leq, Fraction

LEMMA LeqTrans ==
  ASSUME NEW a \in Fraction, NEW b \in Fraction, NEW c \in Fraction, Leq(a, b), Leq(b, c)
  PROVE  Leq(a, c)
<1>1. PICK an \in Int, bn \in Int, cn \in Int, ad \in Nat \ {0}, bd \in Nat \ {0}, cd \in Nat \ {0} :
        /\ an = a.n /\ bn = b.n /\ cn = c.n /\ ad = a.d /\ bd = b.d /\ cd = c.d
        /\ an * bd <= bn * ad /\ bn * cd <= cn * bd
  BY DEF Fraction, Leq
<1>2. (an * bd) * cd <= (bn * ad) * cd /\ (bn * cd) * ad <= (cn * bd) * ad
  BY <1>1, MulMono
<1>3. (an * cd) * bd = (an * bd) * cd /\ (bn * ad) * cd = (bn * cd) * ad
      /\ (cn * bd) * ad = (cn * ad) * bd
  OBVIOUS
<1>4. (an * cd) * bd <= (cn * ad) * bd
  BY <1>2, <1>3
<1>5. an * cd <= cn * ad
  BY <1>4, MulCancel
<1> QED BY <1>1, <1>5 DEF Leq

(* The place of each of finitely many things in an order.                  *)
Order(S, R) ==
  /\ IsFiniteSet(S)
  /\ \A x \in S : <<x, x>> \notin R
  /\ \A x, y, z \in S : <<x, y>> \in R /\ <<y, z>> \in R => <<x, z>> \in R
  /\ \A x, y \in S : x # y => <<x, y>> \in R \/ <<y, x>> \in R

Before(S, R, x) == {y \in S : <<y, x>> \in R}

Places2(S, R, pos) == \A x \in S : pos[x] = 1 + Cardinality(Before(S, R, x))

LEMMA BeforeSize ==
  ASSUME NEW S, NEW R, Order(S, R), NEW x \in S
  PROVE  /\ IsFiniteSet(Before(S, R, x)) /\ Cardinality(Before(S, R, x)) \in 0..Cardinality(S) - 1
         /\ Cardinality(S) \in Nat
         /\ \A y \in Before(S, R, x) : Cardinality(Before(S, R, y)) < Cardinality(Before(S, R, x))
<1>1. IsFiniteSet(S) /\ Cardinality(S) \in Nat
  BY FS_CardinalityType DEF Order
<1>2. \A y \in S : /\ IsFiniteSet(Before(S, R, y)) /\ Cardinality(Before(S, R, y)) \in Nat
                   /\ Cardinality(Before(S, R, y)) <= Cardinality(S)
  <2> TAKE y \in S
  <2>1. Before(S, R, y) \in SUBSET S
    BY DEF Before
  <2> QED BY <1>1, <2>1, FS_Subset, FS_CardinalityType
<1>3. Cardinality(Before(S, R, x)) # Cardinality(S)
  <2>1. Before(S, R, x) \in SUBSET S /\ Before(S, R, x) # S
    BY DEF Before, Order
  <2> QED BY <1>1, <2>1, FS_Subset
<1>4. ASSUME NEW y \in Before(S, R, x)
      PROVE  Cardinality(Before(S, R, y)) < Cardinality(Before(S, R, x))
  <2>1. y \in S /\ <<y, x>> \in R
    BY DEF Before
  <2>2. Before(S, R, y) \in SUBSET Before(S, R, x)
    BY <2>1 DEF Before, Order
  <2>3. y \in Before(S, R, x) /\ y \notin Before(S, R, y)
    BY <2>1 DEF Before, Order
  <2>4. Cardinality(Before(S, R, y)) <= Cardinality(Before(S, R, x))
        /\ Cardinality(Before(S, R, x)) # Cardinality(Before(S, R, y))
    BY <1>2, <2>2, <2>3, FS_Subset
  <2> QED BY <1>2, <2>1, <2>4
<1> QED BY <1>1, <1>2, <1>3, <1>4

LEMMA PlacesAre ==
  ASSUME NEW S, NEW R, Order(S, R), NEW pos, Places2(S, R, pos)
  PROVE  /\ \A x, y \in S : <<x, y>> \in R => pos[x] < pos[y]
         /\ \A x, y \in S : pos[x] = pos[y] => x = y
         /\ \A x \in S : pos[x] \in 1..Cardinality(S)
         /\ {pos[x] : x \in S} = 1..Cardinality(S)
<1> DEFINE n == Cardinality(S)
           T == {pos[x] : x \in S}
           f == [x \in S |-> pos[x]]
<1>0. IsFiniteSet(S) /\ n \in Nat
  BY FS_CardinalityType DEF Order
<1>1. \A x \in S : pos[x] \in 1..n
  BY BeforeSize DEF Places2
<1>2. \A x, y \in S : <<x, y>> \in R => pos[x] < pos[y]
  <2> TAKE x, y \in S
  <2> HAVE <<x, y>> \in R
  <2>1. x \in Before(S, R, y)
    BY DEF Before
  <2>2. Cardinality(Before(S, R, x)) < Cardinality(Before(S, R, y))
    BY <2>1, BeforeSize
  <2>3. Cardinality(Before(S, R, x)) \in Int /\ Cardinality(Before(S, R, y)) \in Int
    BY BeforeSize
  <2> QED BY <2>2, <2>3 DEF Places2
<1>3. \A x, y \in S : pos[x] = pos[y] => x = y
  <2> TAKE x, y \in S
  <2>1. pos[x] \in Int /\ pos[y] \in Int
    BY <1>0, <1>1
  <2>2. x # y => <<x, y>> \in R \/ <<y, x>> \in R
    BY DEF Order
  <2> QED BY <1>2, <2>1, <2>2
<1>4. f \in Bijection(S, T)
  <2>1. f \in [S -> T] /\ \A x, y \in S : f[x] = f[y] => x = y
    BY <1>3
  <2>2. \A t \in T : \E x \in S : f[x] = t
    OBVIOUS
  <2> QED BY <2>1, <2>2, Zenon DEF Bijection, Injection, IsInjective, Surjection
<1>5. IsFiniteSet(T) /\ Cardinality(T) = n
  BY <1>0, <1>4, FS_Bijection DEF ExistsBijection
<1>6. T \in SUBSET (1..n)
  BY <1>1
<1>7. IsFiniteSet(1..n) /\ Cardinality(1..n) = n
  BY <1>0, FS_Interval
<1>8. T = 1..n
  <2> HIDE DEF T
  <2> QED BY <1>5, <1>6, <1>7, FS_Subset
<1> QED BY <1>1, <1>2, <1>3, <1>8

(* The first m of them.                                                    *)
LEMMA FirstPlaces ==
  ASSUME NEW S, IsFiniteSet(S), NEW pos, NEW c \in Nat, NEW m \in Nat,
         \A x, y \in S : pos[x] = pos[y] => x = y, {pos[x] : x \in S} = 1..c
  PROVE  /\ IsFiniteSet({x \in S : pos[x] <= m})
         /\ Cardinality({x \in S : pos[x] <= m}) = IF m < c THEN m ELSE c
<1> DEFINE T == {x \in S : pos[x] <= m}
           k == IF m < c THEN m ELSE c
           f == [x \in T |-> pos[x]]
<1>0. k \in Nat
  OBVIOUS
<1>1. IsFiniteSet(T)
  <2>1. T \in SUBSET S
    OBVIOUS
  <2> HIDE DEF T
  <2> QED BY <2>1, FS_Subset
<1>2. \A x \in S : pos[x] \in 1..c
  OBVIOUS
<1>3. f \in [T -> 1..k] /\ \A x, y \in T : f[x] = f[y] => x = y
  BY <1>2
<1>4. ASSUME NEW i \in 1..k
      PROVE  \E x \in T : f[x] = i
  <2>1. i \in 1..c /\ i <= m
    OBVIOUS
  <2>2. PICK x \in S : pos[x] = i
    BY <2>1
  <2> QED BY <2>1, <2>2
<1>5. f \in Bijection(T, 1..k)
  <2> HIDE DEF T, k, f
  <2> QED BY <1>3, <1>4, Zenon DEF Bijection, Injection, IsInjective, Surjection
<1>6. Cardinality(1..k) = Cardinality(T)
  <2> HIDE DEF T, k
  <2> QED BY <1>1, <1>5, FS_Bijection DEF ExistsBijection
<1>7. Cardinality(1..k) = k
  <2> HIDE DEF k
  <2> QED BY <1>0, FS_Interval
<1> QED BY <1>1, <1>6, <1>7

LEMMA KeysFinite ==
  ASSUME NEW e
  PROVE  IsFiniteSet({e} \X Stations \X Services)
<1> DEFINE T == {e} \X Stations \X Services
           f == [p \in Stations \X Services |-> <<e, p[1], p[2]>>]
<1>1. IsFiniteSet(Services)
  <2>1. IsFiniteSet({"CHARGING"}) /\ IsFiniteSet({"BATTERY_SWAP"})
    BY FS_Singleton
  <2>2. Services = {"CHARGING"} \cup {"BATTERY_SWAP"}
    BY DEF Services
  <2> QED BY <2>1, <2>2, FS_Union
<1>2. IsFiniteSet(Stations \X Services)
  BY <1>1, SiteAssumption, FS_Product
<1>3. f \in [Stations \X Services -> T]
  OBVIOUS
<1>4. \A t \in T : \E p \in Stations \X Services : f[p] = t
  <2> TAKE t \in T
  <2>1. <<t[2], t[3]>> \in Stations \X Services /\ t = <<e, t[2], t[3]>>
    OBVIOUS
  <2>2. f[<<t[2], t[3]>>] = t
    BY <2>1
  <2> QED BY <2>1, <2>2
<1>5. f \in Surjection(Stations \X Services, T)
  <2> HIDE DEF f, T
  <2> QED BY <1>3, <1>4, Zenon DEF Surjection
<1> HIDE DEF f, T
<1>6. IsFiniteSet(T)
  BY <1>2, <1>5, FS_Surjection
<1> QED BY <1>6 DEF T

(* By distance, or by cost, then station, then service: the order of a list*)
(* of candidates, and of a ranking.                                        *)
Keys(e) == {e} \X Stations \X Services

ByStation(k, l) ==
  \/ StationNumber[k[2]] < StationNumber[l[2]]
  \/ k[2] = l[2] /\ k[3] = "CHARGING" /\ l[3] # "CHARGING"

LEMMA KeyIs ==
  ASSUME NEW e, NEW k \in Keys(e)
  PROVE  /\ k[1] = e /\ k[2] \in Stations /\ k[3] \in {"CHARGING", "BATTERY_SWAP"}
         /\ k = <<e, k[2], k[3]>> /\ StationNumber[k[2]] \in Nat
<1>1. k[1] = e /\ k[2] \in Stations /\ k[3] \in {"CHARGING", "BATTERY_SWAP"}
      /\ k = <<e, k[2], k[3]>>
  BY DEF Keys, Services
<1>2. StationNumber[k[2]] \in Nat
  BY <1>1, RankingAssumption
<1> QED BY <1>1, <1>2

LEMMA ByStationOrders ==
  ASSUME NEW e, NEW k \in Keys(e), NEW l \in Keys(e), NEW m \in Keys(e)
  PROVE  /\ ~ByStation(k, k)
         /\ ByStation(k, l) /\ ByStation(l, m) => ByStation(k, m)
         /\ k # l => ByStation(k, l) \/ ByStation(l, k)
<1>1. PICK a \in Nat, b \in Nat, c \in Nat :
        a = StationNumber[k[2]] /\ b = StationNumber[l[2]] /\ c = StationNumber[m[2]]
  BY KeyIs
<1>2. (a = b <=> k[2] = l[2]) /\ (b = c <=> l[2] = m[2]) /\ (a = c <=> k[2] = m[2])
  BY <1>1, KeyIs, RankingAssumption
<1>3. k[2] = l[2] /\ k[3] = l[3] => k = l
  BY KeyIs
<1>4. k[3] \in {"CHARGING", "BATTERY_SWAP"} /\ l[3] \in {"CHARGING", "BATTERY_SWAP"}
      /\ m[3] \in {"CHARGING", "BATTERY_SWAP"}
  BY KeyIs
<1>5. /\ ByStation(k, k) <=> a < a \/ (k[3] = "CHARGING" /\ k[3] # "CHARGING")
      /\ ByStation(k, l) <=> a < b \/ (a = b /\ k[3] = "CHARGING" /\ l[3] # "CHARGING")
      /\ ByStation(l, k) <=> b < a \/ (a = b /\ l[3] = "CHARGING" /\ k[3] # "CHARGING")
      /\ ByStation(l, m) <=> b < c \/ (b = c /\ l[3] = "CHARGING" /\ m[3] # "CHARGING")
      /\ ByStation(k, m) <=> a < c \/ (a = c /\ k[3] = "CHARGING" /\ m[3] # "CHARGING")
  BY <1>1, <1>2 DEF ByStation
<1>6. ~ByStation(k, k)
  BY <1>5
<1>7. ByStation(k, l) /\ ByStation(l, m) => ByStation(k, m)
  BY <1>5
<1>8. k # l => ByStation(k, l) \/ ByStation(l, k)
  BY <1>2, <1>3, <1>4, <1>5
<1> QED BY <1>6, <1>7, <1>8

LEMMA LexicographicOrder ==
  ASSUME NEW e, NEW S, S \subseteq Keys(e), NEW W, NEW R,
         \A k, l \in S : <<k, l>> \in R <=> <<k, l>> \in W \/ (<<l, k>> \notin W /\ ByStation(k, l)),
         \A k, l \in S : ~(<<k, l>> \in W /\ <<l, k>> \in W),
         \A k, l, m \in S : <<k, l>> \notin W /\ <<l, m>> \notin W => <<k, m>> \notin W
  PROVE  Order(S, R)
<1>1. IsFiniteSet(S)
  BY KeysFinite, FS_Subset DEF Keys
<1>2. \A k \in S : <<k, k>> \notin R
  <2> TAKE k \in S
  <2>1. ~ByStation(k, k)
    BY ByStationOrders
  <2> QED BY <2>1
<1>3. \A k, l, m \in S : <<k, l>> \in R /\ <<l, m>> \in R => <<k, m>> \in R
  <2> TAKE k, l, m \in S
  <2>1. ByStation(k, l) /\ ByStation(l, m) => ByStation(k, m)
    BY ByStationOrders
  <2>2. /\ <<k, l>> \in R <=> <<k, l>> \in W \/ (<<l, k>> \notin W /\ ByStation(k, l))
        /\ <<l, m>> \in R <=> <<l, m>> \in W \/ (<<m, l>> \notin W /\ ByStation(l, m))
        /\ <<k, m>> \in R <=> <<k, m>> \in W \/ (<<m, k>> \notin W /\ ByStation(k, m))
    OBVIOUS
  <2>3. /\ ~(<<k, l>> \in W /\ <<l, k>> \in W) /\ ~(<<l, m>> \in W /\ <<m, l>> \in W)
    OBVIOUS
  <2>4. /\ <<k, m>> \notin W /\ <<m, l>> \notin W => <<k, l>> \notin W
        /\ <<l, k>> \notin W /\ <<k, m>> \notin W => <<l, m>> \notin W
        /\ <<m, l>> \notin W /\ <<l, k>> \notin W => <<m, k>> \notin W
        /\ <<m, k>> \notin W /\ <<k, m>> \notin W => TRUE
    OBVIOUS
  <2> QED BY <2>1, <2>2, <2>3, <2>4
<1>4. \A k, l \in S : k # l => <<k, l>> \in R \/ <<l, k>> \in R
  <2> TAKE k, l \in S
  <2>1. k # l => ByStation(k, l) \/ ByStation(l, k)
    BY ByStationOrders
  <2> QED BY <2>1
<1> QED BY <1>1, <1>2, <1>3, <1>4 DEF Order

Nearness(candidates, S) == {p \in S \X S : Nearer(candidates, p[1], p[2])}

LEMMA NearerOrders ==
  ASSUME NEW candidates, NEW e, NEW S, S \subseteq Keys(e),
         \A k \in S : candidates[k].leg.distance \in Nat
  PROVE  Order(S, Nearness(candidates, S))
<1> DEFINE W == {p \in S \X S : candidates[p[1]].leg.distance < candidates[p[2]].leg.distance}
           R == Nearness(candidates, S)
<1>1. ASSUME NEW k \in S, NEW l \in S
      PROVE  <<k, l>> \in W <=> candidates[k].leg.distance < candidates[l].leg.distance
  OBVIOUS
<1>2. ASSUME NEW k \in S, NEW l \in S
      PROVE  <<k, l>> \in R <=> <<k, l>> \in W \/ (<<l, k>> \notin W /\ ByStation(k, l))
  <2>1. PICK x \in Nat, y \in Nat : x = candidates[k].leg.distance /\ y = candidates[l].leg.distance
    OBVIOUS
  <2>2. (<<k, l>> \in W <=> x < y) /\ (<<l, k>> \in W <=> y < x)
    BY <1>1, <2>1
  <2>3. <<k, l>> \in R <=> Nearer(candidates, k, l)
    BY DEF Nearness
  <2>4. Nearer(candidates, k, l) <=> x < y \/ (x = y /\ ByStation(k, l))
    BY <2>1 DEF Nearer, ByStation
  <2> HIDE DEF W, R
  <2> QED BY <2>1, <2>2, <2>3, <2>4
<1>3. ASSUME NEW k \in S, NEW l \in S, NEW m \in S
      PROVE  /\ ~(<<k, l>> \in W /\ <<l, k>> \in W)
             /\ <<k, l>> \notin W /\ <<l, m>> \notin W => <<k, m>> \notin W
  <2>1. PICK x \in Nat, y \in Nat, z \in Nat :
          x = candidates[k].leg.distance /\ y = candidates[l].leg.distance
          /\ z = candidates[m].leg.distance
    OBVIOUS
  <2>2. (<<k, l>> \in W <=> x < y) /\ (<<l, k>> \in W <=> y < x)
        /\ (<<l, m>> \in W <=> y < z) /\ (<<k, m>> \in W <=> x < z)
    BY <1>1, <2>1
  <2> HIDE DEF W
  <2> QED BY <2>2
<1> HIDE DEF W, R
<1>4. Order(S, R)
  BY <1>2, <1>3, LexicographicOrder
<1> QED BY <1>4 DEF R

Cheapness(costs, S) == {p \in S \X S : Cheaper(costs, p[1], p[2])}

LEMMA CheaperOrders ==
  ASSUME NEW costs, NEW e, NEW S, S \subseteq Keys(e),
         \A k \in S : costs[k] \in Fraction
  PROVE  Order(S, Cheapness(costs, S))
<1> DEFINE W == {p \in S \X S : Less(costs[p[1]], costs[p[2]])}
           R == Cheapness(costs, S)
<1>1. ASSUME NEW k \in S, NEW l \in S
      PROVE  <<k, l>> \in W <=> Less(costs[k], costs[l])
  OBVIOUS
<1>2. ASSUME NEW k \in S, NEW l \in S
      PROVE  <<k, l>> \in R <=> <<k, l>> \in W \/ (<<l, k>> \notin W /\ ByStation(k, l))
  <2>1. (<<k, l>> \in W <=> Less(costs[k], costs[l])) /\ (<<l, k>> \in W <=> Less(costs[l], costs[k]))
    BY <1>1
  <2>2. <<k, l>> \in R <=> Cheaper(costs, k, l)
    BY DEF Cheapness
  <2> HIDE DEF W, R
  <2> QED BY <2>1, <2>2 DEF Cheaper, ByStation
<1>3. ASSUME NEW k \in S, NEW l \in S, NEW m \in S
      PROVE  /\ ~(<<k, l>> \in W /\ <<l, k>> \in W)
             /\ <<k, l>> \notin W /\ <<l, m>> \notin W => <<k, m>> \notin W
  <2>1. PICK x \in Fraction, y \in Fraction, z \in Fraction :
          x = costs[k] /\ y = costs[l] /\ z = costs[m]
    OBVIOUS
  <2>2. (<<k, l>> \in W <=> Less(x, y)) /\ (<<l, k>> \in W <=> Less(y, x))
        /\ (<<l, m>> \in W <=> Less(y, z)) /\ (<<k, m>> \in W <=> Less(x, z))
    BY <1>1, <2>1
  <2>3. ~(Less(x, y) /\ Less(y, x))
    BY LeqTotal DEF Less
  <2>4. Leq(z, y) /\ Leq(y, x) => Leq(z, x)
    BY LeqTrans
  <2> HIDE DEF W
  <2> QED BY <2>2, <2>3, <2>4 DEF Less
<1> HIDE DEF W, R
<1>4. Order(S, R)
  BY <1>2, <1>3, LexicographicOrder
<1> QED BY <1>4 DEF R

-----------------------------------------------------------------------------
(* The ranking of a table of candidates.                                   *)
OfSnapshot(e) == e \in Trips \X Nat \X {"AUTO"} /\ e[2] \in Snapshots(e[1])

LEMMA AutoEventIs ==
  ASSUME NEW e \in AutoEvents
  PROVE  OfSnapshot(e) /\ SnapshotOf(e) \in Moment /\ e[1] \in Trips /\ e[2] \in Snapshots(e[1])
<1>1. PICK t \in Trips : \E i \in Snapshots(t) : e = <<t, i, "AUTO">>
  BY DEF AutoEvents
<1>0. PICK i \in Snapshots(t) : e = <<t, i, "AUTO">>
  BY <1>1
<1>2. Trip[t].snapshots \in Seq(Moment)
  BY TripsAssumption
<1>3. i \in Nat /\ Trip[t].snapshots[i] \in Moment
  BY <1>2 DEF Snapshots
<1>4. e[1] = t /\ e[2] = i
  BY <1>0
<1> QED BY <1>0, <1>3, <1>4 DEF OfSnapshot, SnapshotOf

Rankable(k, row) ==
  row.reason = "ELIGIBLE" =>
    /\ row.leg \in Leg /\ row.leg = SnapshotOf(k[1]).network[<<"origin", k[2]>>]
    /\ row.state.capacity \in Int /\ row.state.wait \in Fraction

AllRankable(candidates) ==
  /\ DOMAIN candidates \subseteq AutoEvents \X Stations \X Services
  /\ \A k \in DOMAIN candidates : Rankable(k, candidates[k])

LEMMA EligibleIs ==
  ASSUME NEW c, AllRankable(c), NEW e
  PROVE  /\ Eligible(c, e) \subseteq Keys(e) /\ Eligible(c, e) \subseteq DOMAIN c
         /\ \A k \in Eligible(c, e) : c[k].leg.distance \in Nat /\ Rankable(k, c[k]) /\ c[k].reason = "ELIGIBLE"
<1> SUFFICES ASSUME NEW k \in Eligible(c, e)
             PROVE  /\ k \in Keys(e) /\ k \in DOMAIN c
                    /\ c[k].leg.distance \in Nat /\ Rankable(k, c[k]) /\ c[k].reason = "ELIGIBLE"
  OBVIOUS
<1>1. k \in DOMAIN c /\ k[1] = e /\ c[k].reason = "ELIGIBLE" /\ k \in AutoEvents \X Stations \X Services
  BY DEF Eligible, AllRankable
<1>2. k \in Keys(e)
  BY <1>1 DEF Keys
<1>3. Rankable(k, c[k]) /\ c[k].leg \in Leg
  BY <1>1 DEF AllRankable, Rankable
<1>4. c[k].leg.distance \in Nat
  BY <1>3 DEF Leg
<1> QED BY <1>1, <1>2, <1>3, <1>4

LEMMA GroupIs ==
  ASSUME NEW c, AllRankable(c), NEW e
  PROVE  /\ Group(c, e) \subseteq Eligible(c, e) /\ IsFiniteSet(Group(c, e))
         /\ Cardinality(Eligible(c, e)) \in Nat /\ Cardinality(Group(c, e)) \in Nat
         /\ Cardinality(Group(c, e)) <= MaxGroup
         /\ Cardinality(Eligible(c, e)) >= 2 <=> Cardinality(Group(c, e)) >= 2
         /\ Eligible(c, e) # {} <=> Group(c, e) # {}
<1> DEFINE rows == Eligible(c, e)
           R == Nearness(c, rows)
           pos == [x \in rows |-> 1 + Cardinality(Before(rows, R, x))]
           n == Cardinality(rows)
           m == MaxGroup
<1>0. m \in Nat /\ m >= 2
  BY RankingAssumption
<1>1. Order(rows, R)
  BY EligibleIs, NearerOrders
<1>2. IsFiniteSet(rows) /\ n \in Nat
  BY <1>1, FS_CardinalityType DEF Order
<1>3. \A x \in rows : Before(rows, R, x) = {l \in rows : Nearer(c, l, x)}
  BY DEF Before, Nearness
<1>4. \A x \in rows : Cardinality(Before(rows, R, x)) \in Nat
  BY <1>1, BeforeSize
<1>5. Group(c, e) = {x \in rows : Cardinality(Before(rows, R, x)) < m}
  BY <1>3 DEF Group
<1>6. Places2(rows, R, pos)
  BY DEF Places2
<1> HIDE DEF rows, R
<1>7. Group(c, e) = {x \in rows : pos[x] <= m}
  BY <1>0, <1>4, <1>5
<1> HIDE DEF pos, n, m
<1>8. /\ \A x, y \in rows : pos[x] = pos[y] => x = y
      /\ {pos[x] : x \in rows} = 1..n
  BY <1>1, <1>6, PlacesAre DEF n
<1>9. /\ IsFiniteSet(Group(c, e))
      /\ Cardinality(Group(c, e)) = IF m < n THEN m ELSE n
  <2>1. /\ IsFiniteSet({x \in rows : pos[x] <= m})
        /\ Cardinality({x \in rows : pos[x] <= m}) = IF m < n THEN m ELSE n
    <3>1. m \in Nat /\ n \in Nat /\ IsFiniteSet(rows)
      BY <1>0, <1>2
    <3> QED BY ONLY <3>1, <1>8, FirstPlaces
  <2> QED BY <1>7, <2>1
<1>10. rows # {} <=> n # 0
  BY <1>2, FS_EmptySet DEF n
<1>11. Group(c, e) # {} <=> Cardinality(Group(c, e)) # 0
  BY <1>9, FS_EmptySet
<1> QED BY <1>0, <1>2, <1>5, <1>9, <1>10, <1>11 DEF n, rows, m

(* A price is a fraction.                                                  *)
LEMMA WholeType ==
  ASSUME NEW x \in Int
  PROVE  Whole(x) \in Fraction /\ Whole(x).n = x /\ Whole(x).d = 1
BY DEF Whole, Fraction

LEMMA SumType ==
  ASSUME NEW a \in Fraction, NEW b \in Fraction
  PROVE  Plus(a, b) \in Fraction /\ Minus(a, b) \in Fraction
<1>1. a.n * b.d + b.n * a.d \in Int /\ a.n * b.d - b.n * a.d \in Int /\ a.d * b.d \in Nat \ {0}
  BY DEF Fraction
<1> QED BY <1>1, QValue DEF Plus, Minus

LEMMA PercentType ==
  ASSUME NEW p \in Int, NEW a \in Fraction
  PROVE  Percent(p, a) \in Fraction
<1>1. p * a.n \in Int /\ 100 * a.d \in Nat \ {0}
  BY DEF Fraction
<1> QED BY <1>1, QValue DEF Percent

LEMMA RoadIs ==
  ASSUME NEW e \in AutoEvents, NEW s \in Stations, SnapshotOf(e).network[<<"origin", s>>] \in Leg
  PROVE  /\ SnapshotOf(e).network[<<s, "destination">>] \in Leg /\ Complete(e, s)
         /\ SnapshotOf(e).delay[1] \in Nat /\ SnapshotOf(e).delay[2] \in Nat /\ SnapshotOf(e).left \in Int
         /\ SnapshotOf(e).travelled \in Nat /\ Trip[e[1]].planned \in Nat
<1> DEFINE snapshot == SnapshotOf(e)
           network == snapshot.network
           places == ({"origin"} \X Stations) \cup (Stations \X {"destination"})
<1>1. snapshot \in Moment /\ e[1] \in Trips /\ e[2] \in Snapshots(e[1])
  BY AutoEventIs
<1>2. /\ network \in [places -> Leg \cup {None}] /\ snapshot.delay \in [{1, 2} -> Nat]
      /\ snapshot.left \in Int /\ snapshot.travelled \in Nat
  BY <1>1 DEF Moment
<1>3. OnTheWay(Trip[e[1]].snapshots) /\ Trip[e[1]].planned \in Nat
  BY <1>1, TripsAssumption
<1>4. network[<<"origin", s>>] # None => network[<<s, "destination">>] # None
  BY <1>1, <1>3 DEF OnTheWay, SnapshotOf, Snapshots
<1>5. None \notin Leg
  BY RankingAssumption
<1>6. <<s, "destination">> \in places
  OBVIOUS
<1> HIDE DEF places, snapshot
<1>7. network[<<s, "destination">>] \in Leg
  BY <1>2, <1>4, <1>5, <1>6 DEF snapshot
<1>8. Complete(e, s)
  BY <1>5, <1>7 DEF Complete, snapshot
<1> QED BY <1>2, <1>3, <1>7, <1>8 DEF snapshot

LEMMA CostType ==
  ASSUME NEW e \in AutoEvents, NEW s \in Stations, SnapshotOf(e).network[<<"origin", s>>] \in Leg,
         NEW v \in Services, NEW capacity \in Int, NEW wait \in Fraction
  PROVE  CostOf(e, s, v, capacity, wait) \in Fraction
<1> DEFINE snapshot == SnapshotOf(e)
           in == snapshot.network[<<"origin", s>>]
           out == snapshot.network[<<s, "destination">>]
           later == Most2(0, in.duration + out.duration - Most2(0, snapshot.left))
           further == Most2(0, in.distance + out.distance - RemainingKm(e[1], e[2]))
           onward == Plus(Percent(snapshot.delay[1], Whole(in.duration)),
                          Percent(snapshot.delay[2], Whole(out.duration)))
           onTime == Plus(Plus(onward, Whole(ServiceTime[v])), wait)
           delayed == Plus(Q(later, 4), Q(2 * further, Km))
           spare == Percent(35, Whole(Least2(capacity, 6)))
<1>1. /\ in \in Leg /\ out \in Leg /\ snapshot.left \in Int /\ snapshot.travelled \in Nat
      /\ snapshot.delay[1] \in Nat /\ snapshot.delay[2] \in Nat /\ Trip[e[1]].planned \in Nat
  BY RoadIs
<1>2. in.distance \in Nat /\ in.duration \in Nat /\ out.distance \in Nat /\ out.duration \in Nat
  BY <1>1 DEF Leg
<1>3. RemainingKm(e[1], e[2]) \in Int
  <2>1. RemainingKm(e[1], e[2]) = Most2(0, Trip[e[1]].planned - snapshot.travelled)
    BY DEF RemainingKm, SnapshotOf
  <2> HIDE DEF snapshot
  <2> QED BY <1>1, <2>1 DEF Most2
<1>4. CostOf(e, s, v, capacity, wait) = Minus(Plus(onTime, delayed), spare)
  BY DEF CostOf, CostAt, OnTheRoad
<1> HIDE DEF snapshot, in, out
<1>5. later \in Int /\ further \in Int /\ 2 * further \in Int
  BY <1>1, <1>2, <1>3 DEF Most2
<1>6. ServiceTime[v] \in Int
  BY ServiceTimeAssumption
<1>7. Km \in Nat \ {0}
  BY PolicyAssumption
<1> HIDE DEF later, further
<1>8. onward \in Fraction
  BY <1>1, <1>2, WholeType, PercentType, SumType
<1> HIDE DEF onward
<1>9. onTime \in Fraction
  BY <1>6, <1>8, WholeType, SumType
<1>10. delayed \in Fraction
  <2>1. Q(later, 4) \in Fraction
    BY <1>5, QValue
  <2>2. Q(2 * further, Km) \in Fraction
    BY <1>5, <1>7, QValue
  <2> QED BY <2>1, <2>2, SumType
<1>11. spare \in Fraction
  <2>1. Least2(capacity, 6) \in Int
    BY DEF Least2
  <2> QED BY <2>1, WholeType, PercentType
<1> HIDE DEF onTime, delayed, spare
<1> QED BY <1>4, <1>9, <1>10, <1>11, SumType

PricedAs(c, k) == CostOf(k[1], k[2], k[3], c[k].state.capacity, c[k].state.wait)

LEMMA EligiblePriced ==
  ASSUME NEW c, AllRankable(c), NEW k \in DOMAIN c, c[k].reason = "ELIGIBLE"
  PROVE  PricedAs(c, k) \in Fraction /\ Complete(k[1], k[2])
<1> DEFINE e == k[1]
           s == k[2]
           v == k[3]
           row == c[k]
<1>1. e \in AutoEvents /\ s \in Stations /\ v \in Services /\ Rankable(k, row)
  BY DEF AllRankable
<1>2. /\ SnapshotOf(e).network[<<"origin", s>>] \in Leg
      /\ row.state.capacity \in Int /\ row.state.wait \in Fraction
  BY <1>1 DEF Rankable
<1> DEFINE capacity == row.state.capacity
           wait == row.state.wait
<1>3. PricedAs(c, k) = CostOf(e, s, v, capacity, wait)
  BY DEF PricedAs
<1>4. capacity \in Int /\ wait \in Fraction
  BY <1>2
<1> HIDE DEF e, s, v, row, capacity, wait
<1>5. CostOf(e, s, v, capacity, wait) \in Fraction /\ Complete(e, s)
  BY <1>1, <1>2, <1>4, CostType, RoadIs
<1> QED BY <1>3, <1>5 DEF e, s

RankedAs(c, r, costs, k) ==
  /\ k \in Group(c, k[1]) /\ costs[k] \in Fraction
  /\ r[k].cost = costs[k] /\ costs[k] = PricedAs(c, k) /\ r[k].wait = c[k].state.wait
  /\ r[k].capacity = c[k].state.capacity
  /\ r[k].ltr = (Cardinality(Eligible(c, k[1])) >= 2)
  /\ r[k].rank = 1 + Cardinality({l \in Group(c, k[1]) : Cheaper(costs, l, k)})

LEMMA TableIs ==
  ASSUME NEW c, AllRankable(c)
  PROVE  /\ DOMAIN RankingTable(c) = UNION {Group(c, e) : e \in Listed(c)}
         /\ \A e : Ranks(RankingTable(c), e) = Group(c, e)
         /\ \E costs : \A k \in DOMAIN RankingTable(c) : RankedAs(c, RankingTable(c), costs, k)
<1> DEFINE all == UNION {Group(c, e) : e \in Listed(c)}
           keys == {k \in all : Complete(k[1], k[2])}
           costs == [k \in keys |-> PricedAs(c, k)]
           r == RankingTable(c)
<1>1. \A e : Group(c, e) \subseteq Eligible(c, e)
  BY DEF Group
<1>2. \A e : \A k \in Eligible(c, e) : k \in DOMAIN c /\ c[k].reason = "ELIGIBLE" /\ k[1] = e /\ e \in Listed(c)
  BY DEF Eligible, Listed
<1>3. \A k \in all : k \in Group(c, k[1]) /\ k \in DOMAIN c /\ c[k].reason = "ELIGIBLE"
  BY <1>1, <1>2
<1>4. \A k \in all : PricedAs(c, k) \in Fraction /\ Complete(k[1], k[2])
  BY <1>3, EligiblePriced
<1>5. keys = all
  BY <1>4
<1>6. r = RankingRows(c, Ranked(costs))
  BY DEF RankingTable, PricedAs
<1> HIDE DEF r, all
<1>7. \A e : {k \in keys : k[1] = e} = Group(c, e)
  <2> TAKE e
  <2>1. \A k \in keys : k[1] = e => k \in Group(c, e)
    BY <1>3
  <2>2. \A k \in Group(c, e) : k[1] = e /\ k \in keys
    BY <1>1, <1>2, <1>5 DEF all
  <2> QED BY <2>1, <2>2
<1>8. /\ DOMAIN Ranked(costs) = keys
      /\ \A k \in keys : /\ Ranked(costs)[k].cost = costs[k]
                         /\ Ranked(costs)[k].rank
                              = 1 + Cardinality({l \in keys : l[1] = k[1] /\ Cheaper(costs, l, k)})
  BY DEF Ranked
<1>9. \A k \in keys : {l \in keys : l[1] = k[1] /\ Cheaper(costs, l, k)}
                        = {l \in Group(c, k[1]) : Cheaper(costs, l, k)}
  <2> HIDE DEF keys, costs
  <2> TAKE k \in keys
  <2>1. {l \in keys : l[1] = k[1]} = Group(c, k[1])
    BY <1>7
  <2>2. {l \in {x \in keys : x[1] = k[1]} : Cheaper(costs, l, k)}
          = {l \in keys : l[1] = k[1] /\ Cheaper(costs, l, k)}
    OBVIOUS
  <2> QED BY <2>1, <2>2
<1>10. \A k \in keys : costs[k] = PricedAs(c, k) /\ costs[k] \in Fraction
  BY <1>4
<1> HIDE DEF keys
<1>11. /\ DOMAIN r = keys
       /\ \A k \in keys :
            /\ r[k].cost = Ranked(costs)[k].cost /\ r[k].wait = c[k].state.wait
            /\ r[k].capacity = c[k].state.capacity
            /\ r[k].ltr = (Cardinality(Eligible(c, k[1])) >= 2)
            /\ r[k].rank = Ranked(costs)[k].rank
  <2> HIDE DEF costs
  <2> QED BY <1>6, <1>8 DEF RankingRows
<1> HIDE DEF costs
<1>13. \A e : Ranks(r, e) = Group(c, e)
  BY <1>7, <1>11 DEF Ranks
<1>14. \A k \in keys : r[k].rank = 1 + Cardinality({l \in Group(c, k[1]) : Cheaper(costs, l, k)})
  BY <1>8, <1>9, <1>11
<1>15. \A k \in keys : k \in Group(c, k[1])
  BY <1>3, <1>5
<1>16. \A k \in DOMAIN r : RankedAs(c, r, costs, k)
  BY <1>8, <1>10, <1>11, <1>14, <1>15 DEF RankedAs
<1> QED BY <1>5, <1>11, <1>13, <1>16 DEF r, all

(* The validator's section on the ranking.                                 *)
LEMMA PlacedIs ==
  ASSUME NEW c, AllRankable(c), NEW e
  PROVE  LET r == RankingTable(c)
             G == Ranks(r, e)
             n == Cardinality(G)
         IN  /\ G = Group(c, e) /\ G \subseteq DOMAIN r /\ n \in Nat
             /\ {r[k].rank : k \in G} = 1..n
             /\ \A k \in G : r[k].rank \in 1..n
             /\ \A k, l \in G : r[k].rank < r[l].rank => Leq(r[k].cost, r[l].cost)
<1> DEFINE r == RankingTable(c)
           G == Ranks(r, e)
<1>0. PICK costs : \A k \in DOMAIN r : RankedAs(c, r, costs, k)
  BY TableIs
<1> DEFINE R == Cheapness(costs, G)
           pos == [k \in G |-> r[k].rank]
           n == Cardinality(G)
<1>1. /\ G = Group(c, e)
      /\ \A k \in DOMAIN r :
           /\ k \in Group(c, k[1]) /\ costs[k] \in Fraction /\ r[k].cost = costs[k]
           /\ r[k].rank = 1 + Cardinality({l \in Group(c, k[1]) : Cheaper(costs, l, k)})
  <2>1. G = Group(c, e)
    BY TableIs
  <2>2. ASSUME NEW k \in DOMAIN r
        PROVE  /\ k \in Group(c, k[1]) /\ costs[k] \in Fraction /\ r[k].cost = costs[k]
               /\ r[k].rank = 1 + Cardinality({l \in Group(c, k[1]) : Cheaper(costs, l, k)})
    BY <1>0 DEF RankedAs
  <2> QED BY <2>1, <2>2
<1>2. G \subseteq DOMAIN r /\ \A k \in G : k[1] = e
  BY DEF Ranks
<1>3. G \subseteq Keys(e) /\ IsFiniteSet(G) /\ n \in Nat
  BY <1>1, EligibleIs, GroupIs
<1> HIDE DEF r, G
<1>4. Order(G, R)
  BY <1>1, <1>2, <1>3, CheaperOrders
<1>5. Places2(G, R, pos)
  <2>1. \A k \in G : Before(G, R, k) = {l \in G : Cheaper(costs, l, k)}
    BY DEF Before, Cheapness
  <2>2. \A k \in G : r[k].rank = 1 + Cardinality({l \in G : Cheaper(costs, l, k)})
    BY <1>1, <1>2
  <2> HIDE DEF R
  <2> QED BY <2>1, <2>2 DEF Places2
<1>6. \A k, l \in G : <<l, k>> \in R <=> Cheaper(costs, l, k)
  BY DEF Cheapness
<1> HIDE DEF R, pos
<1>7. /\ \A k, l \in G : <<k, l>> \in R => pos[k] < pos[l]
      /\ \A k \in G : pos[k] \in 1..n
      /\ {pos[k] : k \in G} = 1..n
  BY <1>4, <1>5, PlacesAre DEF n
<1>8. \A k \in G : pos[k] = r[k].rank
  BY DEF pos
<1>9. {r[k].rank : k \in G} = {pos[k] : k \in G}
  BY <1>8
<1>10. ASSUME NEW k \in G, NEW l \in G, r[k].rank < r[l].rank
       PROVE  Leq(r[k].cost, r[l].cost)
  <2>1. pos[k] \in Int /\ pos[l] \in Int /\ pos[k] < pos[l]
    BY <1>3, <1>7, <1>8, <1>10
  <2>2. ~Cheaper(costs, l, k)
    <3>1. <<l, k>> \in R => pos[l] < pos[k]
      BY <1>7
    <3>2. <<l, k>> \in R <=> Cheaper(costs, l, k)
      BY <1>6
    <3> QED BY <2>1, <3>1, <3>2
  <2>3. ~Less(costs[l], costs[k])
    BY <2>2 DEF Cheaper
  <2>4. Leq(costs[k], costs[l])
    BY <2>3 DEF Less
  <2> QED BY <1>1, <1>2, <2>4
<1> HIDE DEF n
<1>11. \A k \in G : r[k].rank \in 1..n
  BY <1>7, <1>8
<1>12. {r[k].rank : k \in G} = 1..n
  BY <1>7, <1>9
<1> QED BY <1>1, <1>2, <1>3, <1>10, <1>11, <1>12 DEF r, G, n

LEMMA RankingPasses ==
  ASSUME NEW c, AllRankable(c)
  PROVE  RankingChecks(RankingTable(c))
<1> DEFINE r == RankingTable(c)
<1>1. ASSUME NEW k \in DOMAIN r
      PROVE  /\ Cardinality(Ranks(r, k[1])) <= MaxGroup
             /\ r[k].ltr <=> Cardinality(Ranks(r, k[1])) >= 2
             /\ r[k].cost = CostOf(k[1], k[2], k[3], r[k].capacity, r[k].wait)
  <2>1. /\ Ranks(r, k[1]) = Group(c, k[1])
        /\ r[k].ltr = (Cardinality(Eligible(c, k[1])) >= 2)
        /\ r[k].cost = PricedAs(c, k) /\ r[k].wait = c[k].state.wait
        /\ r[k].capacity = c[k].state.capacity
    <3>1. PICK costs : \A l \in DOMAIN r : RankedAs(c, r, costs, l)
      BY TableIs
    <3>2. Ranks(r, k[1]) = Group(c, k[1])
      BY TableIs
    <3> HIDE DEF r
    <3> QED BY <3>1, <3>2 DEF RankedAs
  <2> HIDE DEF r
  <2>2. /\ Cardinality(Group(c, k[1])) <= MaxGroup
        /\ Cardinality(Eligible(c, k[1])) >= 2 <=> Cardinality(Group(c, k[1])) >= 2
    BY GroupIs
  <2>3. r[k].cost = CostOf(k[1], k[2], k[3], r[k].capacity, r[k].wait)
    BY <2>1 DEF PricedAs
  <2> QED BY <2>1, <2>2, <2>3
<1>2. ASSUME NEW e
      PROVE  /\ {r[k].rank : k \in Ranks(r, e)} = 1..Cardinality(Ranks(r, e))
             /\ \A k, l \in Ranks(r, e) : r[k].rank < r[l].rank => Leq(r[k].cost, r[l].cost)
  BY PlacedIs
<1> HIDE DEF r
<1>3. RankingChecks(r)
  BY <1>1, <1>2 DEF RankingChecks
<1> QED BY <1>3 DEF r

LEMMA BestIs ==
  ASSUME NEW c, AllRankable(c), NEW e
  PROVE  /\ Best(RankingTable(c), e) \subseteq Eligible(c, e)
         /\ Best(RankingTable(c), e) # {} <=> Eligible(c, e) # {}
<1> DEFINE r == RankingTable(c)
           G == Ranks(r, e)
           n == Cardinality(G)
<1>1. G = Group(c, e) /\ n \in Nat /\ {r[k].rank : k \in G} = 1..n
  BY PlacedIs
<1>2. Best(r, e) = {k \in G : r[k].rank = 1}
  BY DEF Best, Ranks
<1>3. /\ Group(c, e) \subseteq Eligible(c, e) /\ IsFiniteSet(Group(c, e))
      /\ Eligible(c, e) # {} <=> Group(c, e) # {}
  BY GroupIs
<1> HIDE DEF r, G
<1>4. G # {} => n # 0
  BY <1>1, <1>3, FS_EmptySet
<1>5. G # {} => 1 \in 1..n
  BY <1>1, <1>4
<1>6. G # {} => \E k \in G : r[k].rank = 1
  BY <1>1, <1>5
<1> QED BY <1>1, <1>2, <1>3, <1>6 DEF r

-----------------------------------------------------------------------------
(* The demand rows of 07.                                                  *)
LEMMA ExtendedIs ==
  ASSUME NEW row, NEW columns
  PROVE  /\ \A x \in DOMAIN row : Extended(row, columns)[x] = row[x]
         /\ \A x \in DOMAIN columns \ DOMAIN row : Extended(row, columns)[x] = columns[x]
BY DEF Extended

DetectedAs(row, v, range) ==
  /\ row.source = "AUTO_DETECTED" /\ row.need \in BOOLEAN /\ row.vehicle = v
  /\ row.resolved = Resolved(v, row.need) /\ row.service = Resolved(v, row.need)
  /\ row.range = range

LEMMA DetectedRow ==
  ASSUME NEW vehicles, NEW battery, NEW e \in DemandEvents(vehicles), e[3] = "AUTO"
  PROVE  DetectedAs(DemandTable07(vehicles, battery)[e], vehicles[Trip[e[1]].vehicle],
                    battery[<<e[1], e[2]>>].range)
<1> DEFINE v == vehicles[Trip[e[1]].vehicle]
           why == Detected(e, battery)
           need == why # "SUFFICIENT_SOC_RANGE"
           service == Resolved(v, need)
           said == [source |-> "AUTO_DETECTED", need |-> need, reason |-> why,
                    requested |-> None, service |-> service, resolved |-> service, valid |-> None]
           seen == Telemetry(e, vehicles, battery)
           row == DemandTable07(vehicles, battery)[e]
<1>1. row = Extended(said, seen)
  BY DEF DemandTable07, AutoRow07, DetectedRow07, Auto07
<1>2. /\ DOMAIN said = {"source", "need", "reason", "requested", "service", "resolved", "valid"}
      /\ said.source = "AUTO_DETECTED" /\ said.need = need /\ said.service = service
      /\ said.resolved = service
  <2> HIDE DEF need, service, why
  <2> QED OBVIOUS
<1>3. /\ DOMAIN seen = {"soc", "range", "remaining", "vehicle", "split"}
      /\ seen.vehicle = v /\ seen.range = battery[<<e[1], e[2]>>].range
  <2> QED BY DEF Telemetry
<1> HIDE DEF said, seen, row
<1>4. row.source = said.source /\ row.need = said.need /\ row.service = said.service
      /\ row.resolved = said.resolved
  BY <1>1, <1>2, ExtendedIs
<1>5. row.vehicle = seen.vehicle /\ row.range = seen.range
  <2>1. "vehicle" \in DOMAIN seen \ DOMAIN said /\ "range" \in DOMAIN seen \ DOMAIN said
    BY <1>2, <1>3
  <2> QED BY <1>1, <2>1, ExtendedIs
<1>6. need \in BOOLEAN
  OBVIOUS
<1> HIDE DEF need
<1> QED BY <1>2, <1>3, <1>4, <1>5, <1>6 DEF row, DetectedAs

LEMMA RequestedRow ==
  ASSUME NEW vehicles, NEW battery, NEW e \in DemandEvents(vehicles), e[3] # "AUTO"
  PROVE  LET row == DemandTable07(vehicles, battery)[e]
             v == vehicles[Trip[e[1]].vehicle]
             valid == RequestValid(v, e[3])
         IN  /\ row.source = "DRIVER_REQUEST" /\ row.vehicle = v
             /\ row.requested = e[3] /\ row.service = e[3] /\ row.valid = valid
             /\ row.resolved = IF e[3] = "CHARGING" \/ (e[3] = "BATTERY_SWAP" /\ valid) THEN e[3] ELSE None
<1> DEFINE v == vehicles[Trip[e[1]].vehicle]
           valid == RequestValid(v, e[3])
           resolved == IF e[3] = "CHARGING" \/ (e[3] = "BATTERY_SWAP" /\ valid) THEN e[3] ELSE None
           said == [source |-> "DRIVER_REQUEST", need |-> TRUE, reason |-> Judged(valid), requested |-> e[3],
                    service |-> e[3], resolved |-> resolved, valid |-> valid]
           seen == Telemetry(e, vehicles, battery)
           row == DemandTable07(vehicles, battery)[e]
<1>1. row = Extended(said, seen)
  BY DEF DemandTable07, RequestRow07
<1>2. /\ DOMAIN said = {"source", "need", "reason", "requested", "service", "resolved", "valid"}
      /\ said.source = "DRIVER_REQUEST" /\ said.requested = e[3] /\ said.service = e[3]
      /\ said.resolved = resolved /\ said.valid = valid
  <2> HIDE DEF resolved, valid
  <2> QED OBVIOUS
<1>3. DOMAIN seen = {"soc", "range", "remaining", "vehicle", "split"} /\ seen.vehicle = v
  BY DEF Telemetry
<1> HIDE DEF said, seen, row
<1>4. row.source = said.source /\ row.requested = said.requested /\ row.service = said.service
      /\ row.resolved = said.resolved /\ row.valid = said.valid
  BY <1>1, <1>2, ExtendedIs
<1>5. row.vehicle = seen.vehicle
  <2>1. "vehicle" \in DOMAIN seen \ DOMAIN said
    BY <1>2, <1>3
  <2> QED BY <1>1, <2>1, ExtendedIs
<1> HIDE DEF valid
<1> QED BY <1>2, <1>3, <1>4, <1>5 DEF row, valid

LEMMA DemandEventIs ==
  ASSUME NEW vehicles, NEW e
  PROVE  e \in DemandEvents(vehicles) <=>
           \E a \in AutoEvents, k \in {"AUTO", "CHARGING", "BATTERY_SWAP", "ANY"} :
             e = <<a[1], a[2], k>> /\ (k = "ANY" => vehicles[Trip[a[1]].vehicle].swap)
<1>1. Kinds = {"AUTO", "CHARGING", "BATTERY_SWAP", "ANY"}
  BY DEF Kinds, Services
<1> QED BY <1>1 DEF DemandEvents

LEMMA DemandEventsAre ==
  ASSUME NEW vehicles
  PROVE  /\ AutoEvents \subseteq DemandEvents(vehicles)
         /\ \A e \in DemandEvents(vehicles) : e[3] = "AUTO" <=> e \in AutoEvents
         /\ \A e \in DemandEvents(vehicles) : e[3] \in {"AUTO", "CHARGING", "BATTERY_SWAP", "ANY"}
         /\ \A a \in AutoEvents :
              {e \in DemandEvents(vehicles) : e[1] = a[1] /\ e[2] = a[2] /\ e[3] # "AUTO"}
                = {<<a[1], a[2], k>> : k \in {"CHARGING", "BATTERY_SWAP"}
                     \cup (IF vehicles[Trip[a[1]].vehicle].swap THEN {"ANY"} ELSE {})}
<1>1. \A a \in AutoEvents : a = <<a[1], a[2], "AUTO">>
  <2> TAKE a \in AutoEvents
  <2>1. a \in Trips \X Nat \X {"AUTO"}
    BY AutoEventIs DEF OfSnapshot
  <2> QED BY <2>1
<1>2. ASSUME NEW a \in AutoEvents
      PROVE  a \in DemandEvents(vehicles)
  BY <1>1, DemandEventIs
<1>3. ASSUME NEW e \in DemandEvents(vehicles)
      PROVE  /\ e[3] = "AUTO" <=> e \in AutoEvents
             /\ e[3] \in {"AUTO", "CHARGING", "BATTERY_SWAP", "ANY"}
  <2>1. PICK a \in AutoEvents : \E k \in {"AUTO", "CHARGING", "BATTERY_SWAP", "ANY"} : e = <<a[1], a[2], k>>
    BY DemandEventIs
  <2>2. PICK k \in {"AUTO", "CHARGING", "BATTERY_SWAP", "ANY"} : e = <<a[1], a[2], k>>
    BY <2>1
  <2>3. e[3] = k
    BY <2>2
  <2>4. k = "AUTO" => e = a
    BY <1>1, <2>2
  <2>5. e \in AutoEvents => e[3] = "AUTO"
    <3>1. e \in AutoEvents => e = <<e[1], e[2], "AUTO">>
      BY <1>1
    <3> QED BY <3>1
  <2> QED BY <2>3, <2>4, <2>5
<1>4. ASSUME NEW a \in AutoEvents
      PROVE  {e \in DemandEvents(vehicles) : e[1] = a[1] /\ e[2] = a[2] /\ e[3] # "AUTO"}
               = {<<a[1], a[2], k>> : k \in {"CHARGING", "BATTERY_SWAP"}
                    \cup (IF vehicles[Trip[a[1]].vehicle].swap THEN {"ANY"} ELSE {})}
  <2> DEFINE swap == vehicles[Trip[a[1]].vehicle].swap
             kinds == {"CHARGING", "BATTERY_SWAP"} \cup (IF swap THEN {"ANY"} ELSE {})
             A == {e \in DemandEvents(vehicles) : e[1] = a[1] /\ e[2] = a[2] /\ e[3] # "AUTO"}
             B == {<<a[1], a[2], k>> : k \in kinds}
  <2>1. ASSUME NEW e \in A
        PROVE  e \in B
    <3>1. PICK b \in AutoEvents : \E k \in {"AUTO", "CHARGING", "BATTERY_SWAP", "ANY"} :
            e = <<b[1], b[2], k>> /\ (k = "ANY" => vehicles[Trip[b[1]].vehicle].swap)
      BY DemandEventIs
    <3>2. PICK k \in {"AUTO", "CHARGING", "BATTERY_SWAP", "ANY"} :
            e = <<b[1], b[2], k>> /\ (k = "ANY" => vehicles[Trip[b[1]].vehicle].swap)
      BY <3>1
    <3>3. b[1] = a[1] /\ b[2] = a[2] /\ k # "AUTO"
      BY <3>2
    <3>4. e = <<a[1], a[2], k>> /\ (k = "ANY" => swap)
      BY <3>2, <3>3
    <3> HIDE DEF swap
    <3>5. k \in kinds
      BY <3>3, <3>4
    <3> QED BY <3>4, <3>5
  <2>2. ASSUME NEW k \in kinds
        PROVE  <<a[1], a[2], k>> \in A
    <3>1. k \in {"CHARGING", "BATTERY_SWAP", "ANY"} /\ (k = "ANY" => swap)
      <4> HIDE DEF swap
      <4> QED OBVIOUS
    <3>2. <<a[1], a[2], k>> \in DemandEvents(vehicles)
      BY <3>1, DemandEventIs
    <3> QED BY <3>1, <3>2
  <2> HIDE DEF A, kinds
  <2>3. A = B
    BY <2>1, <2>2
  <2> QED BY <2>3 DEF A, kinds
<1> QED BY <1>2, <1>3, <1>4

LEMMA DemandPasses ==
  ASSUME NEW vehicles, NEW battery, \A t \in Trips : vehicles[Trip[t].vehicle].swap \in BOOLEAN
  PROVE  DemandChecks(DemandTable07(vehicles, battery))
<1> DEFINE D == DemandTable07(vehicles, battery)
<1>0. DOMAIN D = DemandEvents(vehicles)
  BY DEF DemandTable07
<1>1. None # "no column" /\ None \notin {"CHARGING", "BATTERY_SWAP", "ANY"}
  BY RankingAssumption, CatalogAssumption DEF Services
<1>2. ASSUME NEW e \in DOMAIN D, e[3] = "AUTO"
      PROVE  /\ D[e].resolved # "no column" /\ D[e].source = "AUTO_DETECTED" /\ AutoChecks(D[e])
  <2> DEFINE v == vehicles[Trip[e[1]].vehicle]
  <2>0. DetectedAs(D[e], v, battery[<<e[1], e[2]>>].range)
    BY <1>0, <1>2, DetectedRow
  <2> HIDE DEF D, v
  <2>1. /\ D[e].source = "AUTO_DETECTED" /\ D[e].need \in BOOLEAN /\ D[e].vehicle = v
        /\ D[e].resolved = Resolved(v, D[e].need)
    BY <2>0 DEF DetectedAs
  <2> QED BY <1>1, <2>1 DEF Resolved, AutoChecks
<1>3. ASSUME NEW e \in DOMAIN D, e[3] # "AUTO"
      PROVE  /\ D[e].resolved # "no column" /\ D[e].source # "AUTO_DETECTED" /\ DriverChecks(D[e])
  <2> DEFINE v == vehicles[Trip[e[1]].vehicle]
             valid == RequestValid(v, e[3])
  <2>1. /\ D[e].source = "DRIVER_REQUEST" /\ D[e].vehicle = v
        /\ D[e].requested = e[3] /\ D[e].service = e[3] /\ D[e].valid = valid
        /\ D[e].resolved = IF e[3] = "CHARGING" \/ (e[3] = "BATTERY_SWAP" /\ valid) THEN e[3] ELSE None
    BY <1>0, <1>3, RequestedRow
  <2>2. e[3] \in {"CHARGING", "BATTERY_SWAP", "ANY"}
    BY <1>0, <1>3, DemandEventsAre
  <2>3. v.swap \in BOOLEAN
    <3>1. PICK a \in AutoEvents : e[1] = a[1]
      <4>1. \E a \in AutoEvents, k \in {"AUTO", "CHARGING", "BATTERY_SWAP", "ANY"} : e = <<a[1], a[2], k>>
        BY <1>0, DemandEventIs
      <4> QED BY <4>1
    <3> QED BY <3>1, AutoEventIs
  <2>4. valid = (e[3] = "ANY" \/ e[3] = "CHARGING" \/ (e[3] = "BATTERY_SWAP" /\ v.swap))
    BY <2>2, <2>3 DEF RequestValid, AllowedServices
  <2> HIDE DEF D, valid, v
  <2>5. D[e].resolved # "no column"
    BY <1>1, <2>1, <2>2
  <2>6. DriverChecks(D[e])
    <3>1. CASE e[3] = "ANY"
      BY <1>1, <2>1, <2>4, <3>1 DEF DriverChecks
    <3>2. CASE e[3] = "CHARGING"
      BY <1>1, <2>1, <2>4, <3>2 DEF DriverChecks
    <3>3. CASE e[3] = "BATTERY_SWAP"
      BY <1>1, <2>1, <2>3, <2>4, <3>3 DEF DriverChecks
    <3> QED BY <2>2, <3>1, <3>2, <3>3
  <2> QED BY <2>1, <2>5, <2>6
<1>4. ASSUME NEW a \in AutoEvents
      PROVE  D[a].vehicle = vehicles[Trip[a[1]].vehicle]
  <2>1. a \in DemandEvents(vehicles) /\ a[3] = "AUTO"
    BY DemandEventsAre
  <2> QED BY <2>1, DetectedRow DEF DetectedAs
<1> HIDE DEF D
<1>5. AutoEvents \subseteq DOMAIN D
  BY <1>0, DemandEventsAre
<1>6. \A e \in DOMAIN D :
        /\ D[e].resolved # "no column"
        /\ IF D[e].source = "AUTO_DETECTED" THEN AutoChecks(D[e]) ELSE DriverChecks(D[e])
  BY <1>2, <1>3
<1>7. \A a \in AutoEvents :
        {e \in DOMAIN D : e[1] = a[1] /\ e[2] = a[2] /\ e[3] # "AUTO"}
          = {<<a[1], a[2], k>> : k \in {"CHARGING", "BATTERY_SWAP"}
                                       \cup (IF D[a].vehicle.swap THEN {"ANY"} ELSE {})}
  BY <1>0, <1>4, DemandEventsAre
<1>8. DemandChecks(D)
  BY <1>5, <1>6, <1>7 DEF DemandChecks
<1> QED BY <1>8 DEF D

-----------------------------------------------------------------------------
(* The candidate rows of 07.                                               *)
LEMMA ReasonIs ==
  ASSUME NEW leg, NEW compatible, NEW o, NEW service, NEW range
  PROVE  LET reason == Reason("07", leg, compatible, o, service, range)
         IN  /\ reason \in Reasons
             /\ reason = "ELIGIBLE" => leg # None /\ o.status = "OPEN" /\ o.wait # None
<1> DEFINE reason == Reason("07", leg, compatible, o, service, range)
<1>1. CASE leg = None
  <2>1. reason = "UNREACHABLE"
    BY <1>1 DEF Reason
  <2> QED BY <2>1 DEF Reasons
<1>2. CASE leg # None /\ ~compatible
  <2>1. reason = "INCOMPATIBLE"
    BY <1>2 DEF Reason
  <2> QED BY <2>1 DEF Reasons
<1>3. CASE leg # None /\ compatible
  <2>1. reason = IF o.status # "OPEN" THEN "OFFLINE"
                 ELSE IF service = "BATTERY_SWAP" /\ o.slots > 0 /\ o.batteries <= 0 THEN "NO_SWAP_BATTERY"
                 ELSE IF o.capacity <= 0 THEN "FULL"
                 ELSE IF o.wait = None \/ Less(Whole(MaxWait), o.wait) THEN "EXCESSIVE_QUEUE"
                 ELSE IF ~SocFeasible(leg, range) THEN "INSUFFICIENT_SOC_TO_REACH"
                 ELSE "ELIGIBLE"
    BY <1>3 DEF Reason
  <2> HIDE DEF reason
  <2>2. reason \in {"OFFLINE", "NO_SWAP_BATTERY", "FULL", "EXCESSIVE_QUEUE",
                    "INSUFFICIENT_SOC_TO_REACH", "ELIGIBLE"}
    BY <2>1, Zenon
  <2>3. reason \in Reasons
    BY <2>2 DEF Reasons
  <2>4. o.status # "OPEN" => reason # "ELIGIBLE"
    BY <2>1
  <2>5. o.wait = None => reason # "ELIGIBLE"
    <3> DEFINE late == Less(Whole(MaxWait), o.wait)
               far == ~SocFeasible(leg, range)
    <3> HIDE DEF late, far
    <3> QED BY <2>1 DEF late, far
  <2> QED BY <1>3, <2>3, <2>4, <2>5 DEF reason
<1> QED BY <1>1, <1>2, <1>3

Row07(c, k, range, status, queue) ==
  /\ c[k].state = Observed(status, queue, k[2], SnapshotOf(k[1]).time, k[3])
  /\ c[k].leg = SnapshotOf(k[1]).network[<<"origin", k[2]>>]
  /\ c[k].reason \in Reasons
  /\ c[k].reason = "ELIGIBLE" =>
       c[k].leg # None /\ c[k].state.status = "OPEN" /\ c[k].state.wait # None

Services07(row) == IF row.resolved # None THEN {row.resolved} ELSE AllowedServices(row.vehicle)

LEMMA CandidatesOf07 ==
  ASSUME NEW demand, NEW normalized, NEW status, NEW queue
  PROVE  LET c == CandidateTable07(demand, normalized, status, queue)
         IN  /\ DOMAIN c = {k \in Needing(demand) \X Stations \X Services : k[3] \in Services07(demand[k[1]])}
             /\ \A k \in DOMAIN c : Row07(c, k, demand[k[1]].range, status, queue)
<1> DEFINE keys == {k \in Needing(demand) \X Stations \X Services : k[3] \in Services07(demand[k[1]])}
           c == CandidateTable07(demand, normalized, status, queue)
<1>1. c = Rows("07", keys, demand, normalized, status, queue)
  BY DEF CandidateTable07, Services07
<1> HIDE DEF keys, c
<1>2. /\ DOMAIN c = keys
      /\ \A k \in keys : c[k] = CandidateRow("07", k[1], k[2], k[3],
           ServiceCompatible(Trip[k[1][1]].vehicle, k[2], k[3], normalized), demand[k[1]].range, status, queue)
  BY <1>1 DEF Rows
<1>3. \A k \in keys : Row07(c, k, demand[k[1]].range, status, queue)
  <2> TAKE k \in keys
  <2> DEFINE e == k[1]
             s == k[2]
             v == k[3]
             fits == ServiceCompatible(Trip[e[1]].vehicle, s, v, normalized)
             range == demand[e].range
             o == Observed(status, queue, s, SnapshotOf(e).time, v)
             leg == SnapshotOf(e).network[<<"origin", s>>]
  <2>1. c[k] = CandidateRow("07", e, s, v, fits, range, status, queue)
    BY <1>2
  <2> HIDE DEF fits, range, e, s, v
  <2>2. c[k] = [reason |-> Reason("07", leg, fits, o, v, range), leg |-> leg, state |-> o]
    BY <2>1 DEF CandidateRow
  <2>3. /\ Reason("07", leg, fits, o, v, range) \in Reasons
        /\ Reason("07", leg, fits, o, v, range) = "ELIGIBLE" => leg # None /\ o.status = "OPEN" /\ o.wait # None
    BY ReasonIs
  <2> HIDE DEF leg, o
  <2>4. /\ c[k].reason = Reason("07", leg, fits, o, v, range) /\ c[k].leg = leg /\ c[k].state = o
    BY <2>2
  <2>5. /\ leg = SnapshotOf(k[1]).network[<<"origin", k[2]>>]
        /\ o = Observed(status, queue, k[2], SnapshotOf(k[1]).time, k[3])
    BY DEF leg, o, e, s, v
  <2> QED BY <2>3, <2>4, <2>5 DEF Row07
<1> QED BY <1>2, <1>3 DEF keys, c

LEMMA NeedingIs ==
  ASSUME NEW vehicles, NEW battery, NEW e \in Needing(DemandTable07(vehicles, battery))
  PROVE  LET D == DemandTable07(vehicles, battery)
         IN  /\ e \in DOMAIN D /\ e \in AutoEvents /\ D[e].need
             /\ DetectedAs(D[e], vehicles[Trip[e[1]].vehicle], battery[<<e[1], e[2]>>].range)
<1> DEFINE D == DemandTable07(vehicles, battery)
<1>1. e \in DOMAIN D /\ D[e].source = "AUTO_DETECTED" /\ D[e].need
  BY DEF Needing
<1>2. DOMAIN D = DemandEvents(vehicles)
  BY DEF DemandTable07
<1>3. e[3] = "AUTO"
  <2> SUFFICES ASSUME e[3] # "AUTO" PROVE FALSE
    OBVIOUS
  <2>1. D[e].source = "DRIVER_REQUEST"
    BY <1>1, <1>2, RequestedRow
  <2> QED BY <1>1, <2>1
<1>4. e \in AutoEvents
  BY <1>1, <1>2, <1>3, DemandEventsAre
<1>5. DetectedAs(D[e], vehicles[Trip[e[1]].vehicle], battery[<<e[1], e[2]>>].range)
  BY <1>1, <1>2, <1>3, DetectedRow
<1> QED BY <1>1, <1>4, <1>5

LEMMA CandidatesPass ==
  ASSUME NEW vehicles, NEW battery, NEW normalized, NEW status, NEW queue
  PROVE  LET D == DemandTable07(vehicles, battery)
             c == CandidateTable07(D, normalized, status, queue)
         IN  AllRankable(c) => CandidateChecks(c, RankingTable(c), D)
<1> DEFINE D == DemandTable07(vehicles, battery)
           c == CandidateTable07(D, normalized, status, queue)
<1> SUFFICES ASSUME AllRankable(c) PROVE CandidateChecks(c, RankingTable(c), D)
  OBVIOUS
<1>1. /\ DOMAIN c = {k \in Needing(D) \X Stations \X Services : k[3] \in Services07(D[k[1]])}
      /\ \A k \in DOMAIN c : Row07(c, k, D[k[1]].range, status, queue)
  BY CandidatesOf07
<1>2. \A e \in Needing(D) :
        /\ e \in DOMAIN D
        /\ DetectedAs(D[e], vehicles[Trip[e[1]].vehicle], battery[<<e[1], e[2]>>].range)
  BY NeedingIs
<1>0. None \notin {"CHARGING", "BATTERY_SWAP"}
  BY CatalogAssumption DEF Services
<1>3. DOMAIN RankingTable(c) = UNION {Group(c, e) : e \in Listed(c)}
  BY TableIs
<1> HIDE DEF c, D
<1>4. \A k \in DOMAIN c : k[1] \in Needing(D) /\ k[2] \in Stations /\ k[3] \in Services
                          /\ k[3] \in Services07(D[k[1]])
  BY <1>1
<1>5. Listed(c) \subseteq DOMAIN D
  BY <1>2, <1>4 DEF Listed
<1>6. ASSUME NEW e \in Undecided(D) \cap Listed(c)
      PROVE  {k[3] : k \in {x \in DOMAIN c : x[1] = e}} = Services
  <2>1. PICK x \in DOMAIN c : x[1] = e
    BY DEF Listed
  <2>2. e \in Needing(D) /\ x[2] \in Stations
    BY <1>4, <2>1
  <2>3. D[e].resolved = None /\ D[e].need /\ D[e].need \in BOOLEAN
        /\ D[e].resolved = Resolved(D[e].vehicle, D[e].need)
    BY <1>2, <2>2 DEF Undecided, DetectedAs
  <2>4. D[e].vehicle.swap
    BY <1>0, <2>3 DEF Resolved
  <2>5. Services07(D[e]) = Services
    BY <2>3, <2>4 DEF Services07, AllowedServices, Services
  <2>6. \A v \in Services : <<e, x[2], v>> \in DOMAIN c
    BY <1>1, <2>2, <2>5
  <2>7. \A v \in Services : v \in {k[3] : k \in {y \in DOMAIN c : y[1] = e}}
    <3> TAKE v \in Services
    <3>1. <<e, x[2], v>> \in {y \in DOMAIN c : y[1] = e} /\ <<e, x[2], v>>[3] = v
      BY <2>6
    <3> QED BY <3>1
  <2>8. \A k \in DOMAIN c : k[3] \in Services
    BY <1>4
  <2> QED BY <2>7, <2>8
<1>7. ASSUME NEW k \in DOMAIN c
      PROVE  /\ c[k].reason \in Reasons
             /\ c[k].reason = "ELIGIBLE" /\ k[3] = "BATTERY_SWAP" => D[k[1]].vehicle.swap
  <2>1. c[k].reason \in Reasons
    BY <1>1 DEF Row07
  <2>2. k[3] = "BATTERY_SWAP" => D[k[1]].vehicle.swap
    <3> SUFFICES ASSUME k[3] = "BATTERY_SWAP" PROVE D[k[1]].vehicle.swap
      OBVIOUS
    <3>1. DetectedAs(D[k[1]], vehicles[Trip[k[1][1]].vehicle], battery[<<k[1][1], k[1][2]>>].range)
          /\ "BATTERY_SWAP" \in Services07(D[k[1]])
      BY <1>2, <1>4
    <3>2. D[k[1]].resolved \in {"CHARGING", None}
      BY <3>1 DEF DetectedAs, Resolved
    <3>3. "BATTERY_SWAP" \in AllowedServices(D[k[1]].vehicle)
      BY <3>1, <3>2 DEF Services07
    <3> QED BY <3>3 DEF AllowedServices
  <2> QED BY <2>1, <2>2
<1>8. ASSUME NEW k \in DOMAIN RankingTable(c)
      PROVE  k \in DOMAIN c /\ c[k].reason = "ELIGIBLE"
  BY <1>3 DEF Group, Eligible
<1> DEFINE r == RankingTable(c)
<1> HIDE DEF r
<1>9. CandidateChecks(c, r, D)
  BY <1>5, <1>6, <1>7, <1>8 DEF CandidateChecks, r
<1> QED BY <1>9 DEF r

LEMMA RecommendationsPass ==
  ASSUME NEW vehicles, NEW battery, NEW normalized, NEW status, NEW queue
  PROVE  LET D == DemandTable07(vehicles, battery)
             c == CandidateTable07(D, normalized, status, queue)
         IN  AllRankable(c) =>
               RecommendationChecks(Recommendations(Needing(D), RankingTable(c)), c, D)
<1> DEFINE D == DemandTable07(vehicles, battery)
           c == CandidateTable07(D, normalized, status, queue)
           r == RankingTable(c)
           N == Needing(D)
           best(e) == CHOOSE k \in Best(r, e) : TRUE
           chosen == Recommendations(N, r)
<1> SUFFICES ASSUME AllRankable(c) PROVE RecommendationChecks(chosen, c, D)
  OBVIOUS
<1>1. DOMAIN c = {k \in N \X Stations \X Services : k[3] \in Services07(D[k[1]])}
  BY CandidatesOf07
<1>2. \A e \in N : DetectedAs(D[e], vehicles[Trip[e[1]].vehicle], battery[<<e[1], e[2]>>].range)
  BY NeedingIs
<1>3. \A e : /\ Best(r, e) \subseteq Eligible(c, e)
             /\ Best(r, e) # {} <=> Eligible(c, e) # {}
  BY BestIs
<1>4. None \notin Stations
  BY SiteAssumption
<1> HIDE DEF D, c, r, N
<1>5. /\ DOMAIN chosen = N
      /\ \A e \in N : chosen[e] = IF Best(r, e) = {} THEN None ELSE best(e)[2]
  BY DEF Recommendations
<1>6. \A e : Best(r, e) # {} => best(e) \in Best(r, e)
  OBVIOUS
<1>7. \A e : \A k \in Eligible(c, e) : /\ k \in DOMAIN c /\ k[1] = e /\ c[k].reason = "ELIGIBLE"
                                       /\ e \in N /\ e \in Listed(c) /\ k[2] \in Stations
                                       /\ k[3] \in Services07(D[e])
  BY <1>1 DEF Eligible, Listed
<1> HIDE DEF best, chosen
<1>8. ASSUME NEW e \in N
      PROVE  chosen[e] # None <=> Eligible(c, e) # {}
  <2>1. CASE Best(r, e) = {}
    BY <1>3, <1>5, <2>1
  <2>2. CASE Best(r, e) # {}
    <3>1. best(e) \in Eligible(c, e)
      BY <1>3, <1>6, <2>2
    <3>2. best(e)[2] \in Stations
      BY <1>7, <3>1
    <3> QED BY <1>4, <1>5, <2>2, <3>1, <3>2
  <2> QED BY <2>1, <2>2
<1>9. {e \in DOMAIN chosen : chosen[e] # None} = {e \in Listed(c) : Eligible(c, e) # {}}
  <2>1. \A e \in DOMAIN chosen : chosen[e] # None => e \in Listed(c) /\ Eligible(c, e) # {}
    BY <1>5, <1>7, <1>8
  <2>2. \A e \in Listed(c) : Eligible(c, e) # {} => e \in DOMAIN chosen /\ chosen[e] # None
    BY <1>5, <1>7, <1>8
  <2> QED BY <2>1, <2>2
<1>10. ASSUME NEW e \in DOMAIN chosen, chosen[e] # None
       PROVE  \E k \in DOMAIN c :
                /\ k[1] = e /\ k[2] = chosen[e]
                /\ IF D[e].service \in Services THEN k[3] = D[e].service
                   ELSE c[k].reason = "ELIGIBLE"
  <2>1. e \in N /\ Best(r, e) # {} /\ chosen[e] = best(e)[2]
    BY <1>5, <1>10
  <2>2. best(e) \in Eligible(c, e)
    BY <1>3, <1>6, <2>1
  <2> DEFINE k == best(e)
  <2>3. k \in DOMAIN c /\ k[1] = e /\ c[k].reason = "ELIGIBLE" /\ k[3] \in Services07(D[e])
    BY <1>7, <2>2
  <2> HIDE DEF k
  <2>4. D[e].service \in Services => k[3] = D[e].service
    <3>1. D[e].service = D[e].resolved
      BY <1>2, <2>1 DEF DetectedAs
    <3>2. None \notin Services
      BY CatalogAssumption
    <3> QED BY <2>3, <3>1, <3>2 DEF Services07
  <2> QED BY <2>1, <2>3, <2>4 DEF k
<1>11. RecommendationChecks(chosen, c, D)
  BY <1>9, <1>10 DEF RecommendationChecks
<1> QED BY <1>11 DEF D, c

-----------------------------------------------------------------------------
(* What 07 sees of a station can be priced.                                *)
LEMMA WaitType ==
  ASSUME NEW v \in Services, NEW length \in Nat, NEW active \in Nat
  PROVE  Wait(v, length, active) \in Fraction
<1>1. ServiceTime[v] \in Nat \ {0}
  BY ServiceTimeAssumption
<1>2. Zero \in Fraction
  BY WholeType DEF Zero
<1>3. CASE length > 0 /\ active > 0
  <2>1. length * ServiceTime[v] \in Int /\ active \in Nat \ {0}
    BY <1>1, <1>3
  <2>2. Wait(v, length, active) = Q(length * ServiceTime[v], active)
    BY <1>3 DEF Wait
  <2> QED BY <2>1, <2>2, QValue
<1>4. CASE ~(length > 0 /\ active > 0)
  BY <1>2, <1>4 DEF Wait
<1> QED BY <1>3, <1>4

LEMMA SeenType ==
  ASSUME NEW s \in Stations, NEW r, NEW q, Fits(s, r, q), Roomy(s, r), NEW v \in Services
  PROVE  Seen(r, q, v).capacity \in Int /\ Seen(r, q, v).wait \in Fraction
<1>1. /\ r.free[v] \in Nat /\ r.batteries \in Nat /\ q.length[v] \in Nat /\ q.active[v] \in Nat
      /\ q.wait[v] = Wait(v, q.length[v], q.active[v])
  BY DEF Fits, Roomy, Attended
<1>2. Seen(r, q, v).capacity \in Int
  BY <1>1 DEF Seen, Least2
<1>3. Wait(v, q.length[v], q.active[v]) \in Fraction
  BY <1>1, WaitType
<1>4. Seen(r, q, v).wait = q.wait[v]
  BY DEF Seen
<1> QED BY <1>1, <1>2, <1>3, <1>4

LEMMA Rankable07 ==
  ASSUME NEW t, FitTables(t), NEW d, d.status.rows = t.status, d.queue.rows = t.queue,
         NEW vehicles, NEW battery, NEW normalized
  PROVE  AllRankable(CandidateTable07(DemandTable07(vehicles, battery), normalized,
                                      RebuiltTables(d).status, RebuiltTables(d).queue))
<1> DEFINE D == DemandTable07(vehicles, battery)
           status == RebuiltTables(d).status
           queue == RebuiltTables(d).queue
           c == CandidateTable07(D, normalized, status, queue)
<1>1. /\ DOMAIN c = {k \in Needing(D) \X Stations \X Services : k[3] \in Services07(D[k[1]])}
      /\ \A k \in DOMAIN c : Row07(c, k, D[k[1]].range, status, queue)
  <2> HIDE DEF D, status, queue
  <2> QED BY CandidatesOf07
<1>2. Needing(D) \subseteq AutoEvents
  BY NeedingIs
<1>3. \A s, time : \A v \in Services : Observed(status, queue, s, time, v) = Observed(t.status, t.queue, s, time, v)
  BY ObservedAgain
<1> HIDE DEF D, status, queue, c
<1>4. ASSUME NEW k \in DOMAIN c
      PROVE  Rankable(k, c[k])
  <2> DEFINE e == k[1]
             s == k[2]
             v == k[3]
             time == SnapshotOf(e).time
             key == <<s, time>>
  <2>1. e \in AutoEvents /\ s \in Stations /\ v \in Services
    BY <1>1, <1>2
  <2>2. /\ c[k].state = Observed(status, queue, s, time, v)
        /\ c[k].leg = SnapshotOf(e).network[<<"origin", s>>]
        /\ c[k].reason = "ELIGIBLE" => c[k].leg # None /\ c[k].state.status = "OPEN"
    BY <1>1 DEF Row07
  <2>3. SnapshotOf(e).network[<<"origin", s>>] \in Leg \cup {None}
    <3>1. SnapshotOf(e) \in Moment
      BY <2>1, AutoEventIs
    <3>2. SnapshotOf(e).network \in [({"origin"} \X Stations) \cup (Stations \X {"destination"}) -> Leg \cup {None}]
      BY <3>1 DEF Moment
    <3>3. <<"origin", s>> \in ({"origin"} \X Stations) \cup (Stations \X {"destination"})
      BY <2>1
    <3> QED BY <3>2, <3>3
  <2> HIDE DEF e, s, v, time
  <2>4. c[k].state = Observed(t.status, t.queue, s, time, v)
    BY <1>3, <2>1, <2>2
  <2>5. ASSUME c[k].reason = "ELIGIBLE"
        PROVE  c[k].state.capacity \in Int /\ c[k].state.wait \in Fraction
    <3>1. key \in DOMAIN t.status
      <4>1. Unknown.status # "OPEN"
        BY DEF Unknown
      <4> QED BY <2>2, <2>4, <2>5, <4>1, ObservedSeen
    <3>2. c[k].state = Seen(t.status[key], t.queue[key], v)
      BY <2>4, <3>1, ObservedSeen
    <3>3. Fits(s, t.status[key], t.queue[key]) /\ Roomy(s, t.status[key])
      <4>1. key[1] = s
        OBVIOUS
      <4> HIDE DEF key
      <4> QED BY <3>1, <4>1 DEF FitTables
    <3> HIDE DEF key
    <3> QED BY <2>1, <3>2, <3>3, SeenType
  <2>6. c[k].reason = "ELIGIBLE" => c[k].leg \in Leg
    BY <2>2, <2>3
  <2> QED BY <2>2, <2>5, <2>6 DEF Rankable, e, s
<1>5. DOMAIN c \subseteq AutoEvents \X Stations \X Services
  BY <1>1, <1>2
<1>6. AllRankable(c)
  BY <1>4, <1>5 DEF AllRankable
<1> QED BY <1>6 DEF c, D, status, queue

-----------------------------------------------------------------------------
(* The tables pass.                                                        *)
LEMMA StatePasses ==
  ASSUME NEW t, FitTables(t)
  PROVE  StateChecks(t.status, t.queue)
<1> SUFFICES ASSUME NEW k \in DOMAIN t.status
             PROVE  CapacityChecks(k[1], t.status[k]) /\ QueueChecks(t.status[k], t.queue[k])
  BY DEF StateChecks
<1> DEFINE s == k[1]
           r == t.status[k]
           q == t.queue[k]
<1>1. Fits(s, r, q) /\ Roomy(s, r)
  BY DEF FitTables
<1> HIDE DEF s, r, q
<1>2. CapacityChecks(s, r)
  <2>1. \A v \in Services : r.free[v] \in Nat /\ r.busy[v] \in Nat
    BY <1>1 DEF Fits
  <2>2. r.status # "OPEN" => r.free = None2 /\ r.busy = None2 /\ r.batteries = 0
    BY <1>1 DEF Fits, Roomy
  <2> QED BY <1>1, <2>1, <2>2 DEF CapacityChecks, Roomy
<1>3. QueueChecks(r, q)
  <2>1. ASSUME NEW v \in Services
        PROVE  q.length[v] >= 0 /\ q.active[v] <= r.busy[v] /\ q.wait[v] = Wait(v, q.length[v], q.active[v])
    <3>1. /\ q.length[v] \in Nat /\ q.active[v] \in Nat /\ r.busy[v] \in Nat
          /\ q.wait[v] = Wait(v, q.length[v], q.active[v])
          /\ q.active[v] > 0 => r.busy[v] = q.active[v]
      BY <1>1 DEF Fits, Attended
    <3> QED BY <3>1
  <2> QED BY <2>1 DEF QueueChecks
<1> QED BY <1>2, <1>3 DEF s, r, q

LEMMA EventsPass ==
  ASSUME NEW d, DOMAIN d.status.rows = DOMAIN d.queue.rows
  PROVE  EventChecks(RebuiltTables(d), d.status.rows, d.queue.rows)
<1> DEFINE status == [k \in DOMAIN d.status.rows |-> Rebuilt(k[1], d.status.rows[k])]
           queue == [k \in DOMAIN d.queue.rows |-> RebuiltQueue(k[1], status[k], d.queue.rows[k])]
<1>1. RebuiltTables(d) = [status |-> status, queue |-> queue]
  BY DEF RebuiltTables, Rebuild
<1>2. DOMAIN status = DOMAIN d.status.rows /\ DOMAIN queue = DOMAIN d.queue.rows
  OBVIOUS
<1> HIDE DEF status, queue
<1> QED BY <1>1, <1>2 DEF EventChecks

-----------------------------------------------------------------------------
(* The batteries.  Exact fractions compare as the quotients they are the   *)
(* values of, so that each operation keeps an order.                       *)
LEMMA QLeq ==
  ASSUME NEW n \in Int, NEW d \in Nat \ {0}, NEW m \in Int, NEW e \in Nat \ {0}, n * e <= m * d
  PROVE  Leq(Q(n, d), Q(m, e))
<1> DEFINE pn == Q(n, d).n
           pd == Q(n, d).d
           qn == Q(m, e).n
           qd == Q(m, e).d
<1>1. Q(n, d) \in Fraction /\ Q(m, e) \in Fraction /\ pn * d = n * pd /\ qn * e = m * qd
  BY QValue
<1>2. pn \in Int /\ qn \in Int /\ pd \in Nat \ {0} /\ qd \in Nat \ {0}
  <2> HIDE DEF Q
  <2> QED BY <1>1 DEF Fraction
<1>3. Leq(Q(n, d), Q(m, e)) <=> pn * qd <= qn * pd
  BY DEF Leq
<1> HIDE DEF pn, pd, qn, qd
<1>4. d * e \in Nat \ {0} /\ pd * qd \in Nat \ {0}
  BY <1>2
<1>5. (pn * qd) * (d * e) = (n * e) * (pd * qd)
  <2>1. (pn * qd) * (d * e) = (pn * d) * (qd * e)
    BY <1>2
  <2>2. (n * pd) * (qd * e) = (n * e) * (pd * qd)
    BY <1>2
  <2> QED BY <1>1, <2>1, <2>2
<1>6. (qn * pd) * (d * e) = (m * d) * (pd * qd)
  <2>1. (qn * pd) * (d * e) = (qn * e) * (pd * d)
    BY <1>2
  <2>2. (m * qd) * (pd * d) = (m * d) * (pd * qd)
    BY <1>2
  <2> QED BY <1>1, <2>1, <2>2
<1>7. pn * qd \in Int /\ qn * pd \in Int /\ n * e \in Int /\ m * d \in Int
  BY <1>2
<1>8. (n * e) * (pd * qd) <= (m * d) * (pd * qd)
  BY <1>4, <1>7, MulMono
<1>9. pn * qd <= qn * pd
  BY <1>4, <1>5, <1>6, <1>7, <1>8, MulCancel
<1> QED BY <1>3, <1>9

LEMMA QSign ==
  ASSUME NEW n \in Int, NEW d \in Nat \ {0}
  PROVE  (n >= 0 => Q(n, d).n >= 0) /\ (n > 0 => Q(n, d).n > 0)
<1>1. PICK x \in Int, y \in Nat \ {0} : x = Q(n, d).n /\ y = Q(n, d).d /\ x * d = n * y
  <2> HIDE DEF Q
  <2> QED BY QValue DEF Fraction
<1>2. n > 0 => n * y > 0
  OBVIOUS
<1>3. n >= 0 => n * y >= 0
  OBVIOUS
<1>4. x * d > 0 => x > 0
  OBVIOUS
<1>5. x < 0 => x * d < 0
  OBVIOUS
<1> QED BY <1>1, <1>2, <1>3, <1>4, <1>5

LEMMA QNatural ==
  ASSUME NEW n \in Int, NEW d \in Nat \ {0}
  PROVE  Q(n, d) \in Fraction /\ (n >= 0 => Q(n, d).n >= 0)
BY QSign, QValue

LEMMA PercentMono ==
  ASSUME NEW p \in Nat, NEW a \in Fraction, NEW b \in Fraction, Leq(a, b), a.n >= 0
  PROVE  Leq(Percent(p, a), Percent(p, b)) /\ Percent(p, a).n >= 0 /\ Percent(p, a) \in Fraction
<1>1. PICK m \in Nat, d \in Nat \ {0}, n \in Int, e \in Nat \ {0}, h \in Nat \ {0} :
        m = a.n /\ d = a.d /\ n = b.n /\ e = b.d /\ h = 100
  BY DEF Fraction
<1>2. m * e <= n * d
  BY <1>1 DEF Leq
<1>3. Percent(p, a) = Q(p * m, h * d) /\ Percent(p, b) = Q(p * n, h * e)
  BY <1>1 DEF Percent
<1>4. /\ p * m \in Int /\ p * n \in Int /\ h * d \in Nat \ {0} /\ h * e \in Nat \ {0} /\ p * m >= 0
  BY ONLY p \in Nat, m \in Nat, n \in Int, d \in Nat \ {0}, e \in Nat \ {0}, h \in Nat \ {0}
<1>5. (p * m) * (h * e) <= (p * n) * (h * d)
  <2>1. p * h \in Nat /\ m * e \in Int /\ n * d \in Int
    OBVIOUS
  <2>2. (m * e) * (p * h) <= (n * d) * (p * h)
    BY <1>2, <2>1, MulMono
  <2>3. (p * m) * (h * e) = (m * e) * (p * h) /\ (p * n) * (h * d) = (n * d) * (p * h)
    OBVIOUS
  <2> QED BY <2>2, <2>3
<1>6. Leq(Percent(p, a), Percent(p, b))
  BY <1>3, <1>4, <1>5, QLeq
<1>7. Percent(p, a).n >= 0 /\ Percent(p, a) \in Fraction
  BY <1>3, <1>4, QNatural
<1> QED BY <1>6, <1>7

LEMMA TimesMono ==
  ASSUME NEW x \in Nat, NEW a \in Fraction, NEW b \in Fraction, Leq(a, b), a.n >= 0
  PROVE  /\ Leq(Times(Whole(x), a), Times(Whole(x), b)) /\ Times(Whole(x), a).n >= 0
         /\ Times(Whole(x), a) \in Fraction
<1>1. PICK m \in Nat, d \in Nat \ {0}, n \in Int, e \in Nat \ {0} :
        m = a.n /\ d = a.d /\ n = b.n /\ e = b.d
  BY DEF Fraction
<1>2. m * e <= n * d
  BY <1>1 DEF Leq
<1>3. Times(Whole(x), a) = Q(x * m, d) /\ Times(Whole(x), b) = Q(x * n, e)
  <2>1. 1 * d = d /\ 1 * e = e
    OBVIOUS
  <2> QED BY <1>1, <2>1, WholeType DEF Times
<1>4. x * m \in Int /\ x * n \in Int /\ x * m >= 0
  OBVIOUS
<1>5. (x * m) * e <= (x * n) * d
  <2>1. (m * e) * x <= (n * d) * x
    BY <1>2, MulMono
  <2>2. (x * m) * e = (m * e) * x /\ (x * n) * d = (n * d) * x
    OBVIOUS
  <2> QED BY <2>1, <2>2
<1>6. Leq(Times(Whole(x), a), Times(Whole(x), b))
  BY <1>3, <1>4, <1>5, QLeq
<1>7. Times(Whole(x), a).n >= 0 /\ Times(Whole(x), a) \in Fraction
  BY <1>3, <1>4, QNatural
<1> QED BY <1>6, <1>7

LEMMA OverMono ==
  ASSUME NEW a \in Fraction, NEW b \in Fraction, NEW c \in Fraction, Leq(a, b), a.n >= 0, c.n > 0
  PROVE  Leq(Over(a, c), Over(b, c)) /\ Over(a, c).n >= 0 /\ Over(a, c) \in Fraction
<1>1. PICK m \in Int, d \in Nat \ {0}, n \in Int, e \in Nat \ {0}, k \in Nat \ {0}, f \in Nat \ {0} :
        m = a.n /\ d = a.d /\ n = b.n /\ e = b.d /\ k = c.n /\ f = c.d /\ m >= 0
  BY DEF Fraction
<1>2. m * e <= n * d
  BY <1>1 DEF Leq
<1>3. Over(a, c) = Q(m * f, d * k) /\ Over(b, c) = Q(n * f, e * k)
  BY <1>1 DEF Over
<1>4. /\ m * f \in Int /\ n * f \in Int /\ d * k \in Nat \ {0} /\ e * k \in Nat \ {0} /\ m * f >= 0
  BY <1>1
<1>5. (m * f) * (e * k) <= (n * f) * (d * k)
  <2>1. f * k \in Nat /\ m * e \in Int /\ n * d \in Int
    OBVIOUS
  <2>2. (m * e) * (f * k) <= (n * d) * (f * k)
    BY <1>2, <2>1, MulMono
  <2>3. (m * f) * (e * k) = (m * e) * (f * k) /\ (n * f) * (d * k) = (n * d) * (f * k)
    OBVIOUS
  <2> QED BY <2>2, <2>3
<1>6. Leq(Over(a, c), Over(b, c))
  BY <1>3, <1>4, <1>5, QLeq
<1>7. Over(a, c).n >= 0 /\ Over(a, c) \in Fraction
  BY <1>3, <1>4, QNatural
<1> QED BY <1>6, <1>7

(* What is left of a charge.                                               *)
LEMMA LeftMono ==
  ASSUME NEW a \in Fraction, NEW b \in Fraction, NEW x \in Int, Leq(a, b), a.n >= 0
  PROVE  /\ Leq(Minus(Whole(x), b), Minus(Whole(x), a)) /\ Leq(Minus(Whole(x), a), Whole(x))
         /\ Minus(Whole(x), a) \in Fraction
<1>1. PICK m \in Nat, d \in Nat \ {0}, n \in Int, e \in Nat \ {0} :
        m = a.n /\ d = a.d /\ n = b.n /\ e = b.d
  BY DEF Fraction
<1>2. m * e <= n * d
  BY <1>1 DEF Leq
<1>3. Minus(Whole(x), a) = Q(x * d - m, d) /\ Minus(Whole(x), b) = Q(x * e - n, e)
  <2>1. m * 1 = m /\ n * 1 = n /\ 1 * d = d /\ 1 * e = e
    OBVIOUS
  <2> QED BY <1>1, <2>1, WholeType DEF Minus
<1>4. x * d - m \in Int /\ x * e - n \in Int
  OBVIOUS
<1>5. (x * e - n) * d <= (x * d - m) * e
  <2>1. (x * e - n) * d = x * e * d - n * d /\ (x * d - m) * e = x * e * d - m * e
    OBVIOUS
  <2>2. x * e * d \in Int /\ n * d \in Int /\ m * e \in Int
    OBVIOUS
  <2> QED BY <1>2, <2>1, <2>2
<1>6. Leq(Q(x * d - m, d), Whole(x))
  <2> DEFINE y == x * d - m
  <2>0. y \in Int
    BY <1>4
  <2>1. PICK p \in Int, q \in Nat \ {0} : p = Q(y, d).n /\ q = Q(y, d).d /\ p * d = y * q
    <3> HIDE DEF Q, y
    <3>1. Q(y, d) \in Fraction /\ Q(y, d).n * d = y * Q(y, d).d
      BY <2>0, QValue
    <3> QED BY <3>1 DEF Fraction
  <2>2. p * d <= (x * q) * d
    <3>1. (x * d - m) * q = (x * q) * d - m * q
      OBVIOUS
    <3>2. m * q >= 0 /\ m * q \in Int /\ (x * q) * d \in Int
      BY <1>1
    <3> QED BY <2>1, <3>1, <3>2
  <2>3. p <= x * q
    <3>1. x * q \in Int
      OBVIOUS
    <3> QED BY <2>2, <3>1, MulCancel
  <2>4. p * 1 = p
    OBVIOUS
  <2> QED BY <2>1, <2>3, <2>4, WholeType DEF Leq
<1> QED BY <1>3, <1>4, <1>5, <1>6, QLeq, QValue

LEMMA NearestMono ==
  ASSUME NEW a \in Fraction, NEW b \in Fraction, Leq(a, b)
  PROVE  Nearest(a) <= Nearest(b) /\ Nearest(a) \in Int
<1>1. PICK m \in Int, d \in Nat \ {0}, n \in Int, e \in Nat \ {0} :
        m = a.n /\ d = a.d /\ n = b.n /\ e = b.d /\ m * e <= n * d
  BY DEF Fraction, Leq
<1>2. PICK x \in Int, y \in Int : x = Nearest(a) /\ y = Nearest(b)
  BY NearestBounds
<1>3. x * (2 * d) <= 2 * m + d /\ 2 * n + e < (y + 1) * (2 * e)
  BY <1>1, <1>2, NearestBounds
<1>4. x < y + 1
  <2>1. (x * (2 * d)) * e <= (2 * m + d) * e
    BY <1>3, MulMono
  <2>2. (2 * n + e) * d < ((y + 1) * (2 * e)) * d
    BY <1>3
  <2>3. (2 * m + d) * e <= (2 * n + e) * d
    BY <1>1
  <2>4. (x * (2 * d)) * e = x * (2 * d * e) /\ ((y + 1) * (2 * e)) * d = (y + 1) * (2 * d * e)
    OBVIOUS
  <2>5. /\ x * (2 * d * e) \in Int /\ (y + 1) * (2 * d * e) \in Int
        /\ (2 * m + d) * e \in Int /\ (2 * n + e) * d \in Int
    OBVIOUS
  <2>6. x * (2 * d * e) < (y + 1) * (2 * d * e)
    BY <2>1, <2>2, <2>3, <2>4, <2>5
  <2>7. ~(y + 1 <= x)
    <3>1. 2 * d * e \in Nat
      OBVIOUS
    <3>2. y + 1 <= x => (y + 1) * (2 * d * e) <= x * (2 * d * e)
      BY <3>1, MulMono
    <3> QED BY <2>5, <2>6, <3>2
  <2> QED BY <2>7
<1> QED BY <1>2, <1>4

LEMMA NearestWhole ==
  ASSUME NEW x \in Int
  PROVE  Nearest(Whole(x)) = x
<1>1. /\ Nearest(Whole(x)) \in Int /\ Nearest(Whole(x)) * (2 * 1) <= 2 * x + 1
      /\ 2 * x + 1 < (Nearest(Whole(x)) + 1) * (2 * 1)
  BY WholeType, NearestBounds
<1> QED BY <1>1

(* The charge of a vehicle is between none and a full one, and what is left*)
(* after a longer way is not more.                                         *)
Charge(initial, used) == Nearest(Greater(Zero, Minus(Whole(initial), used)))

LEMMA ChargeFalls ==
  ASSUME NEW initial \in 0..100, NEW a \in Fraction, NEW b \in Fraction, Leq(a, b), a.n >= 0
  PROVE  Charge(initial, a) \in 0..100 /\ Charge(initial, b) <= Charge(initial, a)
<1> DEFINE x == Minus(Whole(initial), a)
           y == Minus(Whole(initial), b)
<1>1. initial \in Int /\ initial <= 100
  OBVIOUS
<1>2. b.n >= 0
  <2>1. PICK m \in Nat, d \in Nat \ {0}, n \in Int, e \in Nat \ {0} :
          m = a.n /\ d = a.d /\ n = b.n /\ e = b.d /\ m * e <= n * d
    BY DEF Fraction, Leq
  <2>2. m * e >= 0 /\ (n < 0 => n * d < 0)
    OBVIOUS
  <2> QED BY <2>1, <2>2
<1>3. /\ Leq(y, x) /\ Leq(x, Whole(initial)) /\ x \in Fraction /\ Leq(b, b)
      /\ y \in Fraction
  <2>1. Leq(b, b)
    BY LeqTotal
  <2> QED BY <1>1, <1>2, <2>1, LeftMono
<1>4. Zero \in Fraction /\ Zero = Whole(0) /\ Whole(100) \in Fraction /\ Whole(initial) \in Fraction
  BY <1>1, WholeType DEF Zero
<1>5. Leq(Zero, Whole(100)) /\ Leq(Whole(initial), Whole(100)) /\ Leq(Zero, Zero)
  <2>1. \A p, q \in Int : p <= q => Leq(Whole(p), Whole(q))
    <3> TAKE p, q \in Int
    <3>1. p * 1 = p /\ q * 1 = q
      OBVIOUS
    <3> QED BY <3>1, WholeType DEF Leq
  <2> QED BY <1>1, <1>4, <2>1
<1> DEFINE g(z) == Greater(Zero, z)
<1> HIDE DEF x, y
<1>6. Leq(x, Whole(100))
  BY <1>3, <1>4, <1>5, LeqTrans
<1>7. \A z \in Fraction : g(z) \in Fraction /\ g(z) \in {Zero, z} /\ Leq(Zero, g(z)) /\ Leq(z, g(z))
  <2> TAKE z \in Fraction
  <2>1. CASE Leq(Zero, z)
    BY <1>4, <2>1, LeqTotal DEF Greater
  <2>2. CASE ~Leq(Zero, z)
    BY <1>4, <1>5, <2>2, LeqTotal DEF Greater
  <2> QED BY <2>1, <2>2
<1>8. g(x) \in Fraction /\ g(y) \in Fraction /\ Leq(Zero, g(x)) /\ Leq(g(x), Whole(100))
  BY <1>3, <1>5, <1>6, <1>7
<1>9. Leq(g(y), g(x))
  <2>1. CASE g(y) = Zero
    BY <1>8, <2>1
  <2>2. CASE g(y) = y
    BY <1>3, <1>7, <1>8, <2>2, LeqTrans
  <2> QED BY <1>3, <1>7, <2>1, <2>2
<1> HIDE DEF g
<1>10. /\ Nearest(Zero) <= Nearest(g(x)) /\ Nearest(g(x)) <= Nearest(Whole(100)) /\ Nearest(g(x)) \in Int
       /\ Nearest(g(y)) <= Nearest(g(x))
  BY <1>4, <1>8, <1>9, NearestMono
<1>11. Nearest(Zero) = 0 /\ Nearest(Whole(100)) = 100
  BY <1>4, NearestWhole
<1> QED BY <1>10, <1>11 DEF Charge, g, x, y

LEMMA PatchedIs ==
  ASSUME NEW t \in Trips
  PROVE  LET v == Patched(Trip[t].vehicle)
         IN  /\ v.capacity \in Fraction /\ v.capacity.n > 0 /\ v.consumption \in Nat
             /\ v.swap \in BOOLEAN
<1> DEFINE a == Assigned[Trip[t].vehicle]
           c == Catalog[a.model]
           modular == c.module # None /\ a.installed # None
           full == IF modular THEN Q(c.module * a.installed, 2) ELSE Whole(c.battery)
           v == Patched(Trip[t].vehicle)
<1>1. a \in Vehicle /\ a.installed # 0
  BY TripsAssumption
<1>2. a.installed \in Nat \cup {None} /\ a.model \in Models
  BY <1>1 DEF Vehicle
<1>3. c \in Capability
  BY <1>2, CatalogAssumption
<1>4. v = [category |-> c.category, swap |-> c.swap, capacity |-> Percent(UsablePct, full),
           consumption |-> c.consumption]
  BY DEF Patched
<1> HIDE DEF a, c, v
<1>5. /\ c.battery \in Nat \ {0} /\ c.module \in (Nat \ {0}) \cup {None} /\ c.swap \in BOOLEAN
      /\ c.consumption \in Nat
  BY <1>3 DEF Capability
<1>6. full \in Fraction /\ full.n > 0
  <2>1. CASE modular
    <3>1. c.module \in Nat \ {0} /\ a.installed \in Nat \ {0}
      BY <1>1, <1>2, <1>5, <2>1
    <3>2. c.module * a.installed \in Int /\ c.module * a.installed > 0
      BY <3>1
    <3>3. full = Q(c.module * a.installed, 2)
      BY <2>1
    <3> QED BY <3>2, <3>3, QValue, QSign
  <2>2. CASE ~modular
    <3>1. full = Whole(c.battery)
      BY <2>2
    <3> QED BY <1>5, <3>1, WholeType
  <2> QED BY <2>1, <2>2
<1> HIDE DEF full
<1>7. Percent(UsablePct, full) \in Fraction /\ Percent(UsablePct, full).n > 0
  <2>1. PICK p \in Nat \ {0}, m \in Nat \ {0}, d \in Nat \ {0} : p = UsablePct /\ m = full.n /\ d = full.d
    <3>1. UsablePct \in Nat \ {0}
      BY RankingAssumption
    <3>2. full.n \in Nat \ {0} /\ full.d \in Nat \ {0}
      BY <1>6 DEF Fraction
    <3> QED BY <3>1, <3>2
  <2>2. p * m \in Int /\ p * m > 0
    OBVIOUS
  <2>3. 100 * d \in Nat \ {0}
    OBVIOUS
  <2>4. Percent(UsablePct, full) = Q(p * m, 100 * d)
    BY <2>1 DEF Percent
  <2> QED BY <2>2, <2>3, <2>4, QValue, QSign
<1> QED BY <1>4, <1>5, <1>7 DEF v

DriverOf(vehicles, t) == vehicles[Trip[t].vehicle] = Patched(Trip[t].vehicle)

(* 04 computes with the vehicles of version 1.1, and nobody after it.      *)
LEMMA SocFalls ==
  ASSUME NEW t \in Trips, NEW i \in Snapshots(t), NEW j \in Snapshots(t), i <= j,
         NEW initial \in 0..100
  PROVE  /\ Discharged(t, i, OldVehicles, initial).soc \in 0..100
         /\ Discharged(t, j, OldVehicles, initial).soc <= Discharged(t, i, OldVehicles, initial).soc
<1> DEFINE v == OldVehicles[Trip[t].vehicle]
           share == IF Trip[t].scenario = "HEAVY_TRAFFIC" THEN HeavyPct ELSE 100
           way(x) == Trip[t].snapshots[x].travelled
           driven(x) == Percent(share, Q(way(x) * v.consumption, Km))
           used(x) == Over(Times(Whole(100), driven(x)), v.capacity)
<1>1. \A x \in Snapshots(t) : Discharged(t, x, OldVehicles, initial).soc = Charge(initial, used(x))
  BY DEF Discharged, Charge
<1>2. v.capacity \in Fraction /\ v.capacity.n > 0 /\ v.consumption \in Nat
  BY FleetAssumption
<1>3. share \in Nat /\ initial \in 0..100 /\ Km \in Nat \ {0}
  <2>1. HeavyPct \in Nat
    BY RankingAssumption
  <2>2. initial \in 0..100
    OBVIOUS
  <2>3. Km \in Nat \ {0}
    BY PolicyAssumption
  <2> QED BY <2>1, <2>2, <2>3
<1>4. way(i) \in Nat /\ way(j) \in Nat /\ way(i) <= way(j)
  <2>1. Trip[t].snapshots \in Seq(Moment) /\ OnTheWay(Trip[t].snapshots)
    BY TripsAssumption
  <2>2. \A x \in Snapshots(t) : x \in Nat /\ Trip[t].snapshots[x] \in Moment
    BY <2>1 DEF Snapshots
  <2>3. \A x \in Snapshots(t) : x \in Nat /\ way(x) \in Nat
    BY <2>2 DEF Moment
  <2>4. i < j => way(i) <= way(j)
    BY <2>1 DEF OnTheWay, Snapshots
  <2>5. i < j \/ i = j
    BY <2>3
  <2> QED BY <2>3, <2>4, <2>5
<1> HIDE DEF v, share, way
<1>5. Leq(used(i), used(j)) /\ used(i).n >= 0 /\ used(i) \in Fraction /\ used(j) \in Fraction
  <2> DEFINE a(x) == Q(way(x) * v.consumption, Km)
  <2>1. Leq(a(i), a(j)) /\ a(i).n >= 0 /\ a(j).n >= 0 /\ a(i) \in Fraction /\ a(j) \in Fraction
    <3>1. PICK m \in Int, n \in Int, d \in Nat \ {0} :
            m = way(i) * v.consumption /\ n = way(j) * v.consumption /\ d = Km /\ m <= n /\ m >= 0
      <4>1. way(i) * v.consumption <= way(j) * v.consumption
        <5>1. PICK x \in Int, y \in Int, k \in Nat : x = way(i) /\ y = way(j) /\ k = v.consumption /\ x <= y
          BY <1>2, <1>4
        <5> QED BY <5>1, MulMono
      <4>2. way(i) * v.consumption \in Nat /\ way(j) * v.consumption \in Nat
        BY <1>2, <1>4
      <4> QED BY <1>3, <4>1, <4>2
    <3>2. m * d <= n * d
      BY <3>1, MulMono
    <3>3. n >= 0
      BY <3>1
    <3> QED BY <3>1, <3>2, <3>3, QLeq, QSign, QValue
  <2>2. Leq(driven(i), driven(j)) /\ driven(i).n >= 0 /\ driven(i) \in Fraction
        /\ driven(j).n >= 0 /\ driven(j) \in Fraction
    <3> HIDE DEF a
    <3>1. Leq(a(j), a(j))
      BY <2>1, LeqTotal
    <3>2. /\ Leq(Percent(share, a(i)), Percent(share, a(j))) /\ Percent(share, a(i)).n >= 0
          /\ Percent(share, a(i)) \in Fraction
          /\ Percent(share, a(j)).n >= 0 /\ Percent(share, a(j)) \in Fraction
      BY <1>3, <2>1, <3>1, PercentMono
    <3> QED BY <3>2 DEF a
  <2> HIDE DEF driven
  <2> DEFINE b(x) == Times(Whole(100), driven(x))
  <2>3. Leq(b(i), b(j)) /\ b(i).n >= 0 /\ b(i) \in Fraction /\ b(j).n >= 0 /\ b(j) \in Fraction
    <3>1. Leq(driven(j), driven(j)) /\ 100 \in Nat
      BY <2>2, LeqTotal
    <3> QED BY <2>2, <3>1, TimesMono
  <2> HIDE DEF b
  <2>4. /\ Leq(Over(b(i), v.capacity), Over(b(j), v.capacity)) /\ Over(b(i), v.capacity).n >= 0
        /\ Over(b(i), v.capacity) \in Fraction /\ Over(b(j), v.capacity) \in Fraction
    <3>1. Leq(b(j), b(j))
      BY <2>3, LeqTotal
    <3> QED BY <1>2, <2>3, <3>1, OverMono
  <2> QED BY <2>4 DEF b
<1> HIDE DEF used
<1>6. Charge(initial, used(i)) \in 0..100 /\ Charge(initial, used(j)) <= Charge(initial, used(i))
  BY <1>3, <1>5, ChargeFalls
<1> QED BY <1>1, <1>6

(* The batteries from 04 on.                                               *)
Drawn == Battery04(OldVehicles, OldBattery)
IsStaged(t) == Trip[t].scenario \in DOMAIN StagedSoc

LEMMA DrawnIs ==
  ASSUME NEW k \in DOMAIN OldBattery
  PROVE  LET initial == StagedSoc[Trip[k[1]].scenario]
         IN  /\ k[1] \in Trips /\ k[2] \in Snapshots(k[1]) /\ k[2] \in Nat
             /\ IsStaged(k[1]) => /\ initial \in 0..100
                                 /\ Drawn[k] = Discharged(k[1], k[2], OldVehicles, initial)
             /\ ~IsStaged(k[1]) => Drawn[k] = OldBattery[k]
<1>1. PICK a \in AutoEvents : k = <<a[1], a[2]>>
  BY FleetAssumption
<1>2. OfSnapshot(a) /\ a[1] \in Trips /\ a[2] \in Snapshots(a[1])
  BY AutoEventIs
<1>3. a[2] \in Nat
  BY <1>2 DEF OfSnapshot
<1>4. IsStaged(k[1]) => StagedSoc[Trip[k[1]].scenario] \in 0..100
  BY StagedAssumption DEF IsStaged
<1>5. Drawn[k] = IF IsStaged(k[1]) THEN Discharged(k[1], k[2], OldVehicles, StagedSoc[Trip[k[1]].scenario])
                 ELSE OldBattery[k]
  BY DEF Drawn, Battery04, IsStaged
<1> QED BY <1>1, <1>2, <1>3, <1>4, <1>5

(* The validator's section on batteries.                                   *)
LEMMA BatteryPasses == BatteryChecks(Drawn)
<1>1. DOMAIN Drawn = DOMAIN OldBattery
  BY DEF Drawn, Battery04
<1>2. ASSUME NEW k \in DOMAIN OldBattery, NEW l \in DOMAIN OldBattery, k[1] = l[1], k[2] <= l[2]
      PROVE  Drawn[k].soc \in 0..100 /\ Drawn[l].soc <= Drawn[k].soc
  <2> DEFINE t == k[1]
             i == k[2]
             j == l[2]
             initial == StagedSoc[Trip[t].scenario]
  <2>1. t \in Trips /\ i \in Snapshots(t) /\ j \in Snapshots(t) /\ i <= j
    BY <1>2, DrawnIs
  <2>2. CASE IsStaged(t)
    <3>1. initial \in 0..100
      BY <2>2, DrawnIs
    <3>2. /\ Drawn[k] = Discharged(t, i, OldVehicles, initial)
          /\ Drawn[l] = Discharged(t, j, OldVehicles, initial)
      BY <1>2, <2>2, DrawnIs
    <3> HIDE DEF t, i, j, initial
    <3> QED BY <2>1, <3>1, <3>2, SocFalls
  <2>3. CASE ~IsStaged(t)
    <3>1. Drawn[k] = OldBattery[k] /\ Drawn[l] = OldBattery[l]
      BY <1>2, <2>3, DrawnIs
    <3>2. i = j \/ i < j
      BY <1>2, DrawnIs
    <3>3. i = j => k = l
      BY <1>2, FleetAssumption
    <3>4. BatteryChecks(OldBattery)
      BY FleetAssumption
    <3>5. i < j => OldBattery[l].soc <= OldBattery[k].soc
      BY <1>2, <3>4 DEF BatteryChecks
    <3>6. OldBattery[k].soc \in 0..100
      BY <3>4 DEF BatteryChecks
    <3> QED BY <3>1, <3>2, <3>3, <3>5, <3>6
  <2> QED BY <2>2, <2>3
<1>3. ASSUME NEW k \in DOMAIN OldBattery
      PROVE  Drawn[k].soc \in 0..100
  <2>1. k[2] <= k[2] /\ k[1] = k[1]
    BY DrawnIs
  <2> QED BY <1>2, <2>1
<1>4. \A k, l \in DOMAIN OldBattery : k[1] = l[1] /\ k[2] < l[2] => Drawn[l].soc <= Drawn[k].soc
  BY <1>2, DrawnIs
<1> QED BY <1>1, <1>3, <1>4 DEF BatteryChecks

-----------------------------------------------------------------------------
(* What the last two scripts leave.                                        *)
LEMMA DetectedNeed ==
  ASSUME NEW vehicles, NEW battery, NEW e \in DemandEvents(vehicles), e[3] = "AUTO"
  PROVE  DemandTable07(vehicles, battery)[e].need = (Detected(e, battery) # "SUFFICIENT_SOC_RANGE")
<1> DEFINE v == vehicles[Trip[e[1]].vehicle]
           why == Detected(e, battery)
           need == why # "SUFFICIENT_SOC_RANGE"
           service == Resolved(v, need)
           said == [source |-> "AUTO_DETECTED", need |-> need, reason |-> why,
                    requested |-> None, service |-> service, resolved |-> service, valid |-> None]
           seen == Telemetry(e, vehicles, battery)
           row == DemandTable07(vehicles, battery)[e]
<1>1. row = Extended(said, seen)
  BY DEF DemandTable07, AutoRow07, DetectedRow07, Auto07
<1>2. "need" \in DOMAIN said /\ said.need = need
  <2> HIDE DEF need, service, why
  <2> QED OBVIOUS
<1> HIDE DEF said, seen, row
<1>3. row.need = said.need
  BY <1>1, <1>2, ExtendedIs
<1> HIDE DEF need
<1> QED BY <1>2, <1>3 DEF row, need

LEMMA TrainingPasses ==
  ASSUME NEW vehicles
  PROVE  LET demand == DemandTable07(vehicles, Drawn)
         IN  TrainingChecks(TrainingTable07(demand), demand)
<1> DEFINE D == DemandTable07(vehicles, Drawn)
           rows == TrainingTable07(D)
<1>1. DOMAIN D = DemandEvents(vehicles)
  BY DEF DemandTable07
<1>2. DOMAIN rows = {e \in DOMAIN D : D[e].source = "AUTO_DETECTED"}
  BY DEF TrainingTable07
<1>3. \A e \in AutoEvents : e \in DemandEvents(vehicles) /\ e[3] = "AUTO"
  BY DemandEventsAre
<1>4. \A e \in DemandEvents(vehicles) : D[e].source = "AUTO_DETECTED" <=> e \in AutoEvents
  <2> TAKE e \in DemandEvents(vehicles)
  <2>1. CASE e[3] = "AUTO"
    <3>1. DetectedAs(D[e], vehicles[Trip[e[1]].vehicle], Drawn[<<e[1], e[2]>>].range)
      BY <2>1, DetectedRow
    <3> HIDE DEF D
    <3> QED BY <2>1, <3>1, DemandEventsAre DEF DetectedAs
  <2>2. CASE e[3] # "AUTO"
    <3>1. D[e].source = "DRIVER_REQUEST"
      BY <2>2, RequestedRow
    <3> HIDE DEF D
    <3> QED BY <2>2, <3>1, DemandEventsAre
  <2> QED BY <2>1, <2>2
<1>5. \A e \in DOMAIN rows : rows[e].need = D[e].need
  BY <1>2 DEF TrainingTable07, TrainingTable06
<1>6. \A e \in AutoEvents : D[e].need = (Detected(e, Drawn) # "SUFFICIENT_SOC_RANGE")
  BY <1>3, DetectedNeed
<1> HIDE DEF D, rows
<1>7. DOMAIN rows = AutoEvents
  BY <1>1, <1>2, <1>3, <1>4
<1>8. [e \in DOMAIN rows |-> rows[e].need] = [a \in AutoEvents |-> Detected(a, Drawn) # "SUFFICIENT_SOC_RANGE"]
  BY <1>5, <1>6, <1>7
<1>9. Mostly([e \in DOMAIN rows |-> rows[e].need], DOMAIN rows)
  BY <1>7, <1>8, NeedAssumption DEF Drawn
<1> QED BY <1>2, <1>9 DEF TrainingChecks, D, rows

LEMMA PutDomain ==
  ASSUME NEW f, NEW x
  PROVE  /\ DOMAIN [f EXCEPT !.rows = x] = DOMAIN f
         /\ DOMAIN [f EXCEPT !.name = x] = DOMAIN f
         /\ "name" \in DOMAIN f => [f EXCEPT !.name = x].name = x
OBVIOUS

(* Nobody changes the batteries after 04, and the scenarios have names.    *)
LEMMA OldShapes ==
  ASSUME NEW w
  PROVE  /\ Left(w, 5).battery = Drawn
         /\ "name" \in DOMAIN Left(w, 6).scenario
<1> DEFINE Out(n) == Output(Scripts[n], w, Left(w, n - 1))
           Old(n) == Left(w, n).battery = Drawn /\ "name" \in DOMAIN Left(w, n).scenario
<1>0. "name" \in DOMAIN Left(w, 0).scenario
  <2>1. "name" \in DOMAIN Original(w).scenario
    BY DEF Original
  <2> QED BY <2>1, LeftAre
<1>1. ASSUME NEW n \in 1..7, \A i \in 1..Len(Out(n)) : Out(n)[i].file # "battery"
      PROVE  Left(w, n).battery = Left(w, n - 1).battery
  <2>1. "battery" \in Names \ {"checked"}
    BY DEF Names
  <2>2. Left(w, n)["battery"] = Left(w, n - 1)["battery"]
    BY ONLY <1>1, <2>1, KeptFile
  <2> QED BY <2>2
<1>2. ASSUME NEW n \in 1..7, \A i \in 1..Len(Out(n)) : Out(n)[i].file # "scenario"
      PROVE  Left(w, n).scenario = Left(w, n - 1).scenario
  <2>1. "scenario" \in Names \ {"checked"}
    BY DEF Names
  <2>2. Left(w, n)["scenario"] = Left(w, n - 1)["scenario"]
    BY ONLY <1>2, <2>1, KeptFile
  <2> QED BY <2>2
<1>3. ASSUME NEW n \in 1..7, NEW i \in 1..Len(Out(n))
      PROVE  Left(w, n)[Out(n)[i].file] = Out(n)[i].content
  BY WroteFile
<1>4. Old(1)
  <2> DEFINE battery == Battery04(OldVehicles, OldBattery)
             output == Out(1)
  <2>1. output = Output04(w, Original(w))
    BY ScriptsAre, OutputsAre, LeftAre
  <2>2. Output04(w, Original(w)) = Driven04(w, Original(w), battery)
    BY DEF Output04, Original
  <2>3. battery = Drawn
    BY DEF Drawn
  <2> HIDE DEF battery
  <2>4. /\ Len(output) = 9 /\ output[1] = File("battery", battery)
        /\ \A i \in 1..9 : output[i].file # "scenario"
    BY <2>1, <2>2 DEF Driven04, Demanded04, Scripted04, Labelled04, Ranked04, Tables04, File
  <2>5. 1 \in 1..7 /\ 1 \in 1..Len(output) /\ \A i \in 1..Len(output) : output[i].file # "scenario"
    BY <2>4
  <2> HIDE DEF output
  <2>6. Left(w, 1)[output[1].file] = output[1].content
    BY <1>3, <2>5 DEF output
  <2>7. Left(w, 1).scenario = Left(w, 1 - 1).scenario
    BY <1>2, <2>5 DEF output
  <2>8. 1 - 1 = 0
    OBVIOUS
  <2> QED BY <1>0, <2>3, <2>4, <2>6, <2>7, <2>8 DEF File
<1>5. ASSUME Old(1) PROVE Old(2)
  <2> DEFINE old == Left(w, 1)
             output == Out(2)
             rows == Found(old)
  <2>1. output = Output04b(old)
    BY ScriptsAre, OutputsAre
  <2> HIDE DEF old, rows
  <2>2. /\ Len(output) = 2 /\ output[1].file = "events" /\ output[2].file = "scenario"
        /\ output[2].content = [old.scenario EXCEPT !.rows = rows]
    BY <2>1 DEF Output04b, File, rows
  <2>3. 2 \in 1..7 /\ 2 \in 1..Len(output) /\ \A i \in 1..Len(output) : output[i].file # "battery"
    BY <2>2
  <2> HIDE DEF output
  <2>4. Left(w, 2)[output[2].file] = output[2].content
    BY <1>3, <2>3 DEF output
  <2>5. Left(w, 2).battery = Left(w, 2 - 1).battery
    BY <1>1, <2>3 DEF output
  <2>6. DOMAIN output[2].content = DOMAIN old.scenario
    BY <2>2, PutDomain
  <2>7. 2 - 1 = 1
    OBVIOUS
  <2> QED BY <1>5, <2>2, <2>4, <2>5, <2>6, <2>7 DEF old
<1>6. ASSUME Old(2) PROVE Old(3)
  <2> DEFINE old == Left(w, 2)
             output == Out(3)
  <2>1. output = Output05(w, old)
    BY ScriptsAre, OutputsAre
  <2> HIDE DEF old
  <2>2. \E tables, farther, candidates, ranking :
          Output05(w, old) = Tables05(old, tables, farther, candidates, ranking)
    BY Zenon DEF Output05, Staged05, Candidates05, Labelled05
  <2>3. PICK tables, farther, candidates, ranking :
          Output05(w, old) = Tables05(old, tables, farther, candidates, ranking)
    BY <2>2
  <2> DEFINE rows == FartherRow(old.scenario.rows, ranking, farther)
  <2>4. /\ Len(output) = 7 /\ \A i \in 1..7 : output[i].file # "battery"
        /\ output[7].file = "scenario" /\ output[7].content = [old.scenario EXCEPT !.rows = rows]
    <3>1. output = Tables05(old, tables, farther, candidates, ranking)
      BY <2>1, <2>3
    <3> HIDE DEF output
    <3>2. /\ Len(output) = 7
          /\ output[1].file = "status" /\ output[2].file = "queue" /\ output[3].file = "candidates"
          /\ output[4].file = "ranking" /\ output[5].file = "recommendations"
          /\ output[6].file = "events" /\ output[7].file = "scenario"
      BY <3>1 DEF Tables05, File
    <3>3. output[7].content = [old.scenario EXCEPT !.rows = rows]
      BY <3>1 DEF Tables05, File
    <3> QED BY <3>2, <3>3
  <2> HIDE DEF rows
  <2> HIDE DEF output
  <2>5. 3 \in 1..7 /\ 7 \in 1..Len(output) /\ \A i \in 1..Len(output) : output[i].file # "battery"
    BY <2>4
  <2>6. Left(w, 3)[output[7].file] = output[7].content
    BY <1>3, <2>5 DEF output
  <2>7. Left(w, 3).battery = Left(w, 3 - 1).battery
    BY <1>1, <2>5 DEF output
  <2>8. DOMAIN output[7].content = DOMAIN old.scenario
    BY <2>4, PutDomain
  <2>9. 3 - 1 = 2
    OBVIOUS
  <2> QED BY <1>6, <2>4, <2>6, <2>7, <2>8, <2>9 DEF old
<1>7. ASSUME Old(3) PROVE Old(4)
  <2> DEFINE old == Left(w, 3)
             output == Out(4)
  <2>1. output = Output05b(old)
    BY ScriptsAre, OutputsAre
  <2> HIDE DEF old
  <2>2. \E e, key, row, candidates, ranking :
          Output05b(old) = Tables05b(old, e, key, row, candidates, ranking)
    BY Zenon DEF Output05b, Tie05b, Patch05b, NearTied, Tied
  <2>3. PICK e, key, row, candidates, ranking :
          Output05b(old) = Tables05b(old, e, key, row, candidates, ranking)
    BY <2>2
  <2> DEFINE x == [passed |-> Leq(Lead(ranking, e), Whole(NearTie)), trip |-> e[1],
                   event |-> EventId(DOMAIN old.demand, e), station |-> At(ranking, e, 1)[2],
                   other |-> At(ranking, e, 2)[2], time |-> key[2]]
             rows == [old.scenario.rows EXCEPT !["NEAR_TIE_STATIONS"] = x]
  <2>4. /\ Len(output) = 6 /\ \A i \in 1..6 : output[i].file # "battery"
        /\ output[6].file = "scenario" /\ output[6].content = [old.scenario EXCEPT !.rows = rows]
    BY <2>1, <2>3 DEF Tables05b, File
  <2> HIDE DEF rows
  <2> HIDE DEF output
  <2>5. 4 \in 1..7 /\ 6 \in 1..Len(output) /\ \A i \in 1..Len(output) : output[i].file # "battery"
    BY <2>4
  <2>6. Left(w, 4)[output[6].file] = output[6].content
    BY <1>3, <2>5 DEF output
  <2>7. Left(w, 4).battery = Left(w, 4 - 1).battery
    BY <1>1, <2>5 DEF output
  <2>8. DOMAIN output[6].content = DOMAIN old.scenario
    BY <2>4, PutDomain
  <2>9. 4 - 1 = 3
    OBVIOUS
  <2> QED BY <1>7, <2>4, <2>6, <2>7, <2>8, <2>9 DEF old
<1>8. ASSUME Old(4) PROVE Old(5)
  <2> DEFINE output == Out(5)
  <2>1. output = Output05c(Left(w, 4))
    BY ScriptsAre, OutputsAre
  <2>2. Len(output) = 3 /\ \A i \in 1..3 : output[i].file \notin {"battery", "scenario"}
    BY <2>1 DEF Output05c, File
  <2>3. /\ \A i \in 1..Len(output) : output[i].file # "battery"
        /\ \A i \in 1..Len(output) : output[i].file # "scenario"
        /\ 5 \in 1..7 /\ 5 - 1 = 4
    BY <2>2
  <2> HIDE DEF output
  <2>4. Left(w, 5).battery = Left(w, 5 - 1).battery /\ Left(w, 5).scenario = Left(w, 5 - 1).scenario
    BY <1>1, <1>2, <2>3 DEF output
  <2> QED BY <1>8, <2>3, <2>4
<1>9. ASSUME Old(5) PROVE "name" \in DOMAIN Left(w, 6).scenario
  <2> DEFINE output == Out(6)
  <2>1. output = Output06(Left(w, 5))
    BY ScriptsAre, OutputsAre
  <2>2. Len(output) = 12 /\ \A i \in 1..12 : output[i].file # "scenario"
    BY <2>1 DEF Output06, Driven06, Demanded06, Tables06, Labelled06, Results06, File
  <2>3. (\A i \in 1..Len(output) : output[i].file # "scenario") /\ 6 \in 1..7 /\ 6 - 1 = 5
    BY <2>2
  <2> HIDE DEF output
  <2>4. Left(w, 6).scenario = Left(w, 6 - 1).scenario
    BY <1>2, <2>3 DEF output
  <2> QED BY <1>9, <2>3, <2>4
<1> QED BY <1>4, <1>5, <1>6, <1>7, <1>8, <1>9

(* From 05c on the tables know their services, and fit.                    *)
LEMMA PutSplit ==
  ASSUME NEW rows, NEW key, NEW row
  PROVE  QueuePut([split |-> TRUE, rows |-> rows], key, row).split
<1> DEFINE q == [split |-> TRUE, rows |-> rows]
           x == [q.rows EXCEPT ![key] = row]
<1>1. QueuePut(q, key, row) = [q EXCEPT !.rows = x]
  BY DEF QueuePut
<1>2. q.split /\ DOMAIN q = {"split", "rows"}
  OBVIOUS
<1> HIDE DEF x, q
<1>3. [q EXCEPT !.rows = x].split
  BY <1>2
<1> QED BY <1>1, <1>3 DEF q

LEMMA SplitBy05b ==
  ASSUME NEW w \in Worlds
  PROVE  LeftBy05b(w).status.split /\ LeftBy05b(w).queue.split
<1> DEFINE old == LeftBy05(w)
           e == Chosen(old.ranking)
           best == At(old.ranking, e, 1)
           needed == Needed(Lead(old.ranking, e))
<1>1. old.status.split /\ old.queue.split /\ old.queue = [split |-> TRUE, rows |-> old.events.queue]
  <2>1. /\ old.status = [split |-> TRUE, rows |-> old.events.status]
        /\ old.queue = [split |-> TRUE, rows |-> old.events.queue]
    BY LeftBy05Is
  <2> HIDE DEF old
  <2> QED BY <2>1
<1>2. CASE needed = Zero
  <2>1. LeftBy05b(w).status = old.status /\ LeftBy05b(w).queue = old.queue
    <3>1. Files(old)
      BY LeftAre, LeftFiles
    <3>2. Alike(old, old)
      BY <3>1 DEF Alike
    <3>3. Partly(old, old, Output05b(old), 0)
      BY <3>2, PartlyNone
    <3> QED BY <1>2, <3>3, Untied05b
  <2> HIDE DEF old
  <2> QED BY <1>1, <2>1
<1>3. CASE needed # Zero
  <2> DEFINE row == Longer(old, best, needed)
  <2>1. LeftBy05b(w).status = old.status /\ LeftBy05b(w).queue = QueuePut(old.queue, Target, row)
    BY <1>3, TiedBy05b
  <2> DEFINE rows == old.events.queue
  <2>2. old.queue = [split |-> TRUE, rows |-> rows]
    BY <1>1
  <2> HIDE DEF row, rows, old
  <2>3. QueuePut([split |-> TRUE, rows |-> rows], Target, row).split
    BY PutSplit
  <2> QED BY <1>1, <2>1, <2>2, <2>3
<1> QED BY <1>2, <1>3

LEMMA TablesAtTheEnd ==
  ASSUME NEW w \in Worlds
  PROVE  \E t : /\ FitTables(t)
                /\ \A n \in {6, 7} : /\ Left(w, n).status.split /\ Left(w, n).queue.split
                                     /\ Left(w, n).status.rows = t.status /\ Left(w, n).queue.rows = t.queue
<1>1. PICK t : FitTables(t) /\ LeftBy05b(w).status.rows = t.status /\ LeftBy05b(w).queue.rows = t.queue
  BY TablesBy05b
<1>2. Left(w, 5).status = LeftBy05b(w).status /\ Left(w, 5).queue = LeftBy05b(w).queue
  <2>1. 5 \in {5, 6, 7} /\ 5 - 1 = 4
    OBVIOUS
  <2> QED BY <2>1, TablesStay, LeftAre
<1>3. Left(w, 6).status = Left(w, 5).status /\ Left(w, 6).queue = Left(w, 5).queue
  <2>1. 6 \in {5, 6, 7} /\ 6 - 1 = 5
    OBVIOUS
  <2> QED BY <2>1, TablesStay
<1>4. Left(w, 7).status = Left(w, 6).status /\ Left(w, 7).queue = Left(w, 6).queue
  <2>1. 7 \in {5, 6, 7} /\ 7 - 1 = 6
    OBVIOUS
  <2> QED BY <2>1, TablesStay
<1>5. LeftBy05b(w).status.split /\ LeftBy05b(w).queue.split
  BY SplitBy05b
<1> QED BY <1>1, <1>2, <1>3, <1>4, <1>5

(* 06 patches every vehicle and writes every battery as it was.            *)
LEMMA LeftBy06Is ==
  ASSUME NEW w \in Worlds
  PROVE  LET d == Left(w, 6)
         IN  /\ d.catalog /\ d.normalized
             /\ \A t \in Trips : DriverOf(d.vehicles, t)
             /\ d.battery = Drawn
<1> DEFINE old == Left(w, 5)
           output == Output(Scripts[6], w, old)
           vehicles == [v \in DOMAIN OldVehicles |-> Patched(v)]
           battery == old.battery
           demand == DemandTable06(vehicles, battery)
           tables == RebuiltTables(old)
           candidates == CandidateTable06(demand, TRUE, tables.status, tables.queue)
           ranking == RankingTable(candidates)
           yes == TRUE
<1>1. old.vehicles = OldVehicles
  BY OldNames, LeftAre
<1>2. output = Output06(old)
  BY ScriptsAre, OutputsAre
<1>3. battery = Drawn
  BY OldShapes
<1>4. \A t \in Trips : DriverOf(vehicles, t)
  BY FleetAssumption DEF DriverOf
<1>6. output = Results06(vehicles, battery, demand, tables, candidates, ranking)
  <2> HIDE DEF output
  <2> QED BY <1>1, <1>2 DEF Output06, Driven06, Demanded06, Tables06, Labelled06
<1> HIDE DEF old, vehicles, battery, demand, tables, candidates, ranking
<1>7. /\ Len(output) = 12
      /\ output[1] = File("catalog", yes) /\ output[2] = File("vehicles", vehicles)
      /\ output[3] = File("normalized", yes) /\ output[4] = File("battery", battery)
  <2> HIDE DEF output
  <2> QED BY <1>6 DEF Results06, yes
<1> HIDE DEF yes
<1>8. 6 \in 1..7 /\ 6 - 1 = 5 /\ \A i \in 1..4 : i \in 1..Len(output)
  BY <1>7
<1>9. \A i \in 1..4 : Left(w, 6)[output[i].file] = output[i].content
  BY <1>8, WroteFile DEF output, old
<1> HIDE DEF output
<1>10. /\ Left(w, 6)[output[1].file] = output[1].content /\ Left(w, 6)[output[2].file] = output[2].content
       /\ Left(w, 6)[output[3].file] = output[3].content /\ Left(w, 6)[output[4].file] = output[4].content
  BY <1>9
<1>11. /\ Left(w, 6).catalog = yes /\ Left(w, 6).vehicles = vehicles
       /\ Left(w, 6).normalized = yes /\ Left(w, 6).battery = battery
  BY <1>7, <1>10 DEF File
<1>12. Left(w, 6).catalog /\ Left(w, 6).normalized
  BY <1>11 DEF yes
<1>13. \A t \in Trips : DriverOf(Left(w, 6).vehicles, t)
  BY <1>4, <1>11, Zenon
<1>14. Left(w, 6).battery = Drawn
  BY <1>3, <1>11
<1> QED BY <1>12, <1>13, <1>14

(* What 07 leaves, of what the validator reads.                            *)
LEMMA LeftBy07Is ==
  ASSUME NEW w \in Worlds
  PROVE  LET old == Left(w, 6)
             new == Left(w, 7)
             demand == DemandTable07(old.vehicles, old.battery)
             tables == RebuiltTables(old)
             candidates == CandidateTable07(demand, old.normalized, tables.status, tables.queue)
         IN  /\ new.catalog = old.catalog /\ new.normalized = old.normalized /\ new.battery = old.battery
             /\ new.vehicles = old.vehicles
             /\ new.demand = demand /\ new.esr = demand /\ new.features = demand
             /\ new.need = TrainingTable07(demand)
             /\ new.candidates = candidates /\ new.ranking = RankingTable(candidates)
             /\ new.recommendations = Recommendations(Needing(demand), RankingTable(candidates))
             /\ new.events = tables
             /\ new.scenario.name = "NEED_ENERGY_BOTH_ALLOWED"
<1> DEFINE old == Left(w, 6)
           new == Left(w, 7)
           output == Output(Scripts[7], w, old)
           demand == DemandTable07(old.vehicles, old.battery)
           tables == RebuiltTables(old)
           candidates == CandidateTable07(demand, old.normalized, tables.status, tables.queue)
           ranking == RankingTable(candidates)
           best == Recommendations(Needing(demand), ranking)
           scenario == [old.scenario EXCEPT !.name = "NEED_ENERGY_BOTH_ALLOWED"]
           learnt == TrainingTable07(demand)
<1>1. output = Output07(old)
  BY ScriptsAre, OutputsAre
<1>2. Output07(old) = Results07(old, demand, tables, candidates, ranking)
  BY DEF Output07, Tables07, Labelled07
<1>3. scenario.name = "NEED_ENERGY_BOTH_ALLOWED"
  <2>1. "name" \in DOMAIN old.scenario
    BY OldShapes
  <2> HIDE DEF old
  <2> QED BY <2>1, PutDomain
<1>4. output = << File("demand", demand), File("esr", demand), File("need", learnt),
                  File("features", demand), File("candidates", candidates), File("ranking", ranking),
                  File("recommendations", best), File("events", tables), File("scenario", scenario) >>
  <2> HIDE DEF output, demand, tables, candidates, ranking
  <2> QED BY <1>1, <1>2 DEF Results07
<1> HIDE DEF demand, tables, candidates, ranking, best, scenario, learnt
<1>5. /\ Len(output) = 9
      /\ output[1] = File("demand", demand) /\ output[2] = File("esr", demand)
      /\ output[3] = File("need", learnt) /\ output[4] = File("features", demand)
      /\ output[5] = File("candidates", candidates) /\ output[6] = File("ranking", ranking)
      /\ output[7] = File("recommendations", best) /\ output[8] = File("events", tables)
      /\ output[9] = File("scenario", scenario)
  <2> HIDE DEF output
  <2> QED BY <1>4
<1>6. 7 \in 1..7 /\ 7 - 1 = 6 /\ \A i \in 1..9 : i \in 1..Len(output)
  BY <1>5
<1>7. \A i \in 1..9 : new[output[i].file] = output[i].content
  BY <1>6, WroteFile DEF output, old, new
<1>8. \A i \in 1..Len(output) : /\ output[i].file # "catalog" /\ output[i].file # "normalized"
                                /\ output[i].file # "battery" /\ output[i].file # "vehicles"
  <2>1. /\ output[1].file = "demand" /\ output[2].file = "esr" /\ output[3].file = "need"
        /\ output[4].file = "features" /\ output[5].file = "candidates" /\ output[6].file = "ranking"
        /\ output[7].file = "recommendations" /\ output[8].file = "events" /\ output[9].file = "scenario"
    <3> HIDE DEF output
    <3> QED BY <1>5 DEF File
  <2> HIDE DEF output
  <2> QED BY <1>5, <2>1
<1>9. /\ new["catalog"] = old["catalog"] /\ new["normalized"] = old["normalized"]
      /\ new["battery"] = old["battery"] /\ new["vehicles"] = old["vehicles"]
  <2>1. /\ "catalog" \in Names \ {"checked"} /\ "normalized" \in Names \ {"checked"}
        /\ "battery" \in Names \ {"checked"} /\ "vehicles" \in Names \ {"checked"}
    BY DEF Names
  <2>2. \A i \in 1..Len(Output(Scripts[7], w, Left(w, 7 - 1))) :
          /\ Output(Scripts[7], w, Left(w, 7 - 1))[i].file # "vehicles"
          /\ Output(Scripts[7], w, Left(w, 7 - 1))[i].file # "catalog"
          /\ Output(Scripts[7], w, Left(w, 7 - 1))[i].file # "normalized"
          /\ Output(Scripts[7], w, Left(w, 7 - 1))[i].file # "battery"
    BY <1>6, <1>8 DEF output, old
  <2>3. Left(w, 7)["catalog"] = Left(w, 7 - 1)["catalog"]
    BY ONLY <1>6, <2>1, <2>2, KeptFile
  <2>4. Left(w, 7)["normalized"] = Left(w, 7 - 1)["normalized"]
    BY ONLY <1>6, <2>1, <2>2, KeptFile
  <2>5. Left(w, 7)["battery"] = Left(w, 7 - 1)["battery"]
    BY ONLY <1>6, <2>1, <2>2, KeptFile
  <2>6. Left(w, 7)["vehicles"] = Left(w, 7 - 1)["vehicles"]
    BY ONLY <1>6, <2>1, <2>2, KeptFile
  <2> QED BY <1>6, <2>3, <2>4, <2>5, <2>6 DEF old, new
<1> HIDE DEF output, new, old
<1>10. /\ new[output[1].file] = output[1].content /\ new[output[2].file] = output[2].content
       /\ new[output[3].file] = output[3].content /\ new[output[4].file] = output[4].content
       /\ new[output[5].file] = output[5].content /\ new[output[6].file] = output[6].content
       /\ new[output[7].file] = output[7].content /\ new[output[8].file] = output[8].content
       /\ new[output[9].file] = output[9].content
  BY <1>7
<1>11. /\ new.demand = demand /\ new.esr = demand /\ new.features = demand /\ new.need = learnt
       /\ new.candidates = candidates /\ new.ranking = ranking /\ new.recommendations = best
       /\ new.events = tables /\ new.scenario = scenario
  BY <1>5, <1>10 DEF File
<1> QED BY <1>3, <1>9, <1>11 DEF old, new, demand, tables, candidates, ranking, best, learnt

LEMMA SomeSnapshot ==
  ASSUME NEW w \in Worlds
  PROVE  AutoEvents # {}
<1> DEFINE d == LeftBy05(w)
           demand == LeftBy04b(w).demand
<1>1. TieEvents(d.ranking) # {}
  BY TieEventsBy05b
<1>2. PICK k \in DOMAIN d.ranking : TRUE
  BY <1>1 DEF TieEvents
<1>3. d.ranking = RankingTable(d.candidates) /\ CandidatesShaped(d.candidates)
      /\ d.candidates = CandidateTable05(demand, d.events.status, d.events.queue)
  BY LeftBy05Is
<1> HIDE DEF d, demand
<1>4. Listed(d.candidates) # {}
  <2> DEFINE c == d.candidates
             keys == {x \in UNION {Group(c, e) : e \in Listed(c)} : Complete(x[1], x[2])}
             cost == [x \in keys |-> CostOf(x[1], x[2], x[3], c[x].state.capacity, c[x].state.wait)]
  <2>1. RankingTable(c) = RankingRows(c, Ranked(cost))
    BY DEF RankingTable
  <2>2. DOMAIN cost = keys
    OBVIOUS
  <2> HIDE DEF cost, keys, c
  <2>3. DOMAIN RankingTable(c) = keys
    BY <2>1, <2>2 DEF RankingRows, Ranked
  <2>4. keys # {}
    BY <1>2, <1>3, <2>3 DEF c
  <2> QED BY <2>4 DEF keys, c
<1>5. DOMAIN demand # {}
  <2>1. PICK l \in DOMAIN d.candidates : TRUE
    BY <1>4 DEF Listed
  <2> QED BY <1>3, <2>1 DEF CandidateTable05
<1>6. \E vehicles, battery : demand = Demand04(vehicles, battery)
  BY RowsBy04b DEF demand
<1>7. DOMAIN demand = AutoEvents
  BY <1>6 DEF Demand04
<1> QED BY <1>5, <1>7

(* The validator's verdict on what an uninterrupted chain leaves behind.   *)
LEMMA FinalPasses ==
  ASSUME NEW w \in Worlds
  PROVE  Accepted(Left(w, 7))
<1> DEFINE old == Left(w, 6)
           new == Left(w, 7)
           vehicles == old.vehicles
           battery == old.battery
           normalized == old.normalized
           tables == RebuiltTables(old)
           status == tables.status
           queue == tables.queue
           demand == DemandTable07(vehicles, battery)
           candidates == CandidateTable07(demand, normalized, status, queue)
           ranking == RankingTable(candidates)
<1>1. PICK t : /\ FitTables(t)
               /\ \A n \in {6, 7} : /\ Left(w, n).status.split /\ Left(w, n).queue.split
                                    /\ Left(w, n).status.rows = t.status /\ Left(w, n).queue.rows = t.queue
  BY TablesAtTheEnd
<1>2. /\ old.status.rows = t.status /\ old.queue.rows = t.queue
      /\ new.status.rows = t.status /\ new.queue.rows = t.queue
      /\ new.status.split /\ new.queue.split
  BY <1>1
<1>3. /\ old.catalog /\ normalized /\ battery = Drawn /\ BatteryChecks(battery)
      /\ \A x \in Trips : DriverOf(vehicles, x)
  BY LeftBy06Is, BatteryPasses
<1>4. /\ new.catalog = old.catalog /\ new.normalized = normalized /\ new.battery = battery
      /\ new.demand = demand /\ new.esr = demand /\ new.features = demand
      /\ new.need = TrainingTable07(demand)
      /\ new.candidates = candidates /\ new.ranking = ranking
      /\ new.recommendations = Recommendations(Needing(demand), ranking)
      /\ new.events = tables
      /\ new.scenario.name = "NEED_ENERGY_BOTH_ALLOWED"
  BY LeftBy07Is
<1>5. DemandChecks(demand)
  <2>1. \A x \in Trips : vehicles[Trip[x].vehicle].swap \in BOOLEAN
    BY <1>3, PatchedIs DEF DriverOf
  <2> HIDE DEF vehicles, battery
  <2> QED BY <2>1, DemandPasses
<1>6. AllRankable(candidates)
  <2> HIDE DEF vehicles, battery, normalized, old
  <2> QED BY <1>1, <1>2, Rankable07
<1>7. CandidateChecks(candidates, ranking, demand)
  <2> HIDE DEF vehicles, battery, normalized, status, queue
  <2> QED BY <1>6, CandidatesPass
<1>8. RankingChecks(ranking)
  <2> HIDE DEF candidates
  <2> QED BY <1>6, RankingPasses
<1>9. RecommendationChecks(Recommendations(Needing(demand), ranking), candidates, demand)
  <2> HIDE DEF vehicles, battery, normalized, status, queue
  <2> QED BY <1>6, RecommendationsPass
<1>10. StateChecks(t.status, t.queue)
  BY <1>1, StatePasses
<1>11. EventChecks(tables, t.status, t.queue)
  <2>1. DOMAIN t.status = DOMAIN t.queue
    BY <1>1 DEF FitTables, TablesShaped
  <2>2. DOMAIN old.status.rows = DOMAIN old.queue.rows
    BY <1>2, <2>1
  <2> HIDE DEF old
  <2>3. EventChecks(RebuiltTables(old), old.status.rows, old.queue.rows)
    BY <2>2, EventsPass
  <2> QED BY <1>2, <2>3
<1>12. AutoEvents \subseteq DOMAIN demand /\ AutoEvents # {}
  BY <1>5, SomeSnapshot DEF DemandChecks
<1>13. \A e \in DOMAIN demand : demand[e].resolved # "no column"
  <2> HIDE DEF demand
  <2> QED BY <1>5 DEF DemandChecks
<1>14. TrainingChecks(TrainingTable07(demand), demand)
  <2> HIDE DEF vehicles, battery
  <2> QED BY <1>3, TrainingPasses
<1>15. DOMAIN TrainingTable07(demand) # {}
  <2> HIDE DEF vehicles, battery
  <2>1. PICK a \in AutoEvents : TRUE
    BY <1>12
  <2>2. a \in DemandEvents(vehicles) /\ a[3] = "AUTO"
    BY <2>1, DemandEventsAre
  <2>3. DetectedAs(demand[a], vehicles[Trip[a[1]].vehicle], battery[<<a[1], a[2]>>].range)
    BY <2>2, DetectedRow
  <2>4. a \in DOMAIN demand /\ demand[a].source = "AUTO_DETECTED"
    BY <1>12, <2>1, <2>3 DEF DetectedAs
  <2> HIDE DEF demand
  <2> QED BY <1>14, <2>4 DEF TrainingChecks
<1> HIDE DEF new, old, vehicles, battery, normalized, tables, demand, candidates, ranking
<1>16. Readable(new)
  <2>1. DOMAIN new.esr # {} /\ DOMAIN new.need # {}
    BY <1>4, <1>12, <1>15
  <2>2. new.catalog
    BY <1>3, <1>4
  <2> QED BY <1>2, <2>1, <2>2 DEF Readable
<1>17. /\ DemandChecks(new.demand) /\ BatteryChecks(new.battery) /\ DOMAIN new.esr = DOMAIN new.demand
       /\ \A e \in DOMAIN new.esr : new.esr[e].resolved # "no column"
       /\ \A e \in DOMAIN new.features : new.features[e].resolved # "no column"
       /\ TrainingChecks(new.need, new.demand)
  BY <1>3, <1>4, <1>5, <1>13, <1>14
<1>18. new.normalized
  BY <1>3, <1>4
<1>19. /\ CandidateChecks(new.candidates, new.ranking, new.demand) /\ RankingChecks(new.ranking)
       /\ RecommendationChecks(new.recommendations, new.candidates, new.demand)
  BY <1>4, <1>7, <1>8, <1>9
<1>20. StateChecks(new.status.rows, new.queue.rows) /\ EventChecks(new.events, new.status.rows, new.queue.rows)
  BY <1>2, <1>4, <1>10, <1>11
<1>21. Accepted(new)
  BY <1>4, <1>16, <1>17, <1>18, <1>19, <1>20 DEF Accepted
<1> QED BY <1>21 DEF new

LEMMA AcceptedAlike ==
  ASSUME NEW d, NEW old, Alike(d, old), Accepted(old)
  PROVE  Accepted(d)
<1>1. /\ d.catalog = old.catalog /\ d.normalized = old.normalized /\ d.battery = old.battery
      /\ d.demand = old.demand /\ d.esr = old.esr /\ d.features = old.features /\ d.need = old.need
      /\ d.candidates = old.candidates /\ d.ranking = old.ranking
      /\ d.recommendations = old.recommendations /\ d.events = old.events
      /\ d.scenario = old.scenario /\ d.status = old.status /\ d.queue = old.queue
  BY DEF Alike, Names
<1> QED BY <1>1 DEF Accepted, Readable

(* When the last script has ended the validator accepts what it finds, in  *)
(* every section but the scenarios', for every fleet, network and table of *)
(* version 1.0 the assumptions describe and however often a script was     *)
(* killed and run again: the labels 07 writes are those the checks of      *)
(* validate_dataset.py derive from the same files.                         *)
THEOREM LastRunAccepted == Spec => []FinalAccepted
<1>1. Retraced => FinalAccepted
  <2> SUFFICES ASSUME Retraced, Finished PROVE Accepted(disk)
    BY DEF FinalAccepted
  <2>1. world \in Worlds /\ Alike(disk, Left(world, 7))
    BY LeftAre DEF Retraced, Finished
  <2>2. Accepted(Left(world, 7))
    BY <2>1, FinalPasses
  <2> QED BY <2>1, <2>2, AcceptedAlike
<1> QED BY <1>1, RetracedAlways, PTL


-----------------------------------------------------------------------------
(* The published labels and the backend.  An identifier counts the rows    *)
(* before an event: three of every snapshot, four where it asks for ANY.   *)
LEMMA ImageSize ==
  ASSUME NEW S, IsFiniteSet(S), NEW f, DOMAIN f = S, NEW T, \A x \in S : f[x] \in T,
         \A y \in T : \E x \in S : f[x] = y, f \in [S -> T]
  PROVE  /\ IsFiniteSet(T)
         /\ (\A x, y \in S : f[x] = f[y] => x = y) => Cardinality(T) = Cardinality(S)
<1>1. f \in Surjection(S, T)
  BY Zenon DEF Surjection
<1>2. IsFiniteSet(T)
  BY <1>1, FS_Surjection
<1>3. ASSUME \A x, y \in S : f[x] = f[y] => x = y
      PROVE  Cardinality(T) = Cardinality(S)
  <2>1. f \in Bijection(S, T)
    BY <1>1, <1>3 DEF Bijection, Injection, IsInjective
  <2> QED BY <2>1, FS_Bijection DEF ExistsBijection
<1> QED BY <1>2, <1>3

LEMMA AutoEventsFinite == IsFiniteSet(AutoEvents)
<1> DEFINE of(t) == {<<t, i, "AUTO">> : i \in Snapshots(t)}
           all == {of(t) : t \in Trips}
           f == [t \in Trips |-> of(t)]
<1>1. \A t \in Trips : IsFiniteSet(of(t))
  <2> TAKE t \in Trips
  <2> DEFINE g == [i \in Snapshots(t) |-> <<t, i, "AUTO">>]
  <2>1. Trip[t].snapshots \in Seq(Moment)
    BY TripsAssumption
  <2>2. Snapshots(t) = 1..Len(Trip[t].snapshots) /\ Len(Trip[t].snapshots) \in Int /\ 1 \in Int
    BY <2>1 DEF Snapshots
  <2>3. IsFiniteSet(Snapshots(t))
    BY <2>2, FS_Interval
  <2>4. /\ DOMAIN g = Snapshots(t) /\ \A i \in Snapshots(t) : g[i] \in of(t)
        /\ \A y \in of(t) : \E i \in Snapshots(t) : g[i] = y
        /\ g \in [Snapshots(t) -> of(t)]
    OBVIOUS
  <2> HIDE DEF g, of
  <2> QED BY <2>3, <2>4, ImageSize
<1>2. /\ DOMAIN f = Trips /\ \A t \in Trips : f[t] \in all
      /\ \A y \in all : \E t \in Trips : f[t] = y
      /\ f \in [Trips -> all]
  <2> HIDE DEF of
  <2> QED OBVIOUS
<1>3. AutoEvents = UNION all
  BY DEF AutoEvents
<1>4. \A y \in all : IsFiniteSet(y)
  <2> HIDE DEF of
  <2> QED BY <1>1
<1> HIDE DEF f, all
<1>5. IsFiniteSet(all)
  BY <1>2, TripsAssumption, ImageSize
<1> QED BY <1>3, <1>4, <1>5, FS_UNION

OfKind(S, k) == {<<b[1], b[2], k>> : b \in S}

LEMMA KindSize ==
  ASSUME NEW S, S \subseteq AutoEvents, NEW k
  PROVE  IsFiniteSet(OfKind(S, k)) /\ Cardinality(OfKind(S, k)) = Cardinality(S)
         /\ Cardinality(S) \in Nat
<1> DEFINE f == [b \in S |-> <<b[1], b[2], k>>]
           T == OfKind(S, k)
<1>1. IsFiniteSet(S)
  BY AutoEventsFinite, FS_Subset
<1>2. /\ DOMAIN f = S /\ \A x \in S : f[x] \in T /\ f[x][1] = x[1] /\ f[x][2] = x[2]
      /\ \A y \in T : \E x \in S : f[x] = y
      /\ f \in [S -> T]
  BY DEF OfKind
<1>3. \A x \in S : x = <<x[1], x[2], "AUTO">>
  <2> TAKE x \in S
  <2>1. x \in Trips \X Nat \X {"AUTO"}
    BY AutoEventIs DEF OfSnapshot
  <2> QED BY <2>1
<1> HIDE DEF f, T
<1>4. \A x, y \in S : f[x] = f[y] => x = y
  <2> SUFFICES ASSUME NEW x \in S, NEW y \in S, f[x] = f[y] PROVE x = y
    OBVIOUS
  <2>1. x[1] = y[1] /\ x[2] = y[2]
    BY <1>2
  <2> QED BY <1>3, <2>1
<1>5. IsFiniteSet(T) /\ Cardinality(T) = Cardinality(S)
  BY <1>1, <1>2, <1>4, ImageSize
<1> QED BY <1>1, <1>5, FS_CardinalityType DEF T

LEMMA JoinedSize ==
  ASSUME NEW S, NEW T, IsFiniteSet(S), IsFiniteSet(T), S \cap T = {}
  PROVE  IsFiniteSet(S \cup T) /\ Cardinality(S \cup T) = Cardinality(S) + Cardinality(T)
<1>1. Cardinality({}) = 0
  BY FS_EmptySet
<1>2. Cardinality(S) \in Nat /\ Cardinality(T) \in Nat
  BY FS_CardinalityType
<1>3. /\ IsFiniteSet(S \cup T)
      /\ Cardinality(S \cup T) = Cardinality(S) + Cardinality(T) - Cardinality(S \cap T)
  BY FS_Union
<1>4. Cardinality(S \cap T) = 0
  BY <1>1, Zenon
<1> QED BY <1>2, <1>3, <1>4

LEMMA Numbered ==
  ASSUME NEW vehicles, NEW a \in AutoEvents
  PROVE  LET before == {b \in AutoEvents : Earlier(b, a)}
             swaps == {b \in before : vehicles[Trip[b[1]].vehicle].swap}
         IN  EventId(DemandEvents(vehicles), a)
               = 1 + 3 * Cardinality(before) + Cardinality(swaps)
<1> DEFINE before == {b \in AutoEvents : Earlier(b, a)}
           swaps == {b \in before : vehicles[Trip[b[1]].vehicle].swap}
           D == {e \in DemandEvents(vehicles) : Earlier(e, a)}
           A == OfKind(before, "AUTO")
           C == OfKind(before, "CHARGING")
           B == OfKind(before, "BATTERY_SWAP")
           Y == OfKind(swaps, "ANY")
<1>1. ASSUME NEW b \in AutoEvents, NEW k \in {"AUTO", "CHARGING", "BATTERY_SWAP", "ANY"}
      PROVE  Earlier(<<b[1], b[2], k>>, a) <=> Earlier(b, a)
  <2>1. b[3] = "AUTO" /\ a[3] = "AUTO" /\ b[2] \in Nat /\ a[2] \in Nat
    BY AutoEventIs DEF OfSnapshot
  <2>2. ~(KindNumber(k) < KindNumber("AUTO")) /\ ~(KindNumber("AUTO") < KindNumber("AUTO"))
    BY DEF KindNumber
  <2> DEFINE x == <<b[1], b[2], k>>
  <2>3. x[1] = b[1] /\ x[2] = b[2] /\ x[3] = k
    OBVIOUS
  <2> HIDE DEF x
  <2>4. Earlier(x, a) <=> Earlier(b, a)
    BY <2>1, <2>2, <2>3 DEF Earlier
  <2> QED BY <2>4 DEF x
<1>2. \A e \in D : e \in A \cup C \cup B \cup Y
  <2> TAKE e \in D
  <2>1. PICK b \in AutoEvents : \E k \in {"AUTO", "CHARGING", "BATTERY_SWAP", "ANY"} :
          e = <<b[1], b[2], k>> /\ (k = "ANY" => vehicles[Trip[b[1]].vehicle].swap)
    BY DemandEventIs
  <2>2. PICK k \in {"AUTO", "CHARGING", "BATTERY_SWAP", "ANY"} :
          e = <<b[1], b[2], k>> /\ (k = "ANY" => vehicles[Trip[b[1]].vehicle].swap)
    BY <2>1
  <2>3. b \in before
    BY <1>1, <2>2
  <2>4. k = "ANY" => b \in swaps
    BY <2>2, <2>3
  <2> HIDE DEF before, swaps
  <2> QED BY <2>2, <2>3, <2>4 DEF OfKind
<1>3. ASSUME NEW b \in before, NEW k \in {"AUTO", "CHARGING", "BATTERY_SWAP", "ANY"},
             k = "ANY" => b \in swaps
      PROVE  <<b[1], b[2], k>> \in D
  <2>1. b \in AutoEvents /\ Earlier(b, a) /\ (k = "ANY" => vehicles[Trip[b[1]].vehicle].swap)
    BY <1>3
  <2> QED BY <1>1, <2>1, DemandEventIs
<1>4. \A e \in A \cup C \cup B \cup Y : e \in D
  <2>1. swaps \subseteq before
    OBVIOUS
  <2> HIDE DEF before, swaps, D
  <2>2. \A b \in before : /\ <<b[1], b[2], "AUTO">> \in D /\ <<b[1], b[2], "CHARGING">> \in D
                          /\ <<b[1], b[2], "BATTERY_SWAP">> \in D
    BY <1>3
  <2>3. \A b \in swaps : <<b[1], b[2], "ANY">> \in D
    BY <1>3, <2>1
  <2> QED BY <2>2, <2>3 DEF OfKind
<1>5. before \subseteq AutoEvents /\ swaps \subseteq AutoEvents
  OBVIOUS
<1> HIDE DEF before, swaps, D
<1>6. D = ((A \cup C) \cup B) \cup Y
  BY <1>2, <1>4
<1>7. /\ \A e \in A : e[3] = "AUTO"
      /\ \A e \in C : e[3] = "CHARGING"
      /\ \A e \in B : e[3] = "BATTERY_SWAP"
      /\ \A e \in Y : e[3] = "ANY"
  BY DEF OfKind
<1>8. /\ IsFiniteSet(A) /\ IsFiniteSet(C) /\ IsFiniteSet(B) /\ IsFiniteSet(Y)
      /\ Cardinality(A) = Cardinality(before) /\ Cardinality(C) = Cardinality(before)
      /\ Cardinality(B) = Cardinality(before) /\ Cardinality(Y) = Cardinality(swaps)
      /\ Cardinality(before) \in Nat /\ Cardinality(swaps) \in Nat
  BY <1>5, KindSize
<1> HIDE DEF A, B, C, Y
<1>9. A \cap C = {} /\ (A \cup C) \cap B = {} /\ ((A \cup C) \cup B) \cap Y = {}
  BY <1>7
<1>10. IsFiniteSet(A \cup C) /\ Cardinality(A \cup C) = Cardinality(A) + Cardinality(C)
  BY <1>8, <1>9, JoinedSize
<1>11. /\ IsFiniteSet((A \cup C) \cup B)
       /\ Cardinality((A \cup C) \cup B) = Cardinality(A \cup C) + Cardinality(B)
  BY <1>8, <1>9, <1>10, JoinedSize
<1>12. Cardinality(D) = Cardinality((A \cup C) \cup B) + Cardinality(Y)
  BY <1>6, <1>8, <1>9, <1>11, JoinedSize
<1>13. Cardinality(D) = 3 * Cardinality(before) + Cardinality(swaps)
  BY <1>8, <1>10, <1>11, <1>12
<1>14. EventId(DemandEvents(vehicles), a) = 1 + Cardinality(D)
  BY DEF EventId, D
<1>15. EventId(DemandEvents(vehicles), a) = 1 + 3 * Cardinality(before) + Cardinality(swaps)
  BY <1>8, <1>13, <1>14
<1> QED BY <1>15 DEF before, swaps


(* The detector of the backend, on a context that states charge, range and *)
(* what remains of the trip, decides as the scripts do.                    *)
LEMMA SumWhole ==
  ASSUME NEW x \in Int, NEW y \in Int, NEW z \in Int
  PROVE  Leq(Whole(x), Plus(Whole(y), Whole(z))) <=> x <= y + z
<1>1. Plus(Whole(y), Whole(z)) = Q(y + z, 1)
  <2>1. y * 1 + z * 1 = y + z /\ 1 * 1 = 1
    OBVIOUS
  <2> QED BY <2>1, WholeType DEF Plus
<1>2. PICK n \in Int, d \in Nat \ {0} : n = Q(y + z, 1).n /\ d = Q(y + z, 1).d /\ n * 1 = (y + z) * d
  <2>1. y + z \in Int /\ 1 \in Nat \ {0}
    OBVIOUS
  <2>2. Q(y + z, 1) \in Fraction /\ Q(y + z, 1).n * 1 = (y + z) * Q(y + z, 1).d
    BY <2>1, QValue
  <2> QED BY <2>2 DEF Fraction
<1>3. Leq(Whole(x), Plus(Whole(y), Whole(z))) <=> x * d <= n * 1
  BY <1>1, <1>2, WholeType DEF Leq
<1>4. x <= y + z => x * d <= (y + z) * d
  BY MulMono
<1>5. x * d <= (y + z) * d => x <= y + z
  BY MulCancel
<1> QED BY <1>2, <1>3, <1>4, <1>5

LEMMA PolicyIs ==
  ASSUME NEW remaining \in Nat
  PROVE  PolicyReserve(Whole(remaining)) = ReserveBuffer(remaining)
<1> DEFINE trip == Whole(remaining)
           share == Percent(15, trip)
<1>1. trip \in Fraction /\ trip # None /\ trip.n = remaining /\ trip.d = 1
  BY WholeType, CatalogAssumption
<1>2. Zero.n = 0 /\ Zero.d = 1
  BY WholeType DEF Zero
<1>3. Leq(trip, Zero) <=> remaining = 0
  <2> HIDE DEF trip
  <2> QED BY <1>1, <1>2 DEF Leq
<1>4. CASE remaining # 0
  BY <1>1, <1>3, <1>4 DEF PolicyReserve, ReserveBuffer
<1>5. CASE remaining = 0
  <2>1. 15 * 0 = 0
    OBVIOUS
  <2>2. share = Zero
    BY <1>1, <1>5, <2>1, QZero DEF Percent
  <2>3. Km \in Nat \ {0} /\ Whole(Km).n = Km /\ Whole(Km).d = 1
    BY PolicyAssumption, WholeType
  <2>4. ~Leq(Whole(Km), Zero)
    BY <1>2, <2>3 DEF Leq
  <2>5. ReserveBuffer(remaining) = Whole(Km)
    BY <2>2, <2>4 DEF ReserveBuffer, Greater
  <2>6. PolicyReserve(trip) = Whole(Km)
    BY <1>3, <1>5 DEF PolicyReserve
  <2> QED BY <2>5, <2>6
<1> QED BY <1>4, <1>5

LEMMA ChoiceIs ==
  ASSUME NEW c, c.swap \in BOOLEAN, NEW need \in BOOLEAN
  PROVE  AutoService(c, need) = Resolved(c, need)
<1>1. CASE c.swap
  <2>1. Allowed(c) = {"CHARGING"} \cup {"BATTERY_SWAP"} /\ {"CHARGING"} \cap {"BATTERY_SWAP"} = {}
    BY <1>1 DEF Allowed
  <2>2. /\ IsFiniteSet({"CHARGING"}) /\ Cardinality({"CHARGING"}) = 1
        /\ IsFiniteSet({"BATTERY_SWAP"}) /\ Cardinality({"BATTERY_SWAP"}) = 1
    BY FS_Singleton
  <2>3. Cardinality({"CHARGING"} \cup {"BATTERY_SWAP"}) = 1 + 1
    BY <2>1, <2>2, JoinedSize
  <2>4. Cardinality(Allowed(c)) # 1
    BY <2>1, <2>3
  <2> QED BY <1>1, <2>4 DEF AutoService, Resolved
<1>2. CASE ~c.swap
  <2>1. Allowed(c) = {"CHARGING"}
    BY <1>2 DEF Allowed
  <2>2. Cardinality(Allowed(c)) = 1
    BY <2>1, FS_Singleton
  <2> QED BY <1>2, <2>2 DEF AutoService, Resolved
<1> QED BY <1>1, <1>2

(* What a context says that is rebuilt from a trip.                        *)
Rebuilds(ctx, row, remaining, consumption) ==
  /\ ctx.soc = row.soc /\ ctx.range = row.range /\ ctx.trip = remaining
  /\ ctx.consumption = consumption /\ ctx.minSafe = MinimumSafe
  /\ ctx.energy = None /\ ctx.reserve = None /\ ctx.service = None

LEMMA DetectorAgrees ==
  ASSUME NEW ctx, NEW row, NEW remaining \in Nat, NEW consumption \in Nat \ {0},
         Rebuilds(ctx, row, remaining, consumption),
         row.soc \in 0..100, row.range \in Int, Catalog[ctx.vehicle.model].swap \in BOOLEAN
  PROVE  LET need == Need(row, remaining) # "SUFFICIENT_SOC_RANGE"
         IN  /\ EnergyRequest(ctx).need = need
             /\ EnergyRequest(ctx).resolved = Resolved(Catalog[ctx.vehicle.model], need)
<1> DEFINE capacity == UsableCapacity(ctx.vehicle)
           state == EvaluateNeed(ctx, capacity)
           low == row.soc <= MinimumSafe + 5
           short == Less(Whole(row.range), Plus(Whole(remaining), ReserveBuffer(remaining)))
           need == Need(row, remaining) # "SUFFICIENT_SOC_RANGE"
           c == Catalog[ctx.vehicle.model]
<1>1. None \notin Int /\ None \notin Fraction
  BY CatalogAssumption
<1>2. ctx.soc # None /\ ctx.trip # None /\ ctx.range # None /\ ctx.minSafe # None
  <2>1. row.soc \in Int /\ remaining \in Int /\ MinimumSafe \in Int
    BY LimitsAssumption
  <2> QED BY <1>1, <2>1 DEF Rebuilds
<1>3. ~InvalidState(ctx, capacity)
  BY DEF Rebuilds, InvalidState
<1>4. state = Assessment(Remaining(ctx), Reserve(ctx), EnergyLeft(ctx, capacity),
                         RangeLeft(ctx, capacity), BelowSafe(ctx, capacity))
  BY <1>2, <1>3 DEF EvaluateNeed
<1>5. Remaining(ctx) = Whole(remaining) /\ Whole(remaining) # None
  BY <1>1, <1>2, WholeType DEF Remaining, Rebuilds
<1>6. Reserve(ctx) = ReserveBuffer(remaining)
  BY <1>5, PolicyIs DEF Reserve, Given, Rebuilds
<1>7. RangeLeft(ctx, capacity) = Whole(row.range)
  BY <1>2 DEF RangeLeft, Given, Rebuilds
<1>8. BelowSafe(ctx, capacity) <=> low
  <2>1. BelowSafe(ctx, capacity) <=> Leq(Whole(row.soc), Plus(Whole(MinimumSafe), Whole(5)))
    BY <1>2 DEF BelowSafe, Given, Rebuilds
  <2>2. row.soc \in Int /\ MinimumSafe \in Int /\ 5 \in Int
    BY LimitsAssumption
  <2> QED BY <2>1, <2>2, SumWhole
<1>9. InsufficientRange(RangeLeft(ctx, capacity), Remaining(ctx), Reserve(ctx)) <=> short
  BY <1>5, <1>6, <1>7 DEF InsufficientRange
<1>10. need <=> low \/ short
  <2> DEFINE why == Need(row, remaining)
  <2>1. why = IF low /\ short THEN "LOW_SOC_AND_INSUFFICIENT_RANGE"
              ELSE IF low THEN "LOW_SOC" ELSE IF short THEN "INSUFFICIENT_RANGE"
              ELSE "SUFFICIENT_SOC_RANGE"
    BY DEF Need
  <2> HIDE DEF low, short, why
  <2>2. why # "SUFFICIENT_SOC_RANGE" <=> low \/ short
    BY <2>1
  <2> QED BY <2>2 DEF why
<1> HIDE DEF low, short, need, state, capacity
<1>11. state.need <=> need
  <2> DEFINE trip == Remaining(ctx)
             reserve == Reserve(ctx)
             energy == EnergyLeft(ctx, capacity)
             range == RangeLeft(ctx, capacity)
             below == BelowSafe(ctx, capacity)
  <2> HIDE DEF trip, reserve, energy, range, below
  <2>1. Assessment(trip, reserve, energy, range, below).need
          = (below \/ InsufficientRange(range, trip, reserve))
    BY DEF Assessment
  <2> QED BY <1>4, <1>8, <1>9, <1>10, <2>1 DEF trip, reserve, energy, range, below
<1>12. state.need \in BOOLEAN /\ need \in BOOLEAN
  <2> DEFINE below == BelowSafe(ctx, capacity)
             behind == InsufficientRange(RangeLeft(ctx, capacity), Remaining(ctx), Reserve(ctx))
  <2>1. state.need = (below \/ behind)
    BY <1>4 DEF Assessment
  <2> HIDE DEF below, behind
  <2> QED BY <2>1 DEF need
<1>13. state.need = need
  BY <1>11, <1>12
<1>14. EnergyRequest(ctx) = Requested(ctx, capacity, state)
  BY DEF EnergyRequest, state, capacity
<1>15. /\ Requested(ctx, capacity, state).need = state.need
       /\ Requested(ctx, capacity, state).resolved = AutoService(c, state.need)
  BY DEF Requested, Rebuilds
<1>16. AutoService(c, need) = Resolved(c, need)
  BY <1>12, ChoiceIs
<1> QED BY <1>13, <1>14, <1>15, <1>16 DEF need


(* The runtime counts whole minutes, and judges a row in the order 07 does.*)
LEMMA CeilingOver ==
  ASSUME NEW a \in Fraction, NEW m \in Int
  PROVE  Ceiling(a) \in Int /\ (Ceiling(a) > m <=> Less(Whole(m), a))
<1>1. PICK n \in Int, d \in Nat \ {0} : n = a.n /\ d = a.d
  BY DEF Fraction
<1>2. PICK q \in Int, r \in 0..d - 1 : q = (-n) \div d /\ -n = d * q + r
  <2>1. -n \in Int /\ (-n) \div d \in Int /\ -n = d * ((-n) \div d) + ((-n) % d) /\ (-n) % d \in 0..d - 1
    OBVIOUS
  <2> QED BY <2>1
<1>3. Ceiling(a) = -q
  BY <1>1, <1>2 DEF Ceiling
<1>4. Less(Whole(m), a) <=> ~(n <= m * d)
  <2>1. n * 1 = n
    OBVIOUS
  <2> QED BY <1>1, <2>1, WholeType DEF Less, Leq
<1>5. -q <= m => n <= m * d
  <2>1. n = (-q) * d - r
    BY <1>2
  <2>2. -q <= m => (-q) * d <= m * d
    BY MulMono
  <2>3. (-q) * d \in Int /\ m * d \in Int /\ r >= 0
    BY <1>2
  <2> QED BY <2>1, <2>2, <2>3
<1>6. n <= m * d => -q <= m
  <2> SUFFICES ASSUME n <= m * d, m + 1 <= -q PROVE FALSE
    OBVIOUS
  <2>1. (m + 1) * d <= (-q) * d
    BY MulMono
  <2>2. n = (-q) * d - r /\ (m + 1) * d = m * d + d
    BY <1>2
  <2>3. (-q) * d \in Int /\ m * d \in Int /\ r <= d - 1
    BY <1>2
  <2> QED BY <2>1, <2>2, <2>3
<1> QED BY <1>3, <1>4, <1>5, <1>6

LEMMA CompatibleAlike ==
  ASSUME NEW x, Assigned[x] \in Vehicle, NEW s \in Stations, NEW v, NEW normalized, normalized
  PROVE  Compatible(Assigned[x], [station |-> s, service |-> v]) <=> ServiceCompatible(x, s, v, normalized)
<1> DEFINE model == Assigned[x].model
           c == [station |-> s, service |-> v]
<1>1. c.station = s /\ c.service = v
  OBVIOUS
<1>2. Allowed(Catalog[model]) = AllowedServices(Patched(x))
  BY DEF Allowed, AllowedServices, Patched
<1>3. Family[model] \in Site[s].families => Family[model] # None
  BY LimitsAssumption
<1> HIDE DEF c
<1>4. Compatible(Assigned[x], c) <=>
        /\ v \in Allowed(Catalog[model]) /\ Slots(s)[v] > 0
        /\ Catalog[model].category \in Site[s].vehicles
        /\ Interface[model] \in Site[s].connectors
        /\ v = "BATTERY_SWAP" => Family[model] \in Site[s].families
  BY <1>1 DEF Compatible, Slots
<1>5. ServiceCompatible(x, s, v, normalized) <=>
        /\ v \in AllowedServices(Patched(x)) /\ Slots(s)[v] > 0
        /\ Catalog[model].category \in Site[s].vehicles
        /\ Interface[model] \in Site[s].connectors
        /\ v = "BATTERY_SWAP" => Family[model] # None /\ Family[model] \in Site[s].families
  BY DEF ServiceCompatible
<1> QED BY <1>2, <1>3, <1>4, <1>5 DEF c

RuntimeRow(r, q, v) ==
  [status |-> r.status, slots |-> r.free, batteries |-> r.batteries,
   wait |-> [x \in Services |-> Ceiling(q.wait[v])], serviceTime |-> ServiceTime[v]]

LEMMA OperationalAlike ==
  ASSUME NEW s \in Stations, NEW r, NEW q, Fits(s, r, q), Roomy(s, r), NEW v \in Services
  PROVE  LET o == Seen(r, q, v)
             op == Operational(RuntimeRow(r, q, v), v)
         IN  /\ op.status = o.status /\ op.slots = o.slots /\ op.batteries = o.batteries
             /\ op.capacity = o.capacity /\ op.wait = Ceiling(o.wait)
             /\ o.slots \in Nat /\ o.batteries \in Nat /\ o.capacity \in Nat /\ o.wait \in Fraction
<1> DEFINE o == Seen(r, q, v)
           row == RuntimeRow(r, q, v)
           op == Operational(row, v)
<1>1. /\ r.free[v] \in Nat /\ r.batteries \in Nat
  BY DEF Fits, Roomy
<1>2. o.wait \in Fraction
  BY SeenType
<1>3. /\ row.status = r.status /\ row.slots = r.free /\ row.batteries = r.batteries
      /\ row.wait[v] = Ceiling(q.wait[v])
  BY DEF RuntimeRow
<1> HIDE DEF row
<1>4. /\ op.status = r.status /\ op.slots = r.free[v]
      /\ op.batteries = IF v = "BATTERY_SWAP" THEN r.batteries ELSE 0
      /\ op.capacity = IF v = "BATTERY_SWAP" /\ r.batteries < r.free[v] THEN r.batteries ELSE r.free[v]
      /\ op.wait = Ceiling(q.wait[v])
  BY <1>3 DEF Operational
<1>5. /\ o.status = r.status /\ o.slots = r.free[v]
      /\ o.batteries = IF v = "BATTERY_SWAP" THEN r.batteries ELSE 0
      /\ o.capacity = IF v = "BATTERY_SWAP" THEN Least2(r.free[v], r.batteries) ELSE r.free[v]
      /\ o.wait = q.wait[v]
  BY DEF Seen
<1> HIDE DEF o, op
<1>6. op.capacity = o.capacity /\ o.capacity \in Nat /\ o.batteries \in Nat
  BY <1>1, <1>4, <1>5 DEF Least2
<1> QED BY <1>1, <1>2, <1>4, <1>5, <1>6 DEF o, op, row

LEMMA JudgedAlike ==
  ASSUME NEW leg, NEW a, NEW b, a <=> b, NEW v, NEW range, NEW op, NEW o,
         op.status = o.status, op.slots = o.slots, op.batteries = o.batteries,
         op.capacity = o.capacity, op.wait = Ceiling(o.wait),
         o.slots \in Nat, o.batteries \in Nat, o.capacity \in Nat, o.wait \in Fraction
  PROVE  Eligibility(leg # None, a, op, v, SocFeasible(leg, range)) = Reason("07", leg, b, o, v, range)
<1> DEFINE near == SocFeasible(leg, range)
           late == Less(Whole(MaxWait), o.wait)
           said == Reason("07", leg, b, o, v, range)
           rest == IF o.status # "OPEN" THEN "OFFLINE"
                   ELSE IF v = "BATTERY_SWAP" /\ o.slots > 0 /\ o.batteries <= 0 THEN "NO_SWAP_BATTERY"
                   ELSE IF o.capacity <= 0 THEN "FULL"
                   ELSE IF late THEN "EXCESSIVE_QUEUE"
                   ELSE IF ~near THEN "INSUFFICIENT_SOC_TO_REACH"
                   ELSE "ELIGIBLE"
<1>1. None \notin Int /\ None \notin Fraction /\ MaxWait \in Int
  BY CatalogAssumption, LimitsAssumption
<1>2. /\ op.wait # None /\ o.wait # None /\ (op.wait > MaxWait <=> late)
  BY <1>1, CeilingOver
<1>3. leg = None => said = "UNREACHABLE"
  BY DEF Reason
<1>4. leg # None /\ ~b => said = "INCOMPATIBLE"
  BY DEF Reason
<1>5. leg # None /\ b => said = rest
  <2> SUFFICES ASSUME leg # None, b PROVE said = rest
    OBVIOUS
  <2>1. said = IF o.status # "OPEN" THEN "OFFLINE"
               ELSE IF v = "BATTERY_SWAP" /\ o.slots > 0 /\ o.batteries <= 0 THEN "NO_SWAP_BATTERY"
               ELSE IF o.capacity <= 0 THEN "FULL"
               ELSE IF o.wait = None \/ Less(Whole(MaxWait), o.wait) THEN "EXCESSIVE_QUEUE"
               ELSE IF ~SocFeasible(leg, range) THEN "INSUFFICIENT_SOC_TO_REACH"
               ELSE "ELIGIBLE"
    BY DEF Reason
  <2> HIDE DEF said, near, late
  <2> QED BY <1>2, <2>1 DEF near, late
<1> DEFINE swap == v = "BATTERY_SWAP"
           runtime == Eligibility(leg # None, a, op, v, near)
<1>6. runtime = IF leg = None THEN "UNREACHABLE"
                ELSE IF ~a THEN "INCOMPATIBLE"
                ELSE IF op.status # "OPEN" THEN "OFFLINE"
                ELSE IF swap /\ op.slots > 0 /\ op.batteries = 0 THEN "NO_SWAP_BATTERY"
                ELSE IF op.capacity = 0 THEN "FULL"
                ELSE IF op.wait # None /\ op.wait > MaxWait THEN "EXCESSIVE_QUEUE"
                ELSE IF ~near THEN "INSUFFICIENT_SOC_TO_REACH"
                ELSE "ELIGIBLE"
  <2> HIDE DEF near
  <2> QED BY DEF Eligibility
<1>7. (op.batteries = 0 <=> o.batteries <= 0) /\ (op.capacity = 0 <=> o.capacity <= 0)
  OBVIOUS
<1> HIDE DEF near, late, said, runtime
<1>8. leg # None /\ a => runtime = rest
  BY <1>2, <1>6, <1>7
<1> HIDE DEF rest
<1>9. runtime = said
  BY <1>3, <1>4, <1>5, <1>6, <1>8
<1> QED BY <1>9 DEF runtime, said, near


(* Charge and range of a snapshot, and what the vehicle consumes.          *)
LEMMA ProductType ==
  ASSUME NEW a \in Fraction, NEW b \in Fraction
  PROVE  Times(a, b) \in Fraction /\ (b.n > 0 => Over(a, b) \in Fraction)
<1>1. a.n \in Int /\ b.n \in Int /\ a.d \in Nat \ {0} /\ b.d \in Nat \ {0}
  BY DEF Fraction
<1>2. a.n * b.n \in Int /\ a.d * b.d \in Nat \ {0} /\ a.n * b.d \in Int
  BY <1>1
<1>3. b.n > 0 => a.d * b.n \in Nat \ {0}
  BY <1>1
<1> QED BY <1>2, <1>3, QValue DEF Times, Over

LEMMA RangeType ==
  ASSUME NEW t \in Trips, NEW i \in Snapshots(t), NEW initial \in 0..100
  PROVE  Discharged(t, i, OldVehicles, initial).range \in Int
<1> DEFINE v == OldVehicles[Trip[t].vehicle]
           share == IF Trip[t].scenario = "HEAVY_TRAFFIC" THEN HeavyPct ELSE 100
           way == Trip[t].snapshots[i].travelled
           driven == Percent(share, Q(way * v.consumption, Km))
           used == Over(Times(Whole(100), driven), v.capacity)
           soc == Greater(Zero, Minus(Whole(initial), used))
           range == Over(Times(Percent(1, Times(soc, v.capacity)), Whole(Km)), Whole(v.consumption))
<1>1. Discharged(t, i, OldVehicles, initial).range = Nearest(range)
  BY DEF Discharged
<1>3. v.capacity \in Fraction /\ v.capacity.n > 0
  BY FleetAssumption
<1>5. v.consumption \in Nat \ {0}
  BY FleetAssumption
<1>6. /\ share \in Int /\ initial \in Int /\ way \in Int /\ Km \in Nat \ {0}
  <2>1. HeavyPct \in Nat /\ Km \in Nat \ {0} /\ initial \in 0..100
    BY RankingAssumption, PolicyAssumption
  <2>2. Trip[t].snapshots \in Seq(Moment)
    BY TripsAssumption
  <2>3. Trip[t].snapshots[i] \in Moment
    BY <2>2 DEF Snapshots
  <2>4. way \in Nat
    BY <2>3 DEF Moment
  <2> QED BY <2>1, <2>4
<1> HIDE DEF v, share, way
<1>7. driven \in Fraction
  <2>1. way * v.consumption \in Int
    BY <1>5, <1>6
  <2>2. Q(way * v.consumption, Km) \in Fraction
    BY <1>6, <2>1, QValue
  <2> QED BY <1>6, <2>2, PercentType
<1> HIDE DEF driven
<1>8. used \in Fraction
  <2>1. Whole(100) \in Fraction
    BY WholeType
  <2>2. Times(Whole(100), driven) \in Fraction
    BY <1>7, <2>1, ProductType
  <2> QED BY <1>3, <2>2, ProductType
<1> HIDE DEF used
<1>9. soc \in Fraction
  <2>1. Zero \in Fraction /\ Whole(initial) \in Fraction
    BY <1>6, WholeType DEF Zero
  <2>2. Minus(Whole(initial), used) \in Fraction
    BY <1>8, <2>1, SumType
  <2> QED BY <2>1, <2>2 DEF Greater
<1> HIDE DEF soc
<1>10. range \in Fraction
  <2>1. Times(soc, v.capacity) \in Fraction
    BY <1>3, <1>9, ProductType
  <2>2. Percent(1, Times(soc, v.capacity)) \in Fraction
    BY <2>1, PercentType
  <2>3. Whole(Km) \in Fraction /\ Whole(v.consumption) \in Fraction /\ Whole(v.consumption).n > 0
    BY <1>5, <1>6, WholeType
  <2>4. Times(Percent(1, Times(soc, v.capacity)), Whole(Km)) \in Fraction
    BY <2>2, <2>3, ProductType
  <2> QED BY <2>3, <2>4, ProductType
<1> HIDE DEF range
<1>11. Nearest(range) \in Int
  BY <1>10, NearestBounds
<1> QED BY <1>1, <1>11

LEMMA BatteryType ==
  ASSUME NEW a \in AutoEvents
  PROVE  Drawn[<<a[1], a[2]>>].soc \in 0..100 /\ Drawn[<<a[1], a[2]>>].range \in Int
<1> DEFINE k == <<a[1], a[2]>>
           initial == StagedSoc[Trip[k[1]].scenario]
<1>1. k \in DOMAIN OldBattery /\ OldBattery[k].range \in Int
  BY FleetAssumption
<1>2. DOMAIN Drawn = DOMAIN OldBattery
  BY DEF Drawn, Battery04
<1> HIDE DEF k
<1>3. Drawn[k].soc \in 0..100
  BY <1>1, <1>2, BatteryPasses DEF BatteryChecks
<1>4. CASE IsStaged(k[1])
  <2>1. /\ k[1] \in Trips /\ k[2] \in Snapshots(k[1]) /\ initial \in 0..100
        /\ Drawn[k] = Discharged(k[1], k[2], OldVehicles, initial)
    BY <1>1, <1>4, DrawnIs
  <2> HIDE DEF initial
  <2>2. Drawn[k].range \in Int
    BY <2>1, RangeType
  <2> QED BY <1>3, <2>2 DEF k
<1>5. CASE ~IsStaged(k[1])
  <2>1. Drawn[k] = OldBattery[k]
    BY <1>1, <1>5, DrawnIs
  <2> QED BY <1>1, <1>3, <2>1 DEF k
<1> QED BY <1>4, <1>5

LEMMA DriverType ==
  ASSUME NEW t \in Trips, NEW vehicles, DriverOf(vehicles, t)
  PROVE  LET v == vehicles[Trip[t].vehicle]
         IN  /\ v.consumption \in Nat \ {0} /\ v.swap \in BOOLEAN
             /\ v.swap = Catalog[Assigned[Trip[t].vehicle].model].swap
<1> DEFINE v == vehicles[Trip[t].vehicle]
           c == Catalog[Assigned[Trip[t].vehicle].model]
<1>1. v.swap \in BOOLEAN
  BY PatchedIs DEF DriverOf
<1>2. v.swap = c.swap /\ v.consumption = c.consumption
  BY DEF DriverOf, Patched
<1>3. v.consumption \in Nat \ {0}
  <2>1. Assigned[Trip[t].vehicle].model \in Models
    BY TripsAssumption DEF Vehicle
  <2>2. c \in Capability
    BY <2>1, CatalogAssumption
  <2>3. c.consumption \in Nat \ {0}
    BY <2>2 DEF Capability
  <2> QED BY <1>2, <2>3
<1> QED BY <1>1, <1>2, <1>3


(* Every snapshot has its rows, whatever was done to them.                 *)
LEMMA RowsAtTheEnd ==
  ASSUME NEW w \in Worlds
  PROVE  DOMAIN Left(w, 7).status.rows = DOMAIN w.rows
<1> DEFINE old == LeftBy05(w)
           e == Chosen(old.ranking)
           needed == Needed(Lead(old.ranking, e))
           before == LeftBy04b(w)
           split == Split05(w, before)
<1>1. LeftBy05b(w).status = old.status
  <2>1. CASE needed = Zero
    <3>1. Files(old)
      BY LeftAre, LeftFiles
    <3>2. Alike(old, old)
      BY <3>1 DEF Alike
    <3>3. Partly(old, old, Output05b(old), 0)
      BY <3>2, PartlyNone
    <3> QED BY <2>1, <3>3, Untied05b
  <2>2. CASE needed # Zero
    BY <2>2, TiedBy05b
  <2> QED BY <2>1, <2>2
<1>2. old.status.rows = old.events.status /\ old.events = Served(split, Servings(before))
  <2>1. /\ old.events = Served(split, Servings(before))
        /\ old.status = [split |-> TRUE, rows |-> old.events.status]
    BY LeftBy05Is
  <2> HIDE DEF old, split, before
  <2> QED BY <2>1
<1>3. TablesShaped(split) /\ DOMAIN split.status = DOMAIN before.status.rows
  BY SplitTablesShaped
<1>4. Len(Servings(before)) \in Nat
  <2>1. SeparableBy(split.status, Servings(before))
    BY WorldsAssumption DEF Separable, Split05, SplitTables, Servings
  <2>2. Servings(before) \in Seq(ServingRow)
    BY <2>1 DEF SeparableBy
  <2> HIDE DEF split, before
  <2> QED BY <2>2
<1>5. DOMAIN before.status.rows = DOMAIN w.rows
  BY RowsBy04b
<1> HIDE DEF old, split, before
<1>6. DOMAIN Served(split, Servings(before)).status = DOMAIN split.status
  BY <1>3, <1>4, ServedShape
<1>7. DOMAIN LeftBy05b(w).status.rows = DOMAIN w.rows
  BY <1>1, <1>2, <1>3, <1>5, <1>6
<1>8. \A n \in {5, 6, 7} : Left(w, n).status = Left(w, n - 1).status
  BY TablesStay
<1>9. 5 - 1 = 4 /\ 6 - 1 = 5 /\ 7 - 1 = 6
  OBVIOUS
<1>10. /\ Left(w, 5).status = Left(w, 4).status /\ Left(w, 6).status = Left(w, 5).status
       /\ Left(w, 7).status = Left(w, 6).status
  BY <1>8, <1>9
<1> QED BY <1>7, <1>10, LeftAre


(* What the last script leaves, as the two replays read it.                *)
PublishedBy(t, normalized, status, queue) ==
  /\ FitTables(t) /\ normalized
  /\ disk.status.rows = t.status /\ disk.queue.rows = t.queue
  /\ \A s \in Stations : \A a \in AutoEvents : <<s, SnapshotOf(a).time>> \in DOMAIN t.status
  /\ disk.candidates = CandidateTable07(disk.demand, normalized, status, queue)
  /\ \A s, time : \A v \in Services : Observed(status, queue, s, time, v) = Observed(t.status, t.queue, s, time, v)

LEMMA Published ==
  ASSUME Retraced, Finished
  PROVE  /\ disk.demand = DemandTable07(disk.vehicles, disk.battery)
         /\ \A t \in Trips : DriverOf(disk.vehicles, t)
         /\ disk.battery = Drawn
         /\ \E t, normalized, status, queue : PublishedBy(t, normalized, status, queue)
<1> DEFINE old == Left(world, 6)
           new == Left(world, 7)
           demand == DemandTable07(old.vehicles, old.battery)
           tables == RebuiltTables(old)
           candidates == CandidateTable07(demand, old.normalized, tables.status, tables.queue)
<1>1. world \in Worlds /\ Alike(disk, Left(world, 7))
  BY LeftAre DEF Retraced, Finished
<1>2. /\ disk.demand = new.demand /\ disk.vehicles = new.vehicles /\ disk.battery = new.battery
      /\ disk.status = new.status /\ disk.queue = new.queue /\ disk.candidates = new.candidates
  <2> HIDE DEF new
  <2> QED BY <1>1 DEF Alike, Names, new
<1>3. /\ new.battery = old.battery /\ new.vehicles = old.vehicles /\ new.demand = demand
      /\ new.candidates = candidates
  BY <1>1, LeftBy07Is
<1>4. /\ old.normalized
      /\ \A t \in Trips : DriverOf(old.vehicles, t)
      /\ old.battery = Drawn
  BY <1>1, LeftBy06Is
<1>5. PICK t : /\ FitTables(t)
               /\ \A n \in {6, 7} : Left(world, n).status.rows = t.status /\ Left(world, n).queue.rows = t.queue
  BY <1>1, TablesAtTheEnd
<1>6. /\ old.status.rows = t.status /\ old.queue.rows = t.queue
      /\ new.status.rows = t.status /\ new.queue.rows = t.queue
  BY <1>5
<1>7. \A s \in Stations : \A a \in AutoEvents : <<s, SnapshotOf(a).time>> \in DOMAIN t.status
  <2>1. DOMAIN new.status.rows = DOMAIN world.rows
    BY <1>1, RowsAtTheEnd
  <2>2. Covered(world)
    BY <1>1, WorldsAssumption
  <2> HIDE DEF new
  <2> QED BY <1>6, <2>1, <2>2 DEF Covered
<1>8. \A s, time : \A v \in Services :
        Observed(tables.status, tables.queue, s, time, v) = Observed(t.status, t.queue, s, time, v)
  <2> HIDE DEF old
  <2> QED BY <1>5, <1>6, ObservedAgain
<1> DEFINE status == tables.status
           queue == tables.queue
           normalized == old.normalized
<1>9. \A s, time : \A v \in Services : Observed(status, queue, s, time, v) = Observed(t.status, t.queue, s, time, v)
  BY <1>8
<1>10. disk.demand = DemandTable07(disk.vehicles, disk.battery)
  BY <1>2, <1>3
<1>11. disk.candidates = CandidateTable07(disk.demand, normalized, status, queue)
  BY <1>2, <1>3
<1>12. /\ \A x \in Trips : DriverOf(disk.vehicles, x)
       /\ disk.battery = Drawn
  BY <1>2, <1>3, <1>4
<1>13. disk.status.rows = t.status /\ disk.queue.rows = t.queue /\ normalized
  BY <1>2, <1>4, <1>6
<1> HIDE DEF status, queue, normalized, new, demand, candidates, tables
<1>14. PublishedBy(t, normalized, status, queue)
  BY <1>5, <1>7, <1>9, <1>11, <1>13 DEF PublishedBy
<1> QED BY <1>10, <1>12, <1>14

(* evaluate_week4.py.                                                      *)
LEMMA ContextsAgree ==
  ASSUME Retraced, Finished, NEW a \in AutoEvents
  PROVE  /\ EventId(DOMAIN disk.demand, a) = Scheduled(a)
         /\ EnergyRequest(Reconstructed(a)).need = disk.demand[a].need
         /\ EnergyRequest(Reconstructed(a)).resolved = disk.demand[a].resolved
<1> DEFINE t == a[1]
           i == a[2]
           v == disk.vehicles[Trip[t].vehicle]
           row == disk.battery[<<t, i>>]
           remaining == RemainingKm(t, i)
           ctx == Reconstructed(a)
           c == Catalog[Assigned[Trip[t].vehicle].model]
           why == Need(row, remaining)
           D == DemandTable07(disk.vehicles, disk.battery)
<1>1. /\ disk.demand = D /\ DOMAIN D = DemandEvents(disk.vehicles)
      /\ \A x \in Trips : DriverOf(disk.vehicles, x)
      /\ disk.battery = Drawn
  BY Published DEF DemandTable07
<1>2. t \in Trips /\ i \in Snapshots(t) /\ SnapshotOf(a) \in Moment /\ a[3] = "AUTO"
  BY AutoEventIs DEF OfSnapshot
<1>3. EventId(DemandEvents(disk.vehicles), a) = Scheduled(a)
  BY Numbered DEF Scheduled
<1>4. /\ row.soc \in 0..100 /\ row.range \in Int /\ v.consumption \in Nat \ {0}
      /\ v.swap \in BOOLEAN /\ v.swap = c.swap
  <2>1. row = Drawn[<<a[1], a[2]>>] /\ DriverOf(disk.vehicles, t)
    BY <1>1, <1>2
  <2>2. row.soc \in 0..100 /\ row.range \in Int
    BY <2>1, BatteryType
  <2> HIDE DEF t, i, row
  <2> QED BY <1>2, <2>1, <2>2, DriverType
<1>5. remaining \in Nat
  <2>1. SnapshotOf(a).travelled \in Nat /\ Trip[t].planned \in Nat
    BY <1>2, TripsAssumption DEF Moment
  <2>2. Trip[t].snapshots[i].travelled \in Nat
    BY <2>1 DEF SnapshotOf
  <2> QED BY <2>1, <2>2 DEF RemainingKm, Most2
<1>6. /\ ctx.vehicle = Assigned[Trip[t].vehicle]
      /\ Rebuilds(ctx, row, remaining, v.consumption)
  BY DEF Reconstructed, Rebuilds
<1>7. /\ D[a].need = (why # "SUFFICIENT_SOC_RANGE")
      /\ DetectedAs(D[a], v, row.range)
  <2>1. a \in DemandEvents(disk.vehicles)
    BY DemandEventsAre
  <2>2. Detected(a, disk.battery) = why
    BY DEF Detected
  <2> QED BY <1>2, <2>1, <2>2, DetectedNeed, DetectedRow
<1> HIDE DEF ctx, row, remaining, v, D, t, i
<1>8. Catalog[ctx.vehicle.model].swap \in BOOLEAN
  BY <1>4, <1>6
<1>9. /\ EnergyRequest(ctx).need = (why # "SUFFICIENT_SOC_RANGE")
      /\ EnergyRequest(ctx).resolved = Resolved(c, why # "SUFFICIENT_SOC_RANGE")
  BY <1>4, <1>5, <1>6, <1>8, DetectorAgrees
<1>10. D[a].resolved = Resolved(v, why # "SUFFICIENT_SOC_RANGE")
  BY <1>7 DEF DetectedAs
<1>11. Resolved(v, why # "SUFFICIENT_SOC_RANGE") = Resolved(c, why # "SUFFICIENT_SOC_RANGE")
  <2> DEFINE need == why # "SUFFICIENT_SOC_RANGE"
  <2> HIDE DEF need, c
  <2>1. Resolved(v, need) = Resolved(c, need)
    BY <1>4 DEF Resolved
  <2> QED BY <2>1 DEF need, c
<1>12. /\ EnergyRequest(ctx).need = D[a].need /\ EnergyRequest(ctx).resolved = D[a].resolved
  BY <1>7, <1>9, <1>10, <1>11
<1> QED BY <1>1, <1>3, <1>12 DEF ctx

(* evaluate_candidate_search.py.                                           *)
LEMMA ReasonOf07 ==
  ASSUME NEW demand, NEW normalized, NEW status, NEW queue,
         NEW k \in DOMAIN CandidateTable07(demand, normalized, status, queue)
  PROVE  LET leg == SnapshotOf(k[1]).network[<<"origin", k[2]>>]
             row == CandidateTable07(demand, normalized, status, queue)[k]
         IN  /\ row.leg = leg
             /\ row.reason = Reason("07", leg, ServiceCompatible(Trip[k[1][1]].vehicle, k[2], k[3], normalized),
                                    Observed(status, queue, k[2], SnapshotOf(k[1]).time, k[3]),
                                    k[3], demand[k[1]].range)
<1> DEFINE keys == {x \in Needing(demand) \X Stations \X Services : x[3] \in Services07(demand[x[1]])}
           c == CandidateTable07(demand, normalized, status, queue)
           fits == ServiceCompatible(Trip[k[1][1]].vehicle, k[2], k[3], normalized)
           range == demand[k[1]].range
           o == Observed(status, queue, k[2], SnapshotOf(k[1]).time, k[3])
           leg == SnapshotOf(k[1]).network[<<"origin", k[2]>>]
<1>1. c = Rows("07", keys, demand, normalized, status, queue)
  BY DEF CandidateTable07, Services07
<1> HIDE DEF keys, c
<1>2. DOMAIN c = keys
  BY <1>1 DEF Rows
<1>3. k \in keys
  BY <1>2 DEF c
<1>4. c[k] = CandidateRow("07", k[1], k[2], k[3], fits, range, status, queue)
  BY <1>1, <1>3 DEF Rows
<1> HIDE DEF fits, range
<1>5. c[k] = [reason |-> Reason("07", leg, fits, o, k[3], range), leg |-> leg, state |-> o]
  BY <1>4 DEF CandidateRow
<1> HIDE DEF o, leg
<1>6. c[k].leg = leg /\ c[k].reason = Reason("07", leg, fits, o, k[3], range)
  BY <1>5
<1> QED BY <1>6 DEF c, leg, fits, o, range

LEMMA CandidatesAgree ==
  ASSUME Retraced, Finished, NEW k \in DOMAIN disk.candidates
  PROVE  Replayed(k) = disk.candidates[k].reason
<1> DEFINE e == k[1]
           s == k[2]
           v == k[3]
           key == <<s, SnapshotOf(e).time>>
           x == Trip[e[1]].vehicle
           leg == SnapshotOf(e).network[<<"origin", s>>]
           range == disk.demand[e].range
<1>1. PICK t, normalized, status, queue : PublishedBy(t, normalized, status, queue)
  BY Published
<1>2. disk.demand = DemandTable07(disk.vehicles, disk.battery)
  BY Published
<1>3. disk.candidates = CandidateTable07(disk.demand, normalized, status, queue)
  BY <1>1 DEF PublishedBy
<1>4. k \in Needing(disk.demand) \X Stations \X Services
  <2> DEFINE c == disk.candidates
             D == disk.demand
  <2>1. DOMAIN c = {y \in Needing(D) \X Stations \X Services : y[3] \in Services07(D[y[1]])}
    <3> HIDE DEF D
    <3>1. c = CandidateTable07(D, normalized, status, queue)
      BY <1>3 DEF D
    <3> HIDE DEF c
    <3> QED BY <3>1, CandidatesOf07
  <2>2. k \in DOMAIN c
    OBVIOUS
  <2> HIDE DEF c, D, e, s, v
  <2>3. k \in Needing(D) \X Stations \X Services
    BY <2>1, <2>2
  <2> QED BY <2>3 DEF D
<1>5. e \in AutoEvents /\ s \in Stations /\ v \in Services
  BY <1>2, <1>4, NeedingIs
<1> DEFINE r == t.status[key]
           q == t.queue[key]
           o == Seen(r, q, v)
           op == Operational(RuntimeRow(r, q, v), v)
           fits == ServiceCompatible(x, s, v, normalized)
           same == Compatible(Assigned[x], [station |-> s, service |-> v])
<1>6. key \in DOMAIN t.status /\ Observed(status, queue, s, SnapshotOf(e).time, v) = o
  <2>1. key \in DOMAIN t.status
    BY <1>1, <1>5 DEF PublishedBy
  <2>2. Observed(status, queue, s, SnapshotOf(e).time, v) = Observed(t.status, t.queue, s, SnapshotOf(e).time, v)
    BY <1>1, <1>5 DEF PublishedBy
  <2> QED BY <2>1, <2>2, ObservedSeen
<1>7. Fits(s, r, q) /\ Roomy(s, r)
  <2>1. key[1] = s
    OBVIOUS
  <2> HIDE DEF key
  <2> QED BY <1>1, <1>6, <2>1 DEF PublishedBy, FitTables
<1>8. /\ disk.candidates[k].leg = leg
      /\ disk.candidates[k].reason = Reason("07", leg, fits, o, v, range)
  BY <1>3, <1>6, ReasonOf07
<1>9. Replayed(k) = Eligibility(leg # None, same, op, v, SocFeasible(leg, range))
  <2>1. /\ disk.status.rows[s, SnapshotOf(e).time] = r /\ disk.queue.rows[s, SnapshotOf(e).time] = q
    BY <1>1 DEF PublishedBy
  <2> HIDE DEF r, q
  <2>2. RuntimeRow(r, q, v)
          = [status |-> r.status, slots |-> r.free, batteries |-> r.batteries,
             wait |-> [y \in Services |-> Ceiling(q.wait[v])], serviceTime |-> ServiceTime[v]]
    BY DEF RuntimeRow
  <2> QED BY <1>8, <2>1, <2>2 DEF Replayed
<1>10. same <=> fits
  <2>1. Assigned[x] \in Vehicle
    <3>1. e[1] \in Trips
      BY <1>5, AutoEventIs
    <3> QED BY <3>1, TripsAssumption
  <2>2. normalized
    BY <1>1 DEF PublishedBy
  <2> HIDE DEF x, s, v
  <2> QED BY <1>5, <2>1, <2>2, CompatibleAlike
<1>11. /\ op.status = o.status /\ op.slots = o.slots /\ op.batteries = o.batteries
       /\ op.capacity = o.capacity /\ op.wait = Ceiling(o.wait)
       /\ o.slots \in Nat /\ o.batteries \in Nat /\ o.capacity \in Nat /\ o.wait \in Fraction
  <2> HIDE DEF r, q, s, v
  <2> QED BY <1>5, <1>7, OperationalAlike
<1> HIDE DEF op, o, same, fits, leg, range, v
<1>12. Eligibility(leg # None, same, op, v, SocFeasible(leg, range)) = Reason("07", leg, fits, o, v, range)
  BY <1>10, <1>11, JudgedAlike
<1> QED BY <1>8, <1>9, <1>12

(* However often the chain was interrupted, the published labels say what  *)
(* the services of the backend say of the same trips and tables: a context *)
(* rebuilt from a trip alone finds the row with its identifier, the        *)
(* detector decides as 07 wrote, and candidate search judges every row as  *)
(* 07 judged it, although scripts and backend are written apart.           *)
THEOREM LabelsAgree == Spec => []LabelsMatchBackend
<1>1. Retraced => LabelsMatchBackend
  <2> SUFFICES ASSUME Retraced, Finished
               PROVE  /\ \A a \in AutoEvents :
                           LET request == EnergyRequest(Reconstructed(a))
                           IN  /\ EventId(DOMAIN disk.demand, a) = Scheduled(a)
                               /\ request.need = disk.demand[a].need
                               /\ request.resolved = disk.demand[a].resolved
                      /\ \A k \in DOMAIN disk.candidates : Replayed(k) = disk.candidates[k].reason
    BY DEF LabelsMatchBackend
  <2>1. \A a \in AutoEvents : /\ EventId(DOMAIN disk.demand, a) = Scheduled(a)
                              /\ EnergyRequest(Reconstructed(a)).need = disk.demand[a].need
                              /\ EnergyRequest(Reconstructed(a)).resolved = disk.demand[a].resolved
    BY ContextsAgree
  <2>2. \A k \in DOMAIN disk.candidates : Replayed(k) = disk.candidates[k].reason
    BY CandidatesAgree
  <2> QED BY <2>1, <2>2
<1> QED BY <1>1, RetracedAlways, PTL

=============================================================================
