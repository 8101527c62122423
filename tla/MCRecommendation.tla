-------------------------- MODULE MCRecommendation --------------------------
(* A small instance of Recommendation: one station with both services.     *)
EXTENDS Recommendation

MCStationKey == [s \in Stations |-> 1]
MCQueueKey == [s \in Stations |-> 2]

Slots1(n) == [s \in Services |-> n]
StationBodies == {[status |-> "OPEN", slots |-> Slots1(1), batteries |-> 1],
                  [status |-> "OPEN", slots |-> Slots1(1), batteries |-> 0],
                  [status |-> "OPEN", slots |-> Slots1(0), batteries |-> 1],
                  [status |-> "OFFLINE", slots |-> Slots1(1), batteries |-> 1]}
QueueBodies == {[wait |-> [s \in Services |-> 0]],
                [wait |-> [s \in Services |-> IF s = "CHARGING" THEN 2 ELSE 1]]}

MCBodies == StationBodies \cup QueueBodies
MCFeasible == Pairs
MCReports == [key : {1}, time : Times, body : StationBodies]
               \cup [key : {2}, time : Times, body : QueueBodies]
MCBatches == {{x} : x \in MCReports}
=============================================================================
