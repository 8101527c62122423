---------------------------- MODULE StationTables ----------------------------
(***************************************************************************)
(* The station and queue tables of the dataset (dataset_v1/generators):    *)
(* the generic state of a station is split between its two services by     *)
(* stage 05, which also patches single rows for the scenarios, stage 05b   *)
(* lengthens one queue, and stage 07 rebuilds both tables in memory.  The  *)
(* last section is what the validator demands of a row.                    *)
(*                                                                         *)
(* Waiting times are exact fractions of a minute; the code rounds them to  *)
(* two decimals, within the tolerance of the validator.                    *)
(***************************************************************************)
EXTENDS Candidates

CONSTANT ServiceTime     \* CHARGING_SERVICE_TIME_MIN, SWAP_SERVICE_TIME_MIN

ASSUME ServiceTimeAssumption == ServiceTime \in [Services -> Nat \ {0}]

Slots(s) == Site[s].slots
Single(s, v) == Slots(s)[v] > 0 /\ \A w \in Services \ {v} : Slots(s)[w] = 0
Both(c, w) == [v \in Services |-> IF v = "CHARGING" THEN c ELSE w]
None2 == Both(0, 0)

(* int(round(a)): to the nearest, to the even one in the middle.           *)
HalfEven(a) == LET n == Nearest(a) IN IF 2 * a.n + a.d = 2 * a.d * n /\ n % 2 = 1 THEN n - 1 ELSE n

Least2(a, b) == IF a < b THEN a ELSE b
Most2(a, b) == IF a < b THEN b ELSE a
Ceiling(a) == -((-a.n) \div a.d)

-----------------------------------------------------------------------------
(* Stages 02 and 04: a row of a station that does not know its services,   *)
(* and the four ways to stage it for a scenario.  Nobody waits at a station*)
(* where nobody is served.                                                 *)
StationRow ==
  {r \in [status : {"OPEN", "OFFLINE"}, occupied : Nat, batteries : Nat, queue : Nat] :
     r.queue > 0 => r.occupied > 0}
Total(s) == Slots(s)["CHARGING"] + Slots(s)["BATTERY_SWAP"]
GenericTime(s) == ServiceTime[IF Slots(s)["CHARGING"] = 0 THEN "BATTERY_SWAP" ELSE "CHARGING"]

Fresh(s, occupied) ==
  [status |-> "OPEN", occupied |-> occupied, batteries |-> 2 * Slots(s)["BATTERY_SWAP"], queue |-> 0]

Queued(s, row, available, target) ==
  LET occupied == Most2(1, Total(s) - Most2(1, Least2(available, Total(s) - 1)))
  IN [row EXCEPT !.status = "OPEN", !.occupied = occupied,
                 !.queue = Ceiling(Q(target * occupied, GenericTime(s)))]

Restocked(s, batteries) == IF Slots(s)["BATTERY_SWAP"] = 0 THEN batteries ELSE Slots(s)["BATTERY_SWAP"]

Opened(s, row, available, target) ==
  LET free == Most2(1, Least2(available, Total(s)))
      open == [row EXCEPT !.status = "OPEN", !.occupied = Total(s) - free, !.queue = 0,
                          !.batteries = Restocked(s, @)]
  IN  IF target > 0 THEN Queued(s, open, free, target) ELSE open

Filled(s, row) ==
  [row EXCEPT !.status = "OPEN", !.occupied = Total(s), !.queue = 3,
              !.batteries = Restocked(s, @)]

Offline(row) == [row EXCEPT !.status = "OFFLINE", !.occupied = 0, !.batteries = 0, !.queue = 0]

-----------------------------------------------------------------------------
(* Stage 05, part 1.  How many of a mixed station's occupied slots charge: *)
(* in proportion, plus the bias of the row, and as many as swap cannot take*)
Charging(s, occupied, bias) ==
  LET ch == Slots(s)["CHARGING"]
      sw == Slots(s)["BATTERY_SWAP"]
      wanted == Most2(0, Least2(ch, HalfEven(Q(occupied * ch, ch + sw)) + bias))
  IN  IF occupied - wanted > sw THEN Least2(ch, occupied - sw) ELSE wanted

MutatedSplitBusy(s, occupied, bias) ==
  LET total == Least2(occupied, Slots(s)["CHARGING"] + Slots(s)["BATTERY_SWAP"])
      ch == Most2(0, HalfEven(Q(total * Slots(s)["CHARGING"],
                                Slots(s)["CHARGING"] + Slots(s)["BATTERY_SWAP"])) + bias)
  IN  IF \E v \in Services : Single(s, v)
      THEN [v \in Services |-> Least2(Slots(s)[v], occupied)]
      ELSE Both(ch, Most2(0, total - ch))

SplitBusy(s, occupied, bias) ==
  LET total == Least2(occupied, Slots(s)["CHARGING"] + Slots(s)["BATTERY_SWAP"])
      ch == Charging(s, total, bias)
  IN  IF \E v \in Services : Single(s, v)
      THEN [v \in Services |-> Least2(Slots(s)[v], occupied)]
      ELSE Both(ch, Least2(Slots(s)["BATTERY_SWAP"], Most2(0, total - ch)))

Free(s, busy) == [v \in Services |-> Slots(s)[v] - busy[v]]

OpenRow(s, busy, batteries) ==
  [status |-> "OPEN", free |-> Free(s, busy), busy |-> busy,
   batteries |-> IF Slots(s)["BATTERY_SWAP"] = 0 THEN 0 ELSE batteries]

(* old: a row that does not know its services.                             *)
SplitStatus(s, old, bias) ==
  IF old.status # "OPEN"
  THEN [status |-> old.status, free |-> None2, busy |-> None2, batteries |-> 0]
  ELSE OpenRow(s, SplitBusy(s, old.occupied, bias), old.batteries)

(* Part 2: the queue of a mixed station, in proportion to who is served.   *)
SplitQueue(s, row, length) ==
  LET served == row.busy["CHARGING"] + row.busy["BATTERY_SWAP"]
      ch == IF row.busy["BATTERY_SWAP"] = 0 THEN length
            ELSE HalfEven(Q(length * row.busy["CHARGING"], served))
  IN  IF row.status # "OPEN" THEN None2
      ELSE IF Single(s, "CHARGING") THEN Both(length, 0)
      ELSE IF Single(s, "BATTERY_SWAP") THEN Both(0, length)
      ELSE IF served = 0 THEN None2
      ELSE Both(ch, length - ch)

Wait(v, length, active) ==
  IF length > 0 /\ active > 0 THEN Q(length * ServiceTime[v], active) ELSE Zero

QueueRow(length, active) ==
  [length |-> length, active |-> active,
   wait |-> [v \in Services |-> Wait(v, length[v], active[v])]]

ServiceQueue(s, row, length) ==
  QueueRow(SplitQueue(s, row, length), IF row.status = "OPEN" THEN row.busy ELSE None2)

-----------------------------------------------------------------------------
(* set_service_state: one service of one row is opened with so many free   *)
(* slots, and waiting for it made at least so long; the other stays.       *)
CanSet(s, v, target) == Slots(s)[v] > IF Less(Zero, target) THEN 1 ELSE 0

SetBusy(s, v, available, target) ==
  LET free == Most2(1, Least2(available, Slots(s)[v]))
  IN  IF Less(Zero, target) THEN Slots(s)[v] - Least2(free, Slots(s)[v] - 1) ELSE Slots(s)[v] - free

SetStatus(s, row, v, available, target) ==
  LET busy == SetBusy(s, v, available, target)
  IN  IF Slots(s)[v] = 0 THEN row
      ELSE IF ~CanSet(s, v, target) THEN [row EXCEPT !.status = "OPEN"]
      ELSE [row EXCEPT !.status = "OPEN", !.free[v] = Slots(s)[v] - busy, !.busy[v] = busy,
                       !.batteries = IF v = "BATTERY_SWAP" THEN Most2(1, @) ELSE @]

SetQueue(s, queue, v, available, target) ==
  LET busy == SetBusy(s, v, available, target)
      length == Ceiling(Q(target.n * busy, target.d * ServiceTime[v]))
  IN  IF Slots(s)[v] = 0 \/ ~CanSet(s, v, target) THEN queue
      ELSE QueueRow([queue.length EXCEPT ![v] = length], [queue.active EXCEPT ![v] = busy])

(* Stage 05b: the queue of one service is made to last at least so long.   *)
Lengthen(queue, v, busy, minutes) ==
  LET active == IF queue.active[v] > 0 THEN queue.active[v] ELSE Most2(1, busy)
      length == Most2(1, HalfEven(Q(minutes.n * active, minutes.d * ServiceTime[v])))
  IN  [queue EXCEPT !.length[v] = length, !.active[v] = active, !.wait[v] = Wait(v, length, active)]

-----------------------------------------------------------------------------
(* Stage 07 takes its station state from the tables once more, in memory:  *)
(* what is not free counts as occupied, a station that is not open has no  *)
(* batteries, and both queues of a row are pooled and split again.         *)
Rebuilt(s, row) ==
  LET free == [v \in Services |-> Least2(Slots(s)[v], row.free[v])]
  IN  [status |-> row.status, free |-> free, busy |-> Free(s, free),
       batteries |-> IF row.status = "OPEN" THEN row.batteries ELSE 0]

RebuiltQueue(s, row, queue) ==
  LET length == SplitQueue(s, row, queue.length["CHARGING"] + queue.length["BATTERY_SWAP"])
  IN [length |-> length,
      active |-> IF row.status = "OPEN" THEN row.busy ELSE None2,
      wait |-> [v \in Services |->
                  Q(length[v] * ServiceTime[v], Most2(1, row.busy[v]))]]

-----------------------------------------------------------------------------
(* validate_dataset.py, section 14.                                        *)
CapacityChecks(s, row) ==
  /\ \A v \in Services : /\ row.free[v] >= 0 /\ row.busy[v] >= 0
                         /\ row.free[v] + row.busy[v] <= Slots(s)[v]
  /\ row.batteries >= 0
  /\ Slots(s)["BATTERY_SWAP"] = 0 => row.batteries = 0
  /\ row.status # "OPEN" => row.free = None2 /\ row.busy = None2 /\ row.batteries = 0

QueueChecks(row, queue) ==
  \A v \in Services : /\ queue.length[v] >= 0
                      /\ queue.active[v] <= row.busy[v]
                      /\ queue.wait[v] = Wait(v, queue.length[v], queue.active[v])
=============================================================================
