---------------------------- MODULE MCSnapshots ----------------------------
(* A small instance of Simulator: two keys, two instants, batches that     *)
(* overlap, repeat and contradict each other, and a station of one bay.    *)
EXTENDS Simulator, TLC

Said(v) == [source |-> "posted", occupied |-> v]
S(k, t, v) == [key |-> k, time |-> t, body |-> Said(v)]

MCPosted == {{S(1, 1, 0), S(2, 1, 1)}, {S(1, 2, 0)}}
MCBatches == MCPosted \cup {TickBatch(t, b, o) : t \in Times, b \in 0..Slots, o \in 0..Slots}
MCBodies == {Said(v) : v \in {0, 1}} \cup {Report(o) : o \in 0..Slots}

MCSymmetry == Permutations(Writers)
=============================================================================
