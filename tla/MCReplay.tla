------------------------------ MODULE MCReplay ------------------------------
(* A small instance of Replay: tracks of two observations, generated ones  *)
(* two ticks apart, a rerouted one a tick after the last accepted one.     *)
EXTENDS Replay

MCTrajectories == {<<1, 3>>}
=============================================================================
