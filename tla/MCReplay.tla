------------------------------ MODULE MCReplay ------------------------------
(* Two vehicles at the start and one that may be spawned. *)
EXTENDS Replay
==============================================================================
