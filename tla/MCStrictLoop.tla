---------------------------- MODULE MCStrictLoop ----------------------------
(* Two vehicles, a few ticks of world time and a timeout of one clock unit. *)
EXTENDS StrictLoop

CONSTANTS v1, v2

MCVehicles == {v1, v2}
==============================================================================
