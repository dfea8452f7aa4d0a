-------------------------- MODULE MCInteractiveLoop --------------------------
(* Two vehicles; one held tick, two ticks of grace, a few ticks in all.     *)
EXTENDS InteractiveLoop

CONSTANTS v1, v2

MCVehicles == {v1, v2}
MCPrompt == {v1}
==============================================================================
