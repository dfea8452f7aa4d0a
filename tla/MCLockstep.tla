----------------------------- MODULE MCLockstep -----------------------------
(* Small instances of Lockstep: a frame counter that wraps after a few     *)
(* frames, and the fault budgets each configuration gives.                 *)
EXTENDS Lockstep
==============================================================================
