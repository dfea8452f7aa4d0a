------------------------------ MODULE MCWorld ------------------------------
(* Two job threads that report into two slots. *)
EXTENDS World, TLC

CONSTANTS t1, t2

MCThreads == {t1, t2}
AnyThread == Permutations(MCThreads)
==============================================================================
