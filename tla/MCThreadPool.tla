---------------------------- MODULE MCThreadPool ----------------------------
(* Three workers; fewer, as many and more indices than threads. *)
EXTENDS ThreadPool

MCCounts == {1, 3, 4, 6}
==============================================================================
