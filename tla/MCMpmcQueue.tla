------------------------------ MODULE MCMpmcQueue ------------------------------
(* MpmcQueue for TLC: named threads and items, and their symmetry. *)
EXTENDS MpmcQueue, TLC

Threads == Permutations(Producers) \cup Permutations(Consumers)
=============================================================================
