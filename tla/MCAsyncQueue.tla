---------------------------- MODULE MCAsyncQueue ----------------------------
(* AsyncQueue with threads, and items, that can stand in for each other. *)
EXTENDS AsyncQueue, TLC

Symmetry == Permutations(Threads) \cup Permutations(Items)
=============================================================================
