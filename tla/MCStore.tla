------------------------------ MODULE MCStore ------------------------------
(* Store with paths, and messages, that can stand in for each other. *)
EXTENDS Store, TLC

Symmetry == Permutations(Paths) \cup Permutations(Msgs)
=============================================================================
