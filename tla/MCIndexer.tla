----------------------------- MODULE MCIndexer -----------------------------
(* Indexer on small sets.  The messages are numbers in the order in which  *)
(* readdir() gives their files: nothing else tells them apart, so one      *)
(* order stands for all.  The threads are interchangeable in every safety  *)
(* property.                                                               *)
EXTENDS Indexer, TLC

MCReadBefore == {p \in Msgs \X Msgs : p[1] < p[2]}
Symmetry == Permutations(Workers)
=============================================================================
