---------------------------- MODULE MCLazyIndex ----------------------------
(* LazyIndex with as many files in each directory as there are names. *)
EXTENDS LazyIndex, TLC

CONSTANT Names

MCPaths == Dirs \X Names
MCDirOf(p) == p[1]

Symmetry == Permutations(Names) \cup Permutations(Msgs)
=============================================================================
