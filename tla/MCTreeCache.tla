----------------------------- MODULE MCTreeCache ----------------------------
(* Instances of TreeCache.                                                 *)
EXTENDS TreeCache, TLC

Symmetry == Permutations(Ops) \cup Permutations(Paths)
=============================================================================
