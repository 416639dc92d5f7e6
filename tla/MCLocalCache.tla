---------------------------- MODULE MCLocalCache ----------------------------
(* Model checking of LocalCache: which task, key or file it is makes no    *)
(* difference.                                                             *)
EXTENDS LocalCache, TLC

Symmetry == Permutations(Tasks) \cup Permutations(Keys) \cup Permutations(Inodes)
=============================================================================
