----------------------------- MODULE MCStateFile -----------------------------
(* Two goroutines; an inode for each, one for path and one left over.       *)
EXTENDS StateFile, TLC

Symmetry == Permutations(Writer) \cup Permutations(Inode)
=============================================================================
