---------------------------- MODULE MCWorktreeIndex ----------------------------
(* Small instances of WorktreeIndex.  The paths are alike, and so are the texts
   and the runs. *)
EXTENDS WorktreeIndex, TLC

NameSymmetry == Permutations(Paths) \cup Permutations(Texts) \cup Permutations(Runners)
==============================================================================
