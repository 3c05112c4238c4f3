----------------------------- MODULE MCIndexJobs -----------------------------
(* Instances of IndexJobs for TLC. *)
EXTENDS IndexJobs, TLC

SlotSymmetry == Permutations(Slots)
==============================================================================
