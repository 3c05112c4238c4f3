------------------------------- MODULE MCMigrate -------------------------------
(* One document, of which two worktrees hold different versions. *)
EXTENDS Migrate

CONSTANT doc

TwoEach == [v \in Vers |-> 2]
==============================================================================
