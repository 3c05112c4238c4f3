------------------------------ MODULE WorktreeView ------------------------------
(***************************************************************************)
(* What the worktree index of a git project promises a search: each        *)
(* worktree has a view of its own, from path to the version of the file it *)
(* has checked out, and only indexing that worktree changes its view.      *)
(*                                                                         *)
(* WorktreeIndex, which shares the stored versions between the worktrees   *)
(* and prunes what no worktree references, is shown to implement this.     *)
(***************************************************************************)
CONSTANTS
  Worktrees,  \* checkouts of the project
  Paths,      \* file paths
  Versions,   \* contents a file can have, by hash
  NoVersion   \* the path is not in the view

VARIABLES
  view,       \* what a search scoped to the worktree sees
  indexing    \* the worktrees an index run is busy with

viewVars == <<view, indexing>>

ViewType == view \in [Worktrees -> [Paths -> Versions \cup {NoVersion}]]

ViewInit ==
  /\ view = [w \in Worktrees |-> [p \in Paths |-> NoVersion]]
  /\ indexing = {}

Begin(w) == indexing' = indexing \cup {w} /\ UNCHANGED view

\* The worktree's whole snapshot replaces what it had.
Publish(w) ==
  /\ w \in indexing
  /\ \E snapshot \in [Paths -> Versions \cup {NoVersion}] :
       view' = [view EXCEPT ![w] = snapshot]
  /\ UNCHANGED indexing

\* A file that became empty leaves the view before the snapshot is taken.
Withdraw(w) ==
  /\ w \in indexing
  /\ \E p \in Paths : view' = [view EXCEPT ![w][p] = NoVersion]
  /\ UNCHANGED indexing

End(w) == w \in indexing /\ indexing' = indexing \ {w} /\ UNCHANGED view

ViewNext == \E w \in Worktrees : Begin(w) \/ Publish(w) \/ Withdraw(w) \/ End(w)

Spec == ViewInit /\ [][ViewNext]_viewVars
==============================================================================
