------------------------------ MODULE MCGitStore ------------------------------
(* The synchronisation of one repository by two workers; or the local index,  *)
(* shared by two goroutines of one process and one of another.                *)
EXTENDS GitSync, LocalStore, TLC

CONSTANTS u1, host, proj, f1, f2, x, y, c1, c2, c3, p1, p2

VARIABLE part  \* which of the two this behaviour is about

OneHost == [u \in Urls |-> host]
FirstUrl == [n \in Names |-> u1]
Symmetry == Permutations(Workers) \cup Permutations(Admins)

TwoProcesses == c1 :> p1 @@ c2 :> p1 @@ c3 :> p2
SharedVector == <<f1, 0>> :> x @@ <<f1, 1>> :> y @@ <<f2, 0>> :> x @@ <<f2, 1>> :> NoVector
Closeness == x :> 1 @@ y :> 2
Tokens == {<<f1, 0>>, <<f2, 1>>}
Parts == {<<f1, 0>>, <<f1, 1>>, <<f2, 0>>}

GitStoreInit ==
  /\ Init
  /\ \/ part = "git" /\ StoreInit /\ files = {}
     \/ part = "store" /\ StoreInit /\ key = NoKey

GitStoreNext ==
  /\ UNCHANGED part
  /\ \/ part = "git" /\ Next /\ UNCHANGED storeVars
     \/ part = "store" /\ StoreNext /\ UNCHANGED vars

GitStoreSpec == GitStoreInit /\ [][GitStoreNext]_<<part, vars, storeVars>>
==============================================================================
