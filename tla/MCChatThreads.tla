----------------------------- MODULE MCChatThreads -----------------------------
(* The questions of one user on each of the three surfaces. The model calls  *)
(* a search and an action at once, or a single search.                       *)
EXTENDS ChatThreads

CONSTANTS p, q

SearchOf(r) == [tool |-> "semantic_search", ref |-> r]
Reindex == [tool |-> "reindex_project", ref |-> p]
FewPlans == {<<SearchOf(q), Reindex>>}

FewKinds == {[surface |-> "admin", mode |-> "agent", scope |-> All, policy |-> "execute"],
             [surface |-> "admin", mode |-> "rag", scope |-> p, policy |-> "off"],
             [surface |-> "web", mode |-> "rag", scope |-> p, policy |-> "off"],
             [surface |-> "repl", mode |-> "agent", scope |-> p, policy |-> "confirm"],
             [surface |-> "repl", mode |-> "rag", scope |-> p, policy |-> "confirm"]}

FewTurns == [admin |-> 1, web |-> 2, repl |-> 2]
FewSwitches == [admin |-> 0, web |-> 1, repl |-> 1]
==============================================================================
