------------------------------- MODULE MCSearch -------------------------------
(* One search of a project, or one of several projects, or one question whose *)
(* project has to be found first.                                             *)
EXTENDS Search, MultiScope, ToolCalls

CONSTANTS fa, fb, fc, g1, g2

Chains == {{<<fa, fb>>, <<fc, fb>>}}
TwoFiles == {<<g1, 1>>, <<g1, 2>>, <<g2, 1>>}

\* A repository with another one inside, clones of both, and plain documents.
App == <<"w", "app">>
Inner == <<"w", "app", "app">>
Clone == <<"x", "app">>
InnerClone == <<"x", "lib">>
Docs == <<"w", "docs">>
Server == <<"srv">>
World == {App, Inner, Clone, InnerClone, Docs, Server}
Origins == (App :> "o1") @@ (Clone :> "o1") @@ (Inner :> "o2") @@ (InnerClone :> "o2")
ListOrder == [App |-> 1, app |-> 2, dev |-> 3, docs |-> 4, lib |-> 5]
LowerCase == [App |-> "app", app |-> "app", dev |-> "dev", docs |-> "docs", lib |-> "lib"]
DevBranch == [n \in {"app"} |-> "dev"]
Projects == {Indexed(d, FALSE, FALSE) : d \in {App, Inner, Clone, InnerClone, Docs}}
            \cup {Indexed(App, FALSE, TRUE), Indexed(App, TRUE, FALSE), Registered("App", "o1")}
UpToTwo == {L \in SUBSET Projects : Cardinality(L) <= 2 /\ \A p, q \in L : p.identity = q.identity => p = q}
Asked == {Omitted, Dot, Word("app"), Place(Inner), Identified(<<"remote", "o1">>)}
Pairs == {{Word("app"), Word("docs")}, {Word("app"), Identified(<<"remote", "o1">>)}, {Word("docs")}}
Starts == {Inner, Docs}
Preset == {Omitted, Word("docs")}

MCInit == Init /\ MultiInit /\ ToolsInit
Searched == pc = "idle" /\ edits = 0
MCNext ==
  \/ at = 0 /\ step = "idle" /\ Next /\ UNCHANGED <<multiVars, toolVars>>
  \/ Searched /\ step = "idle" /\ MultiNext /\ UNCHANGED <<vars, toolVars>>
  \/ Searched /\ at = 0 /\ ToolsNext /\ UNCHANGED <<vars, multiVars>>
MCSpec == MCInit /\ [][MCNext]_<<vars, multiVars, toolVars>> /\ Fairness
==============================================================================
