------------------------------ MODULE MCCommands ------------------------------
(* What the command line does beside indexing and searching: a push, the     *)
(* user's lists, the set-up of another program, an upgrade, the choice of a  *)
(* store or a migration, each for itself.                                    *)
EXTENDS BatchPush, UserLists, ClientSetup, SelfUpgrade, Backend, Migrate, TLC

CONSTANTS docA, docB, name1

VARIABLE part  \* which of them this behaviour is about

\* Workers stand for the commands and the installs too, which never meet them.
Shared == Permutations(Texts) \cup Permutations(Workers)

v12 == <<1, 2, 0>>
v110 == <<1, 10, 0>>
v20 == <<2, 0, 0>>
Released == {v12, v110, v20}
Unpublished == {v20}

\* The second revision of a document is shorter; one document is sensitive at first.
Lengths == [v \in Vers |-> IF v[2] = 1 THEN 2 ELSE 1]
Secret == {<<docB, 1>>}

NoPushes == Init /\ tree = [p \in Paths |-> Absent]
NoLists == UsersInit /\ found = [n \in Names |-> CHOOSE a \in Answers : TRUE]
NoSetup == SetupInit /\ style = "json" /\ conf.entries = {} /\ \A f \in Skills : skill[f] = "none"
NoUpgrade == UpgradeInit /\ ~windows /\ ~root
NoBackend == settings = <<>> /\ login = Unset /\ flags = <<>> /\ deps = NoDeps /\ shown = <<>>

CommandsInit ==
  /\ MigrateInit
  /\ \/ part = "push" /\ Init /\ NoLists /\ NoSetup /\ NoUpgrade /\ NoBackend
     \/ part = "lists" /\ NoPushes /\ UsersInit /\ NoSetup /\ NoUpgrade /\ NoBackend
     \/ part = "setup" /\ NoPushes /\ NoLists /\ SetupInit /\ NoUpgrade /\ NoBackend
     \/ part = "upgrade" /\ NoPushes /\ NoLists /\ NoSetup /\ UpgradeInit /\ NoBackend
     \/ part = "backend" /\ NoPushes /\ NoLists /\ NoSetup /\ NoUpgrade /\ BackendInit
     \/ part = "migrate" /\ NoPushes /\ NoLists /\ NoSetup /\ NoUpgrade /\ NoBackend

CommandsNext ==
  /\ UNCHANGED part
  /\ \/ part = "push" /\ Next /\ UNCHANGED <<uvars, svars, gvars, bvars, mvars>>
     \/ part = "lists" /\ UsersNext /\ UNCHANGED <<vars, svars, gvars, bvars, mvars>>
     \/ part = "setup" /\ SetupNext /\ UNCHANGED <<vars, uvars, gvars, bvars, mvars>>
     \/ part = "upgrade" /\ UpgradeNext /\ UNCHANGED <<vars, uvars, svars, bvars, mvars>>
     \/ part = "backend" /\ BackendNext /\ UNCHANGED <<vars, uvars, svars, gvars, mvars>>
     \/ part = "migrate" /\ MigrateNext /\ UNCHANGED <<vars, uvars, svars, gvars, bvars>>

CommandsSpec == CommandsInit /\ [][CommandsNext]_<<part, vars, uvars, svars, gvars, bvars, mvars>>
==============================================================================
