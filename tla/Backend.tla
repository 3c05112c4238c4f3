-------------------------------- MODULE Backend --------------------------------
(***************************************************************************)
(* Which store a command works on.  The settings come from the             *)
(* environment, a .env and the user's semidx.env (internal/config), the    *)
(* login from the client configuration, and flags go before all of them    *)
(* (cmd/semidx/deps_setup.go, backend.go, main.go).  `semidx config list`  *)
(* tells the user what came of it (cmd/semidx/config.go).                  *)
(***************************************************************************)
EXTENDS Naturals, Sequences, FiniteSets

CONSTANTS
  Unset,    \* a setting without a value
  Default,  \* the default of a setting: the local index, the local database
  Given     \* what the user gave: a path, an address

ASSUME SettingsAssumption == Cardinality({Unset, Default, Given}) = 3

Layers == <<"env", ".env", "user">>
LayerSet == {"env", ".env", "user"}
AutoBackend == "auto"

VARIABLES
  settings,    \* layer to key to value; Unset stands for an empty value too
  login,   \* the server in the client configuration
  flags,   \* --local, --keyword, --backend
  deps,    \* what the root command made of them
  shown    \* what `config list` calls the active backend

bvars == <<settings, login, flags, deps, shown>>

NoDeps == [ok |-> FALSE, remote |-> FALSE, index |-> Unset, keyword |-> FALSE]

(***************************************************************************)
(* internal/config                                                         *)
(***************************************************************************)

FirstSet(s) == IF \E i \in DOMAIN s : s[i] # Unset
               THEN s[CHOOSE i \in DOMAIN s : s[i] # Unset /\ \A j \in 1 .. i - 1 : s[j] = Unset]
               ELSE Unset

\* resolver.get: the environment before the project's .env before the user's file.
Effective(key) == FirstSet([i \in 1 .. 3 |-> settings[Layers[i]][key]])

LocalIndexRequested == IF Effective("SEMIDX_LOCAL_INDEX") = "1" THEN Default
                       ELSE Effective("SEMIDX_LOCAL_INDEX")

\* A configured database goes before a local index.
LocalIndexPath == IF Effective("SEMIDX_DB_DSN") # Unset THEN Unset ELSE LocalIndexRequested

KeywordOnly == Effective("SEMIDX_EMBED_MODE") = "none"
HasProvider == Effective("GEMINI_API_KEY") # Unset

\* Of the database and the index it is the environment alone that counts here.
ZeroConfigRecommended(remote) ==
  /\ ~KeywordOnly /\ LocalIndexPath = Unset
  /\ ~remote
  /\ settings["env"]["SEMIDX_DB_DSN"] = Unset /\ settings["env"]["SEMIDX_LOCAL_INDEX"] = Unset
  /\ ~HasProvider

(***************************************************************************)
(* The root command.                                                       *)
(***************************************************************************)

\* clientconfig.Load: the environment goes before the file.
ServerURL == FirstSet(<<settings["env"]["SEMIDX_SERVER_URL"], login>>)

Mode == LET m == FirstSet(<<flags.backend, settings["env"]["SEMIDX_BACKEND"]>>) IN
        IF m = Unset THEN AutoBackend ELSE m

ForcedLocal == flags.local \/ Mode = "local"
ModeFits == Mode \in {"auto", "local", "remote"}
            /\ (Mode = "remote" /\ ~flags.local => ServerURL # Unset)

UseRemote == ~ForcedLocal /\ ServerURL # Unset

\* The index a forced local run falls back to, before the defaults are looked at.
IndexAsked ==
  IF ForcedLocal /\ LocalIndexPath = Unset
  THEN IF flags.local /\ LocalIndexRequested = Unset THEN Default ELSE LocalIndexRequested
  ELSE LocalIndexPath

ZeroConfig == ~flags.local /\ ~flags.keyword /\ ZeroConfigRecommended(UseRemote)

Setup ==
  /\ deps = NoDeps /\ ModeFits
  /\ deps' = [ok |-> TRUE, remote |-> UseRemote,
              index |-> IF ZeroConfig THEN Default ELSE IndexAsked,
              keyword |-> KeywordOnly \/ flags.keyword \/ ZeroConfig]
  /\ UNCHANGED <<settings, login, flags, shown>>

(***************************************************************************)
(* What the commands then use, and what the user is told.                  *)
(***************************************************************************)

\* indexStore: a local index when there is one, otherwise the database.
Store == IF deps.index # Unset THEN <<"sqlite", deps.index>>
         ELSE <<"postgres", IF Effective("SEMIDX_DB_DSN") = Unset THEN Default ELSE Given>>

\* search, status, mcp and the rest ask remote() first.
Used == IF deps.remote THEN <<"server", ServerURL>> ELSE Store

\* Mutant of ActiveBackend: the flags are not looked at.
ConfiguredBackend ==
  IF ServerURL # Unset THEN <<"server", ServerURL>>
  ELSE IF LocalIndexPath # Unset THEN <<"sqlite", LocalIndexPath>>
  ELSE <<"postgres", IF Effective("SEMIDX_DB_DSN") = Unset THEN Default ELSE Given>>

\* activeBackend; "?" stands for a label that names no store.
ActiveBackend ==
  LET path == IF deps.index # Unset THEN deps.index
              ELSE IF LocalIndexPath # Unset THEN LocalIndexPath
              ELSE IF Effective("SEMIDX_DB_DSN") = Unset THEN Effective("SEMIDX_LOCAL_INDEX") ELSE Unset
      keyword == deps.keyword \/ KeywordOnly IN
  IF deps.remote THEN <<"server", ServerURL>>
  ELSE IF keyword /\ path # Unset THEN <<"sqlite", "?">>
  ELSE IF keyword THEN <<"?", "?">>
  ELSE IF path # Unset THEN <<"sqlite", path>>
  ELSE IF Effective("SEMIDX_DB_DSN") # Unset THEN <<"postgres", Given>>
  ELSE <<"postgres", Default>>

ConfigList ==
  /\ deps.ok /\ shown = <<>>
  /\ shown' = ActiveBackend
  /\ UNCHANGED <<settings, login, flags, deps>>

\* Bound: the index is asked for in one place at most, the mode of embedding and
\* the provider in the user's file; the login and the mode are read from the environment alone.
BackendInit ==
  /\ \E dsn \in SUBSET LayerSet, at \in LayerSet, ix \in {Unset, "1", Given}, mode \in {Unset, "none"},
        key, url \in {Unset, Given}, mine \in {Unset, "local", "remote"} :
       settings = [l \in LayerSet |->
                [SEMIDX_DB_DSN |-> IF l \in dsn THEN Given ELSE Unset,
                 SEMIDX_LOCAL_INDEX |-> IF l = at THEN ix ELSE Unset,
                 SEMIDX_EMBED_MODE |-> IF l = "user" THEN mode ELSE Unset,
                 GEMINI_API_KEY |-> IF l = "user" THEN key ELSE Unset,
                 SEMIDX_SERVER_URL |-> IF l = "env" THEN url ELSE Unset,
                 SEMIDX_BACKEND |-> IF l = "env" THEN mine ELSE Unset]]
  /\ login \in {Unset, Given}
  /\ flags \in [local : BOOLEAN, keyword : BOOLEAN, backend : {Unset, "auto", "local", "remote", "nonsense"}]
  /\ deps = NoDeps /\ shown = <<>>

BackendNext == Setup \/ ConfigList

(***************************************************************************)
(* Properties.                                                             *)
(***************************************************************************)

\* What `config list` names is what search, index and the others work on.
ReportIsTrue ==
  shown # <<>> => /\ shown[1] \in {"?", Used[1]}
                  /\ shown[2] \in {"?", Used[2]}

\* --local and --backend local keep a run off the server, and an index path
\* given by the user is used by --local even beside a configured database.
LocalIsLocal ==
  deps.ok => /\ ForcedLocal => Used[1] # "server"
             /\ (flags.local /\ LocalIndexRequested # Unset) => Used = <<"sqlite", LocalIndexRequested>>

\* The precedence that the list of settings states: the server, then a
\* configured database, then a local index, then the default database.
AsConfigured ==
  (deps.ok /\ ~ForcedLocal /\ ServerURL = Unset /\ Effective("SEMIDX_DB_DSN") # Unset)
    => Used = <<"postgres", Given>>
================================================================================
