------------------------------- MODULE ToolCalls -------------------------------
(***************************************************************************)
(* One question about a project, put to the command line or to a tool of   *)
(* an MCP server (internal/mcpserver, internal/server/mcp.go, cmd/semidx): *)
(* which tools the server offers, how the project is chosen, and which one *)
(* the index then answers for.  The choice is handed on as a reference and *)
(* looked up a second time, in a catalog that may have changed meanwhile.  *)
(***************************************************************************)
EXTENDS ProjectRefs

CONSTANTS
  Catalogs,    \* the sets of projects an index may hold
  StartDirs,   \* where a command or a stdio server is started
  ServerDir,   \* where the server process runs
  Explicit,    \* the lists of tools an operator may give
  Refs,        \* the references a caller gives
  Groups,      \* the lists of references for a search of several projects
  Defaults     \* the configured default projects, Omitted for none

\* A project has one row for its identity.  One that was registered has its name
\* for an identity, one that was indexed the place it was indexed from.
ASSUME CatalogsAreRows ==
  \A L \in Catalogs :
    /\ IsFiniteSet(L)
    /\ \A p, q \in L : p.identity = q.identity => p = q
    /\ \A p \in L : /\ p.name \in DOMAIN Folded /\ p.path \in Dirs \cup {Nowhere}
                    /\ p.identity \notin {NoIdentity, <<"path", Nowhere>>}
                    /\ p.identity[1] = "name" => p.identity = <<"name", p.name>>
ASSUME PlacesAreReal == Dirs \subseteq Seq(STRING) \ {Nowhere} /\ "" \notin DOMAIN Folded
ASSUME GroupsAreNamed == \A rs \in Groups : rs \cap {Omitted, Dot} = {}

VARIABLES
  layers,      \* the wrapped backends of the process, outermost first
  cwd,
  default,
  tools,       \* the tools it offers, git and graph tools as groups
  catalog,
  call,        \* the tool, the references given, and whether the token may write
  known,       \* history: the catalog the project was chosen in
  targets,     \* the references handed to the index
  answer,      \* the projects answered for; none after a failure
  step

toolVars == <<layers, cwd, default, tools, catalog, call, known, targets, answer, step>>

NoCall == [tool |-> "none", refs |-> {}, write |-> FALSE]
ToolsInit ==
  /\ layers = <<>> /\ cwd = Nowhere /\ default = Omitted /\ tools = {}
  /\ catalog = {} /\ known = {} /\ targets = {} /\ answer = {}
  /\ call = NoCall /\ step = "idle"

------------------------------------------------------------------------------
(* Which tools are offered.                                                *)

Offers == [local |-> {"git", "multi", "graph", "depgraph", "cwd"},
           remote |-> {"multi", "depgraph", "cwd"}, http |-> {},
           usage |-> {"usage"}, ask |-> {"ask"},
           cli |-> {"graph"}, cliRemote |-> {}]
Offered(ls) == UNION {Offers[ls[i]] : i \in DOMAIN ls}
Always == {"search", "projects", "reindex", "status", "intel"}
ToolNames == Always \cup {"git", "multi", "graph", "depgraph", "usage", "ask"}
Exposed(ls, allowed) ==
  allowed \cap (Always \cup (Offered(ls) \ {"ask"}) \cup Offers[Head(ls)])

Basic == {"search", "projects", "status"}
Profiles == [search |-> Basic, workspace |-> Basic \cup {"reindex", "git", "multi"},
             intel |-> Basic \cup {"graph", "intel", "depgraph"}]
\* A profile and an explicit list exclude each other; no list is all of them.
AllowLists == {Profiles[p] : p \in DOMAIN Profiles} \cup Explicit \cup {ToolNames}

Stacks == {<<"usage", "local">>, <<"ask", "usage", "local">>, <<"usage", "remote">>, <<"http">>}

Serve(ls, allowed) ==
  /\ step = "idle" /\ ls \in Stacks
  /\ layers' = ls /\ tools' = Exposed(ls, allowed)
  /\ cwd' \in StartDirs
  /\ default' \in IF ls = <<"http">> THEN {Omitted} ELSE Defaults
  /\ catalog' \in Catalogs /\ step' = "open"
  /\ UNCHANGED <<call, known, targets, answer>>

\* resolveUseRemote has chosen the local index or the server for the command.
Command(kind) ==
  /\ step = "idle" /\ layers' = <<kind>>
  /\ tools' = {"search", "status"} \cup Offers[kind]
  /\ cwd' \in StartDirs
  /\ default' \in IF kind = "cli" THEN {Omitted} ELSE Defaults
  /\ catalog' \in Catalogs /\ step' = "open"
  /\ UNCHANGED <<call, known, targets, answer>>

------------------------------------------------------------------------------
(* How the project is chosen: a set of alternatives, each a set of targets *)

Base == layers[Len(layers)]
Named(S) == {{Word(p.name)} : p \in S}
Held(S) == {{Identified(p.identity)} : p \in S}

\* resolveProjectForTool; a server over HTTP knows no directory.
CwdProject ==
  CASE Base = "local" -> Here(cwd, catalog)
    [] Base = "remote" -> FromCwd(cwd, catalog)
    [] OTHER -> {}
ForTool(r) ==
  IF r \notin {Omitted, Dot} THEN {{r}}
  ELSE IF r = Omitted /\ default # Omitted THEN {{default}}
  ELSE Named(CwdProject)

\* The local command: an omitted project that is not found means all of them.
LocalTarget(t, r) ==
  CASE t = "status" ->
         LET place == Indexed(PlaceIn(IF r = Omitted THEN Dot ELSE r, cwd), FALSE, FALSE)
         IN Held(OrElse(ByIdentity(place.identity, catalog), ByRow(place.name, catalog)))
    [] t # "status" /\ r # Omitted -> Held(Resolve(r, cwd, catalog, TRUE) \ {Ambiguous})
    [] t = "graph" /\ r = Omitted -> Held(Here(cwd, catalog))
    [] t = "search" /\ r = Omitted ->
         LET all == {Identified(p.identity) : p \in catalog}
         IN OrElse(Held(Here(cwd, catalog)), IF all = {} THEN {} ELSE {all})

\* The remote command tries the default project after the directory.
RemoteTarget(r) ==
  LET direct == ResolveRemote(r, cwd, catalog) \ {Ambiguous} IN
  Named(IF direct = {} /\ r = Omitted /\ default # Omitted
        THEN ResolveRemote(default, cwd, catalog) \ {Ambiguous} ELSE direct)

Alternatives(t, r) ==
  CASE Base = "cli" -> LocalTarget(t, r)
    [] Base = "cliRemote" -> RemoteTarget(r)
    [] OTHER -> ForTool(r)

AboutProject == ToolNames \ {"projects", "multi", "usage"}
AskAbout(t, r, write) ==
  /\ step = "open" /\ t \in tools \cap AboutProject /\ (write => Base = "http")
  /\ (Base = "cli" /\ t = "status") => PlaceIn(IF r = Omitted THEN Dot ELSE r, cwd) # Nowhere
  /\ call' = [tool |-> t, refs |-> {r}, write |-> write] /\ known' = catalog
  /\ IF Alternatives(t, r) = {}
     THEN targets' = {} /\ step' = "answered"
     ELSE targets' \in Alternatives(t, r) /\ step' = "chosen"
  /\ UNCHANGED <<layers, cwd, default, tools, catalog, answer>>

\* Several projects in one search: the local index takes them as they are given,
\* the server looks each up first and refuses all when one is not there.
ByNameOrIdentity(u) == OrElse(ByRow(NameIn(u), catalog), ByIdentity(IdentityIn(u), catalog))
Everything == <<"everything">>
Several(rs) ==
  IF rs = {Everything} THEN {{Identified(p.identity) : p \in catalog}}
  ELSE IF Base = "local" THEN {rs}
  ELSE {{Identified(f[r].identity) : r \in rs} : f \in {g \in [rs -> catalog] : \A r \in rs : g[r] \in ByNameOrIdentity(r)}}
AskSeveral(rs) ==
  /\ step = "open" /\ "multi" \in tools
  /\ call' = [tool |-> "multi", refs |-> rs, write |-> FALSE] /\ known' = catalog
  /\ IF Several(rs) = {}
     THEN targets' = {} /\ step' = "answered"
     ELSE targets' \in Several(rs) /\ step' = "chosen"
  /\ UNCHANGED <<layers, cwd, default, tools, catalog, answer>>

------------------------------------------------------------------------------
(* What the index answers for.                                             *)

\* Someone indexes, registers or drops a project meanwhile, once.
Change(L) ==
  /\ step = "chosen" /\ catalog = known
  /\ Cardinality((L \ catalog) \cup (catalog \ L)) = 1
  /\ catalog' = L
  /\ UNCHANGED <<layers, cwd, default, tools, call, known, targets, answer, step>>

\* localBackend: searches resolve the reference, the rest knows names and identities.
Locally(t, u) ==
  CASE t = "reindex" -> {}
    [] t \in {"search", "multi", "ask", "intel"} -> Resolve(u, cwd, catalog, TRUE) \ {Ambiguous}
    [] t \in {"status", "graph", "depgraph"} -> ByNameOrIdentity(u)
    [] t = "git" -> {p \in ByNameOrIdentity(u) : p.path # Nowhere}

\* The server: code intelligence is not served, reindexing wants the write scope.
InServer(t, u) ==
  CASE t = "intel" -> {}
    [] t = "multi" -> ByIdentity(IdentityIn(u), catalog)
    [] t = "search" -> Resolve(u, ServerDir, catalog, TRUE) \ {Ambiguous}
    [] OTHER -> ByRow(NameIn(u), catalog)
OverHTTP(t, u) == IF t = "reindex" /\ ~call.write THEN {} ELSE InServer(t, u)

Looked(t, u) ==
  CASE Base = "cli" -> ByIdentity(IdentityIn(u), catalog)
    [] Base = "local" -> Locally(t, u)
    [] Base = "http" -> OverHTTP(t, u)
    [] Base \in {"remote", "cliRemote"} -> InServer(t, u)

\* A search of several projects goes on without those it does not find.
Answer ==
  /\ step = "chosen" /\ step' = "answered"
  /\ LET there == {u \in targets : Looked(call.tool, u) # {}}
     IN IF there # targets /\ call.tool # "multi" THEN answer' = {}
        ELSE \E f \in [there -> catalog] :
               (\A u \in there : f[u] \in Looked(call.tool, u)) /\ answer' = {f[u] : u \in there}
  /\ UNCHANGED <<layers, cwd, default, tools, catalog, call, known, targets>>

ToolsNext ==
  \/ \E ls \in Stacks, allowed \in AllowLists : Serve(ls, allowed)
  \/ \E kind \in {"cli", "cliRemote"} : Command(kind)
  \/ \E t \in ToolNames, r \in Refs, write \in BOOLEAN : AskAbout(t, r, write)
  \/ \E rs \in Groups \cup {{Everything}} : AskSeveral(rs)
  \/ \E L \in Catalogs : Change(L)
  \/ Answer

------------------------------------------------------------------------------
\* Where a name handed on is looked up as a place.
LookupDir == IF Base = "local" THEN cwd ELSE ServerDir

\* The name of p means something else as well, where it is looked up.
Blurred(p) ==
  \/ \E q \in known \cup catalog :
       q # p /\ (Folded[q.name] = Folded[p.name] \/ q.path = PlaceIn(Word(p.name), LookupDir))
  \/ ByPlace(PlaceIn(Word(p.name), LookupDir), catalog) \notin {{}, {p}}

MeansHere == call.refs = {Dot} \/ (call.refs = {Omitted} /\ (default = Omitted \/ Base = "cliRemote"))

\* A question asked from inside a repository that is indexed is answered for
\* that repository, however the index was asked, unless its name (commands and
\* tools of a server hand on names) also means another project or a place.
HereIsHere ==
  (step = "answered" /\ answer # {} /\ MeansHere) =>
    \A p \in ByIdentity(GitIdentity(cwd), known) : answer = {p} \/ (Base # "cli" /\ Blurred(p))

Denotes(r, from, p) ==
  \/ NameIn(r) \in DOMAIN Folded /\ Folded[NameIn(r)] = Folded[p.name]
  \/ IdentityIn(r) = p.identity
  \/ p.identity \in {GitIdentity(PlaceIn(r, from)), <<"path", PlaceIn(r, from)>>}
  \/ p.path # Nowhere /\ p.path = PlaceIn(r, from)

\* The status of a place is also that of any project with the name the place
\* would be indexed under.
SharesName(r, p) ==
  /\ Base = "cli" /\ call.tool = "status"
  /\ p.name = Indexed(PlaceIn(r, cwd), FALSE, FALSE).name

\* A question about a project that is named is never answered for one the name
\* does not denote; only the remote command also takes the project around the
\* caller for a reference it does not know, and only the local status a namesake.
NamedIsMeant ==
  (step = "answered" /\ ~MeansHere /\ call.refs # {Everything}) =>
    \A p \in answer : \E r \in IF call.refs = {Omitted} THEN {default} ELSE call.refs :
      LET chosen == {q \in known : Denotes(r, cwd, q) \/ (Base = "cliRemote" /\ q \in Enclosing(cwd, known))}
      IN \/ p \in chosen \/ Denotes(r, LookupDir, p) \/ SharesName(r, p)
         \/ Base = "cliRemote" /\ \E q \in chosen : Blurred(q)
==============================================================================
