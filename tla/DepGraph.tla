------------------------------- MODULE DepGraph -------------------------------
(***************************************************************************)
(* The dependency graph: what the extractors of internal/imports store for *)
(* the references in a file, and what callers, impact, dead code, path and *)
(* neighbourhood (internal/codeintel, internal/deadcode, internal/graph)   *)
(* read from it.  A directory is a sequence of names, a file has a         *)
(* language, a directory and a stem, a reference is what its text says.    *)
(***************************************************************************)
EXTENDS Integers, FiniteSets, Sequences, SequencesExt

CONSTANTS
  Codebases,    \* of [files, refs, modules]
  Queries(_),   \* what may be asked of a project
  Remainder,    \* [<<longer, shorter>> |-> rest] of names that begin alike
  SourceRoots,  \* pythonSourceRoots: src, lib, python, source
  StdModules,   \* first names of Python's standard library
  ImpactDepth, ImpactCap,  \* defaultImpactDepth: 5, maxImpactDepth: 10
  PathDepth, PathCap,      \* DefaultPathMaxDepth: 8, maxPathDepthQuery: 16
  WalkDepth, WalkCap,      \* DefaultSubgraphDepth: 2, maxSubgraphDepthQuery: 5
  MaxVisits,    \* DefaultMaxVisitNodes: 10000
  MaxEdges      \* DefaultMaxEdgesOut: 500

Langs == {"go", "ts", "py", "sh", "rb", "jvm", "rs", "cs", "c", "md"}
ASSUME GraphBounds ==
  /\ {ImpactDepth, ImpactCap, PathDepth, PathCap, WalkDepth, WalkCap, MaxVisits, MaxEdges} \subseteq Nat \ {0}
  /\ ImpactDepth <= ImpactCap
ASSUME ProjectsAreSound ==
  \A p \in Codebases :
    /\ IsFiniteSet(p.files) /\ \A f \in p.files : f.lang \in Langs
    /\ Len(p.refs) \in Nat /\ DOMAIN p.refs = 1 .. Len(p.refs)

VARIABLES
  project,
  stored,   \* file_dependencies: the directories of each file
  query,
  asked,    \* "off", "new", "open" or "answered"
  queue,    \* nodes to be visited, or the directories of one level
  found,    \* nodes with their depth, and for a path the node before
  edges,    \* edges of the neighbourhood
  either,   \* are arrows walked both ways?
  visits,
  cut,      \* Truncated
  answer

graphVars == <<project, stored, query, asked, queue, found, edges, either, visits, cut, answer>>

Drop(s, n) == SubSeq(s, n + 1, Len(s))
Upto(s, n) == SubSeq(s, 1, n)
PathOf(f) == Append(f.dir, f.stem)
Among(s) == {s[i] : i \in DOMAIN s}
RefsOf(f) == {r \in Among(project.refs) : r.by = f}

\* filepath.Join of a directory with a path that begins with some "..".
Joined(dir, r) ==
  (IF r.up <= Len(dir) THEN Upto(dir, Len(dir) - r.up) ELSE [i \in 1 .. (r.up - Len(dir)) |-> ".."]) \o r.path

------------------------------------------------------------------------------
(* What is stored for a reference: the directories. *)
\* strings.HasPrefix(path, module) and what follows it; no name ends a match.
Begins(path, module) ==
  /\ Len(module) <= Len(path)
  /\ \A i \in 1 .. (Len(module) - 1) : path[i] = module[i]
  /\ module # <<>> =>
       LET n == Len(module) IN path[n] = module[n] \/ <<path[n], module[n]>> \in DOMAIN Remainder
After(path, module) ==
  LET n == Len(module)
  IN IF n = 0 THEN path
     ELSE (IF path[n] = module[n] THEN <<>> ELSE <<Remainder[<<path[n], module[n]>>]>>) \o Drop(path, n)

\* resolveImportDir; the root package of a module is no dependency.
ImportDir(path, module) ==
  IF Begins(path, module) /\ After(path, module) # <<>> THEN {After(path, module)} ELSE {}

\* moduleInfoFor: the nearest go.mod above a file, otherwise the root's.
RootModule == IF <<>> \in DOMAIN project.modules THEN project.modules[<<>>] ELSE <<>>
ModuleDir(f) ==
  LET above == {n \in 0 .. Len(f.dir) : Upto(f.dir, n) \in DOMAIN project.modules}
  IN IF above = {} THEN <<>> ELSE Upto(f.dir, CHOOSE n \in above : \A k \in above : k <= n)
GoDirs(f, r) ==
  IF r.how # "import" THEN {}
  ELSE IF ModuleDir(f) = <<>> THEN ImportDir(r.path, RootModule)
  ELSE LET own == project.modules[ModuleDir(f)]
       IN {ModuleDir(f) \o d : d \in ImportDir(r.path, own)}
          \cup (IF RootModule \in {<<>>, own} THEN {} ELSE ImportDir(r.path, RootModule))

\* resolveTSImportPath, shellRefDir, analyzeRuby, analyzeC and analyzeMarkdown.
TSDirs(f, r) ==
  CASE r.how = "import" -> {Joined(f.dir, r)}
    [] r.how = "alias" /\ Len(r.path) > 1 -> {Upto(r.path, Len(r.path) - 1)}
    [] OTHER -> {}
HoldingDir(path) == IF Len(path) < 2 THEN {} ELSE {Upto(path, Len(path) - 1)}
\* shellRefDir refuses to leave the project, analyzeRuby does not.
ScriptDirs(f, r) == {d \in HoldingDir(Joined(f.dir, r)) : r.how = "import" /\ d[1] # ".."}
RubyDirs(f, r) == {d \in HoldingDir(Joined(f.dir, r)) : r.how = "import"}
RustDirs(r) == IF r.how # "import" THEN {} ELSE IF Len(r.path) = 1 THEN {r.path} ELSE HoldingDir(r.path)
JvmDirs(r) ==
  IF r.how # "import" \/ r.types >= Len(r.path) THEN {} ELSE {Upto(r.path, Len(r.path) - r.types)}
CsDirs(r) == IF r.how = "import" THEN {r.path} ELSE {}
HeaderDirs(r) == IF r.how = "import" THEN HoldingDir(Joined(<<>>, r)) ELSE {}
LinkDirs(r) == IF r.how = "import" THEN HoldingDir(Joined(<<>>, r)) ELSE {}

\* pythonModuleIndex: the names of a module, one below each source root.
Parts(f) == IF f.stem = "__init__" THEN f.dir ELSE PathOf(f)
Roots(parts) == {i \in 1 .. (Len(parts) - 1) : parts[i] \in SourceRoots}
Aliases(f) == ({Parts(f)} \cup {Drop(Parts(f), i) : i \in Roots(Parts(f))}) \ {<<>>}
PyFiles == {f \in project.files : f.lang = "py"}
Resolved(module) ==
  LET dirs == {f.dir : f \in {g \in PyFiles : module \in Aliases(g)}}
  IN IF Cardinality(dirs) = 1 THEN dirs ELSE {}

\* canonicalPythonModule, pythonRelativeBase and pythonImportCandidates.
Canonical(f) ==
  LET parts == Parts(f)
      own == IF Roots(parts) = {} THEN parts
             ELSE Drop(parts, CHOOSE i \in Roots(parts) : \A k \in Roots(parts) : i <= k)
  IN IF f.stem = "__init__" /\ f.dir # <<>> THEN Append(own, "__init__") ELSE own
RelativeBase(f, levels) ==
  LET n == Len(Canonical(f)) - 1
  IN IF levels - 1 >= n THEN <<>> ELSE Upto(Canonical(f), n - (levels - 1))
Candidates(f, r) ==
  LET base == (IF r.up > 0 THEN RelativeBase(f, r.up) ELSE <<>>) \o r.path
  IN (IF r.name = "" THEN <<>> ELSE <<Append(base, r.name)>>) \o (IF base = <<>> THEN <<>> ELSE <<base>>)

\* analyzePython: of each import the first candidate that brings a directory.
PyDirs(f) ==
  LET brought[i \in 0 .. Len(project.refs)] ==
        IF i = 0 THEN {}
        ELSE IF project.refs[i].by # f THEN brought[i - 1]
        ELSE LET c == Candidates(f, project.refs[i])
                 news == {k \in DOMAIN c : c[k][1] \notin StdModules /\ ~(Resolved(c[k]) \subseteq brought[i - 1])}
             IN brought[i - 1] \cup
                (IF news = {} THEN {} ELSE Resolved(c[CHOOSE k \in news : \A j \in news : k <= j]))
  IN brought[Len(project.refs)]

\* AnalyzeWithFiles and fileDependencies.
Dirs(f, r) ==
  CASE f.lang = "go" -> GoDirs(f, r)
    [] f.lang = "ts" -> TSDirs(f, r)
    [] f.lang = "sh" -> ScriptDirs(f, r)
    [] f.lang = "rb" -> RubyDirs(f, r)
    [] f.lang = "rs" -> RustDirs(r)
    [] f.lang = "jvm" -> JvmDirs(r)
    [] f.lang = "cs" -> CsDirs(r)
    [] f.lang = "c" -> HeaderDirs(r)
    [] f.lang = "md" -> LinkDirs(r)
Analyzed(f) == IF f.lang = "py" THEN PyDirs(f) ELSE UNION {Dirs(f, r) : r \in RefsOf(f)}

------------------------------------------------------------------------------

\* DependencyDirsForFile.
DirsOf(f) ==
  {f.dir} \cup (CASE f.lang = "ts" -> {PathOf(f)}
                  [] f.lang = "py" -> {Drop(f.dir, i) : i \in Roots(f.dir)}
                  [] OTHER -> {})
Direct(dirs) == {f \in project.files : stored[f] \cap dirs # {}}
Transitive(g) ==
  (UNION {Direct(DirsOf(f)) : f \in Direct(DirsOf(g))}) \ (Direct(DirsOf(g)) \cup {g})

\* A budget: nothing asked means the default, more than the cap the cap; the
\* command line on a local index has no cap.
Budget(asks, default, cap) ==
  IF asks = 0 THEN default ELSE IF query.local \/ asks <= cap THEN asks ELSE cap
ImpactBudget == IF query.depth = 0 THEN ImpactDepth ELSE IF query.depth > ImpactCap THEN ImpactCap ELSE query.depth
PathBudget == Budget(query.depth, PathDepth, PathCap)
WalkBudget == Budget(query.depth, WalkDepth, WalkCap)
EdgeBudget == IF query.limit = 0 THEN MaxEdges ELSE query.limit

\* graph.Build: a file leads to what it imports, a directory to its files;
\* the root directory is no node.
FileNode(f) == [kind |-> "file", file |-> f, dir |-> f.dir]
DirNode(d) == [kind |-> "package", file |-> "none", dir |-> d]
\* resolveSeeds: a question is about a file of the project or a package; 0 is no depth or limit given.
ASSUME QueriesAreSound ==
  \A p \in Codebases : \A q \in Queries(p) :
    /\ q.kind \in {"callers", "impact"} => q.file \in p.files
    /\ q.kind = "impact" => q.depth \in Nat
    /\ q.kind \in {"path", "walk"} =>
         /\ q.from \in {FileNode(f) : f \in p.files} \/ (q.from = DirNode(q.from.dir) /\ q.from.dir # <<>>)
         /\ q.depth \in Nat /\ q.both \in BOOLEAN
    /\ q.kind = "walk" => q.limit \in Nat

\* neighborsDirected and reversePackageEdges.
Onward(n) ==
  IF n.kind = "file" THEN {DirNode(d) : d \in stored[n.file] \ {<<>>}}
  ELSE {FileNode(f) : f \in {g \in project.files : g.dir = n.dir}}
Backward(n) ==
  IF n.kind = "file" THEN {DirNode(d) : d \in {n.dir} \ {<<>>}}
  ELSE {FileNode(f) : f \in {g \in project.files : n.dir \in stored[g]}}
Adjacent(n, both) == Onward(n) \cup (IF both THEN Backward(n) ELSE {})

------------------------------------------------------------------------------
Ask(p, q) ==
  /\ project = p /\ query = q /\ asked = "new"
  /\ stored = [f \in p.files |-> Analyzed(f)]
  /\ queue = <<>> /\ found = <<>> /\ edges = {} /\ either = FALSE /\ visits = 0
  /\ cut = FALSE /\ answer = <<>>

Answer(what) == asked' = "answered" /\ answer' = what
Given == UNCHANGED <<project, stored, query>>

\* Callers.
AskCallers ==
  /\ asked = "new" /\ query.kind = "callers"
  /\ Answer([direct |-> Direct(DirsOf(query.file)), transitive |-> Transitive(query.file)])
  /\ Given /\ UNCHANGED <<queue, found, edges, either, visits, cut>>

\* deadcode.Analyze: a file is dead if nothing imports its directory itself.
AskDead ==
  /\ asked = "new" /\ query.kind = "dead"
  /\ Answer([dead |-> {f \in project.files : f.lang # "md" /\ Direct({f.dir}) = {}}])
  /\ Given /\ UNCHANGED <<queue, found, edges, either, visits, cut>>

\* reverseDependencyClosureForDirs: one level.
AskImpact ==
  /\ asked = "new" /\ query.kind = "impact"
  /\ asked' = "open" /\ queue' = <<DirsOf(query.file)>>
  /\ Given /\ UNCHANGED <<found, edges, either, visits, cut, answer>>

\* Mutant of Affected: a file is affected again at every level it is met.
AffectedAgain == Direct(Last(queue)) \ {query.file}

Affected == (Direct(Last(queue)) \ {query.file}) \ DOMAIN found
ExpandImpact ==
  /\ asked = "open" /\ query.kind = "impact"
  /\ IF Affected = {} \/ Len(queue) > ImpactBudget
     THEN Answer(found) /\ UNCHANGED <<queue, found>>
     ELSE /\ found' = [f \in DOMAIN found \cup Affected |-> IF f \in Affected THEN Len(queue) ELSE found[f]]
          /\ queue' = Append(queue, UNION {DirsOf(f) : f \in Affected})
          /\ UNCHANGED <<asked, answer>>
  /\ Given /\ UNCHANGED <<edges, either, visits, cut>>

\* ShortestPath: first along the arrows, then both ways if that is allowed.
Begin(n, both) ==
  /\ asked' = "open" /\ queue' = <<n>> /\ visits' = 0 /\ either' = both
  /\ found' = [m \in {n} |-> [depth |-> 0, prev |-> n]]
NoPath == [found |-> FALSE, hops |-> <<>>, directed |-> TRUE]
AskPath ==
  /\ asked = "new" /\ query.kind = "path"
  /\ IF query.from = query.to
     THEN /\ Answer([found |-> TRUE, hops |-> <<query.from>>, directed |-> TRUE])
          /\ UNCHANGED <<queue, found, visits, either>>
     ELSE Begin(query.from, FALSE) /\ UNCHANGED answer
  /\ Given /\ UNCHANGED <<edges, cut>>
GiveUp ==
  IF query.both /\ ~either THEN Begin(query.from, TRUE) /\ UNCHANGED answer
  ELSE Answer(NoPath) /\ UNCHANGED <<queue, found, visits, either>>
Hops(reached) ==
  LET back[n \in DOMAIN reached] ==
        IF reached[n].depth = 0 THEN <<n>> ELSE Append(back[reached[n].prev], n)
  IN back[query.to]
Reached(n, news) ==
  [m \in DOMAIN found \cup news |-> IF m \in news THEN [depth |-> found[n].depth + 1, prev |-> n] ELSE found[m]]
VisitsSpent == visits + 1 > MaxVisits
VisitOnPath ==
  /\ asked = "open" /\ query.kind = "path"
  /\ IF queue = <<>> THEN GiveUp /\ UNCHANGED cut
     ELSE IF VisitsSpent THEN GiveUp /\ cut' = TRUE
     ELSE LET n == Head(queue)
              news == IF found[n].depth >= PathBudget THEN {} ELSE Adjacent(n, either) \ DOMAIN found
          IN /\ IF query.to \in news
                THEN Answer([found |-> TRUE, hops |-> Hops(Reached(n, news)), directed |-> ~either])
                ELSE UNCHANGED <<asked, answer>>
             /\ queue' = Tail(queue) \o SetToSeq(news) /\ found' = Reached(n, news) /\ visits' = visits + 1
             /\ UNCHANGED <<either, cut>>
  /\ Given /\ UNCHANGED edges

\* bfsWalk: an edge beyond the limit is left out, and what it leads to too.
AskWalk ==
  /\ asked = "new" /\ query.kind = "walk"
  /\ Begin(query.from, query.both)
  /\ Given /\ UNCHANGED <<edges, cut, answer>>
EdgesAt(n) == {<<n, m, "on">> : m \in Onward(n)}
              \cup (IF either THEN {<<n, m, "back">> : m \in Backward(n)} ELSE {})
EndWalk == Answer([nodes |-> DOMAIN found, edges |-> edges]) /\ UNCHANGED <<queue, found, edges, visits>>
VisitOnWalk ==
  /\ asked = "open" /\ query.kind = "walk"
  /\ IF queue = <<>> THEN EndWalk /\ UNCHANGED cut
     ELSE IF VisitsSpent THEN EndWalk /\ cut' = TRUE
     ELSE LET n == Head(queue)
              more == IF found[n].depth >= WalkBudget THEN {} ELSE EdgesAt(n) \ edges
              room == EdgeBudget - Cardinality(edges)
              order == SetToSeq(more)
              taken == {order[i] : i \in {k \in DOMAIN order : k <= room}}
              news == {e[2] : e \in taken} \ DOMAIN found
          IN /\ edges' = edges \cup taken /\ found' = Reached(n, news)
             /\ queue' = Tail(queue) \o SetToSeq(news) /\ visits' = visits + 1
             /\ cut' = (cut \/ Len(order) > room)
             /\ UNCHANGED <<asked, answer>>
  /\ Given /\ UNCHANGED either

GraphInit == \E p \in Codebases : \E q \in Queries(p) : Ask(p, q)
GraphNext == AskCallers \/ AskDead \/ AskImpact \/ ExpandImpact \/ AskPath \/ VisitOnPath \/ AskWalk \/ VisitOnWalk
GraphSpec == GraphInit /\ [][GraphNext]_graphVars /\ WF_graphVars(GraphNext)

------------------------------------------------------------------------------
(* Properties. *)
\* The files a reference means, by the rules of its language.
IsPrefixOf(s, t) == Len(s) <= Len(t) /\ Upto(t, Len(s)) = s
IsSuffixOf(s, t) == Len(s) <= Len(t) /\ Drop(t, Len(t) - Len(s)) = s
ModulesOf(path) == {d \in DOMAIN project.modules : IsPrefixOf(project.modules[d], path)}
Declaring(path) == CHOOSE d \in ModulesOf(path) :
  \A e \in ModulesOf(path) : Len(project.modules[e]) <= Len(project.modules[d])
PyBase(f, r) == IF r.up = 0 THEN r.path ELSE Upto(f.dir, Len(f.dir) - (r.up - 1)) \o r.path
PyNamed(f, r, name) == {g \in PyFiles : IF r.up = 0 THEN name \in Aliases(g) ELSE name = Parts(g)}
PyName(f, r) ==
  IF r.name # "" /\ PyNamed(f, r, Append(PyBase(f, r), r.name)) # {}
  THEN Append(PyBase(f, r), r.name) ELSE PyBase(f, r)
Peers(f) == {g \in project.files : g.lang = f.lang}
Meant(f, r) ==
  CASE f.lang = "go" /\ ModulesOf(r.path) # {} ->
         LET d == Declaring(r.path)
         IN {g \in Peers(f) : g.dir = d \o Drop(r.path, Len(project.modules[d]))}
    [] f.lang = "ts" /\ r.how = "import" ->
         {g \in Peers(f) : PathOf(g) = Joined(f.dir, r) \/ (g.dir = Joined(f.dir, r) /\ g.stem = "index")}
    [] f.lang = "py" -> PyNamed(f, r, PyName(f, r))
    [] f.lang \in {"sh", "rb", "c", "md"} -> {g \in project.files : PathOf(g) = Joined(f.dir, r)}
    [] f.lang = "jvm" -> {g \in Peers(f) : IsSuffixOf(Upto(r.path, Len(r.path) - r.types), g.dir)}
    [] f.lang = "cs" -> {g \in Peers(f) : IsSuffixOf(r.path, g.dir)}
    [] OTHER -> {}

\* No two directories of Python files can be the same package.
Distinct == \A f, g \in PyFiles : f.dir # g.dir => DirsOf(f) \cap DirsOf(g) = {}

\* Where the extractors can see it: not the package of a module's root nor a
\* module whose name does not continue the root's, no dot import, no script or
\* header beside the root, no package below a source root, no Python module
\* that has two directories (or packages of one name) or the first name of a standard one.
Visible(f, r, g) ==
  CASE f.lang = "go" ->
         LET d == Declaring(r.path)
         IN /\ r.how = "import" /\ r.path # project.modules[d]
            /\ d \in {<<>>, ModuleDir(f)} \/ project.modules[d] = RootModule \o d
    [] f.lang = "py" -> (Distinct \/ r.up = 0) /\ PyName(f, r) # <<>> /\ PyName(f, r)[1] \notin StdModules /\ Resolved(PyName(f, r)) = {g.dir}
    [] f.lang \in {"sh", "rb"} -> r.how = "import" /\ g.dir # <<>>
    [] f.lang \in {"c", "md"} -> f.dir = <<>> /\ g.dir # <<>>
    [] f.lang = "jvm" -> g.dir = Upto(r.path, Len(r.path) - r.types)
    [] f.lang = "cs" -> g.dir = r.path
    [] OTHER -> TRUE

\* What a file refers to names it among the callers, and keeps it from being
\* reported dead, except a TypeScript file imported by its own name; a file is
\* nobody's caller that refers to nothing near, unless packages share a name.
ReferencesFound ==
  asked = "answered" =>
    /\ query.kind = "callers" =>
         /\ \A f \in project.files : \A r \in RefsOf(f) :
              query.file \in Meant(f, r) /\ Visible(f, r, query.file) => f \in answer.direct
         /\ Distinct => \A f \in answer.direct : \E r \in RefsOf(f) :
              Meant(f, r) = {} \/ \E g \in Meant(f, r) : g.dir \in DirsOf(query.file) \/ ~Visible(f, r, g)
    /\ query.kind = "dead" =>
         \A g \in answer.dead : \A f \in project.files : \A r \in RefsOf(f) :
           g \in Meant(f, r) /\ Visible(f, r, g) => g.lang = "ts" /\ g.dir # Joined(f.dir, r)

\* What one step along links leads to, and a number of steps from one file or node.
Ahead(links, S) == {l[2] : l \in {m \in links : m[1] \in S}}
Near(x, links, n) ==
  LET ring[k \in 0 .. n] == IF k = 0 THEN {x} ELSE ring[k - 1] \cup Ahead(links, ring[k - 1])
  IN ring[n]
Dependants == UNION {{<<f, g>> : g \in Direct(DirsOf(f))} : f \in project.files}
Within(n) == Near(query.file, Dependants, n) \ {query.file}
Nodes == {FileNode(f) : f \in project.files}
         \cup {DirNode(d) : d \in (UNION {{f.dir} \cup stored[f] : f \in project.files}) \ {<<>>}}
Links(both) == UNION {{<<m, n>> : n \in Adjacent(m, both)} : m \in Nodes}
Around(both, n) == Near(query.from, Links(both), n)
Walkable(hops, both) == \A i \in 1 .. (Len(hops) - 1) : hops[i + 1] \in Adjacent(hops[i], both)

\* What an answer has to be, and how it was cut.
ImpactExact(a) ==
  /\ DOMAIN a = Within(ImpactBudget)
  /\ \A f \in DOMAIN a : f \in Within(a[f]) /\ f \notin Within(a[f] - 1)
CallersExact(a) == a.direct \ {query.file} = Within(1) /\ a.transitive = Within(2) \ Within(1)
PathExact(a, c) ==
  LET n == Len(a.hops) - 1
  IN IF a.found
     THEN /\ a.hops[1] = query.from /\ Last(a.hops) = query.to /\ n <= PathBudget
          /\ Walkable(a.hops, ~a.directed) /\ (a.directed \/ query.both)
          /\ n > 0 => query.to \notin Around(~a.directed, n - 1)
          /\ c \/ a.directed \/ query.to \notin Around(FALSE, PathBudget)
     ELSE c \/ query.to \notin Around(query.both, PathBudget)
WalkExact(a, c) ==
  /\ \A e \in a.edges : {e[1], e[2]} \subseteq a.nodes
  /\ Cardinality(a.edges) <= EdgeBudget
  /\ a.nodes \subseteq Around(query.both, WalkBudget)
  /\ c \/ a.nodes = Around(query.both, WalkBudget)

\* Impact names every file that depends on the seed within the depth, at its
\* least distance, and callers are its first two levels; a path is a shortest
\* one, walked backwards only if there is none along the arrows, and none is
\* reported absent that is there; a neighbourhood is whole, all its edges lead
\* to nodes of it, or it says that it was cut.
AnswersExact ==
  asked = "answered" =>
    /\ query.kind = "impact" => ImpactExact(answer)
    /\ query.kind = "callers" => CallersExact(answer)
    /\ query.kind = "path" => PathExact(answer, cut)
    /\ query.kind = "walk" => WalkExact(answer, cut)

\* The tools answer by what the sources refer to, and no further than they say.
GraphTrue == ReferencesFound /\ AnswersExact
==============================================================================
