------------------------------ MODULE MCPipeline ------------------------------
(* One text that is chunked, one file that is extracted, one question of the *)
(* dependency graph, the calls to the embedding chain, or a watched tree.     *)
EXTENDS Chunker, Extract, DepGraph, EmbedChain, Watcher

VARIABLE part  \* which of them this behaviour is about

UpTo(n, S) == UNION {[1 .. k -> S] : k \in 1 .. n}

------------------------------------------------------------------------------
LineShapes ==
  {<<>>, <<"x">>, <<"c", "x">>, <<"x", "x", "b", "x">>, [i \in 1 .. 10 |-> "x"],
   <<"u", "v", "v", "u", "v", "v", "u", "v", "v", "u", "v", "v">>, <<"b", "x", "u", "v", "x", "x">>}
LongLine == [i \in 1 .. 13 |-> "x"]
JoinLines(ls) ==
  LET upto[i \in 1 .. Len(ls)] == IF i = 1 THEN ls[1] ELSE upto[i - 1] \o <<"n">> \o ls[i] IN upto[Len(ls)]
ChunkedTexts ==
  {t \in {JoinLines(ls) : ls \in UpTo(3, LineShapes)
                               \cup {<<<<"x">>, LongLine, <<"x">>>>, <<LongLine, <<"x">>>>}} :
     \E i \in DOMAIN t : t[i] \notin {"b", "n"}}
FoundOutlines == {{<<1, 1>>}, {<<2, 3>>}, {<<1, 3>>, <<2, 2>>}, {<<1, 2>>, <<3, 3>>}, {<<2, 2>>}}

------------------------------------------------------------------------------
AnEntry(k) == [kind |-> k, size |-> 2, holds |-> "none"]
Holds(a) == [kind |-> "nested", size |-> 2, holds |-> a]
Sized(n) == [AnEntry("text") EXCEPT !.size = n]
AnArchive(f, es) == [form |-> f, broken |-> FALSE, entries |-> es]
SomeArchives == [a \in {"none", "deep", "mid", "tar", "zip", "full", "jar", "bad", "small", "big", "fat"} |->
  CASE a = "none" -> AnArchive("zip", <<>>)
    [] a = "bad" -> [AnArchive("zip", <<>>) EXCEPT !.broken = TRUE]
    [] a = "deep" -> AnArchive("zip", <<AnEntry("text"), Holds("none")>>)
    [] a = "mid" -> AnArchive("tar", <<AnEntry("text"), Holds("deep"), AnEntry("other")>>)
    [] a = "tar" -> AnArchive("tar", <<AnEntry("dir"), AnEntry("outside"), Holds("mid"), AnEntry("torn"), AnEntry("text")>>)
    [] a = "zip" -> AnArchive("zip", <<Holds("mid"), AnEntry("unread"), AnEntry("blank"), AnEntry("text"), Holds("bad")>>)
    [] a = "full" -> AnArchive("zip", <<AnEntry("text"), AnEntry("text"), Holds("deep"), AnEntry("text"),
                                        Holds("mid"), AnEntry("text"), AnEntry("text")>>)
    [] a = "fat" -> AnArchive("tar", [i \in 1 .. 7 |-> Sized(i)])
    [] a = "big" -> AnArchive("zip", <<Sized(7), Sized(6), AnEntry("text"), Holds("deep")>>)
    [] a = "jar" -> AnArchive("jar", <<AnEntry("dir"), AnEntry("class"), AnEntry("outside"),
                                       AnEntry("badclass"), Holds("deep"), Sized(7)>>)
    [] a = "small" -> AnArchive("zip", <<AnEntry("text"), Holds("deep"), AnEntry("text")>>)]
Document(f, p, c) == [form |-> f, parts |-> p, cipher |-> c, archive |-> "none"]
SomeFiles ==
  {[Document(SomeArchives[a].form, <<>>, "none") EXCEPT !.archive = a] : a \in DOMAIN SomeArchives}
  \cup {Document("rtf", p, "none") : p \in {q \in UpTo(5, {"begin", "end", "dest", "text"}) : \A k \in DOMAIN q : Groups(q, k) >= 0}}
  \cup {Document("rst", p, "none") : p \in UpTo(3, {"text", "directive", "blank", "body"})}
  \cup {Document("lock", p, "none") : p \in UpTo(3, {"nameA", "version", "other"})}
  \cup {Document("eml", p, "none") : p \in UpTo(3, {"p", "h", "e", "o", "in:p", "in:h", "in:hp"})}
  \cup {Document(f, p, c) : f \in {"pdf", "docx"}, p \in {<<"text">>, <<"bad">>}, c \in Ciphers}
  \cup {Document("ipynb", p, "none") : p \in UpTo(2, {"code", "markdown", "output", "bad"})}
  \cup {Document(f, p, "none") : f \in {"html", "xml", "template"}, p \in UpTo(2, {"text", "hidden"})}
  \cup {Document(f, p, "none") : f \in {"odf", "pptx"}, p \in UpTo(2, {"text", "bad"})}
  \cup {Document(f, p, "none") : f \in {"raw", "text", "annotated"}, p \in UpTo(2, {"text", "legacy", "nul"})}
  \cup {Document("epub", p, "none") : p \in UpTo(2, {"text", "hidden", "unread"})}
  \cup {Document("vue", p, "none") : p \in UpTo(3, {"script", "markup", "hidden"})}
  \cup {Document("openapi", p, "none") : p \in UpTo(2, {"spec", "info", "endpoint", "note"})}
  \cup {Document("plain", <<"text">>, "none")}
EntryLimits == [f \in ArchiveForms |-> IF f = "jar" THEN 5 ELSE 6]
EntryCaps == [f \in ArchiveForms |-> 6]

------------------------------------------------------------------------------
AFile(l, d, s) == [lang |-> l, dir |-> d, stem |-> s]
Ref(f, h, u, p, n) == [by |-> f, how |-> h, up |-> u, path |-> p, name |-> n, types |-> 0]
NameRests == <<"tal", "t">> :> "al" @@ <<"r2", "r">> :> "2"

GoA == AFile("go", <<"a">>, "x")
GoB == AFile("go", <<"b">>, "x")
GoMain == AFile("go", <<>>, "main")
GoTool == AFile("go", <<"t">>, "main")
GoInTool == AFile("go", <<"t", "c">>, "x")
GoTall == AFile("go", <<"t", "al">>, "x")
GoFiles == {GoA, GoB, GoMain, GoTool, GoInTool, GoTall}
GoModules == {<<>> :> <<"r">>, <<>> :> <<"r">> @@ <<"t">> :> <<"r", "t">>, <<>> :> <<"r">> @@ <<"t">> :> <<"o">>}
GoPaths == {<<"r">>, <<"r", "a">>, <<"r", "t", "c">>, <<"r", "tal">>, <<"r2", "a">>, <<"o", "c">>}
GoProjects ==
  {[files |-> GoFiles, modules |-> mods,
    refs |-> <<Ref(f, h, 0, p, ""), Ref(GoB, "import", 0, <<"r", "a">>, "")>>] :
     mods \in GoModules, f \in {GoMain, GoInTool}, h \in {"import", "dot"}, p \in GoPaths}
GoChain ==
  [files |-> GoFiles, modules |-> <<>> :> <<"r">>,
   refs |-> <<Ref(GoMain, "import", 0, <<"r", "a">>, ""), Ref(GoA, "import", 0, <<"r", "b">>, ""),
              Ref(GoB, "import", 0, <<"r", "t", "c">>, ""), Ref(GoInTool, "import", 0, <<"r", "a">>, ""),
              Ref(GoTool, "import", 0, <<"r", "t", "c">>, ""), Ref(GoTool, "import", 0, <<"r", "t">>, "")>>]

PageX == AFile("ts", <<"p">>, "x")
PageY == AFile("ts", <<"p">>, "y")
PageIndex == AFile("ts", <<"p", "q">>, "index")
WebMain == AFile("ts", <<>>, "w")
WebFiles == {PageX, PageY, PageIndex, WebMain}
WebProjects ==
  {[files |-> WebFiles, modules |-> <<>>, refs |-> <<Ref(f, h, u, p, ""), Ref(PageX, "import", 0, <<"y">>, "")>>] :
     f \in {PageX, PageIndex}, h \in {"import", "alias"}, u \in 0 .. 1,
     p \in {<<"x">>, <<"q">>, <<"p", "x">>, <<"w">>}}
WebRing ==
  [files |-> WebFiles, modules |-> <<>>,
   refs |-> <<Ref(PageX, "import", 0, <<"y">>, ""), Ref(PageY, "import", 0, <<"q">>, ""),
              Ref(WebMain, "import", 0, <<"p", "x">>, ""), Ref(PageIndex, "import", 0, <<>>, "")>>]

PyA == AFile("py", <<"src", "k">>, "a")
PyInit == AFile("py", <<"src", "k">>, "__init__")
PyB == AFile("py", <<"k">>, "b")
PyOs == AFile("py", <<"j">>, "os")
PyD == AFile("py", <<"j">>, "d")
PyProjects ==
  {[files |-> {PyA, PyInit, PyOs, PyD} \cup more, modules |-> <<>>,
    refs |-> <<Ref(f, "import", u, p, n), Ref(f, "import", 0, <<"j", "d">>, "")>>] :
     more \in {{}, {PyB}}, f \in {PyA, PyD}, u \in 0 .. 2, p \in {<<>>, <<"k">>, <<"j">>}, n \in {"", "a", "os"}}

OtherFiles ==
  {AFile("sh", <<"s">>, "x"), AFile("sh", <<"s">>, "y"), AFile("rb", <<>>, "r"), AFile("jvm", <<"c", "f">>, "J"),
   AFile("jvm", <<"src", "c", "f">>, "K"), AFile("rs", <<"c">>, "l"), AFile("cs", <<"c", "f">>, "N"),
   AFile("c", <<>>, "h"), AFile("md", <<"s">>, "m")}
OtherProjects ==
  {[files |-> OtherFiles, modules |-> <<>>, refs |-> <<[Ref(f, "import", u, p, "") EXCEPT !.types = n]>>] :
     f \in OtherFiles, u \in 0 .. 1, p \in {<<"x">>, <<"s", "y">>, <<"c", "f", "J">>}, n \in 0 .. 1}

Walked == {GoChain, WebRing}
AnalyzedProjects == GoProjects \cup WebProjects \cup PyProjects \cup OtherProjects \cup Walked
AskedOf(p) ==
  {[kind |-> "dead"]} \cup {[kind |-> "callers", file |-> f] : f \in p.files}
  \cup (IF p \notin Walked THEN {}
        ELSE {[kind |-> "impact", file |-> f, depth |-> d] : f \in p.files, d \in {0, 1, 4}}
             \cup {[kind |-> "path", from |-> FileNode(f), to |-> FileNode(g), both |-> i, local |-> j, depth |-> d] :
                     f \in p.files, g \in p.files, i \in BOOLEAN, j \in BOOLEAN, d \in {0, 5}}
             \cup {[kind |-> "walk", from |-> FileNode(f), both |-> i, local |-> j, depth |-> d, limit |-> e] :
                     f \in p.files, i \in BOOLEAN, j \in BOOLEAN, d \in {0, 4}, e \in {0, 2}})

------------------------------------------------------------------------------
NoChunking ==
  /\ text = <<>> /\ stage = "off" /\ next = 0 /\ last = 0 /\ source = "file" /\ pend = NonePending
  /\ left = <<>> /\ lastLine = 0 /\ pos = 0 /\ line = 0 /\ chunks = <<>>
NoExtraction == file = Document("plain", <<>>, "none") /\ status = "off" /\ frames = <<>> /\ units = <<>> /\ guesses = <<>>
NoQuestion ==
  /\ project = <<>> /\ stored = <<>> /\ query = <<>> /\ asked = "off" /\ queue = <<>> /\ found = <<>>
  /\ edges = {} /\ either = FALSE /\ visits = 0 /\ cut = FALSE /\ answer = <<>>

NoContent == NoChunking /\ NoExtraction /\ NoQuestion
contentVars == <<chunkerVars, extractVars, graphVars>>

\* A watcher at rest, which has nothing to do.
AtRest ==
  /\ inWorktree = FALSE /\ disk = [p \in Paths |-> Absent] /\ made = FALSE
  /\ watchRoot = TRUE /\ watchSub = FALSE /\ events = <<>> /\ armed = {}
  /\ task = [t \in Tasks |-> Idle] /\ rows = {} /\ manifest = [p \in Paths |-> NoVersion]
  /\ changes = 0 /\ missed = {} /\ raced = {}

PipelineInit ==
  /\ Init
  /\ \/ part = "content" /\ ChunkInit /\ NoExtraction /\ NoQuestion /\ AtRest
     \/ part = "content" /\ NoChunking /\ ExtractInit /\ NoQuestion /\ AtRest
     \/ part = "content" /\ NoChunking /\ NoExtraction /\ GraphInit /\ AtRest
     \/ part = "chain" /\ NoContent /\ AtRest
     \/ part = "watch" /\ NoContent /\ WatchInit

PipelineNext ==
  /\ UNCHANGED part
  /\ \/ /\ part = "content" /\ UNCHANGED <<vars, watchVars>>
        /\ \/ ChunkStep /\ UNCHANGED <<extractVars, graphVars>>
           \/ ExtractNext /\ UNCHANGED <<chunkerVars, graphVars>>
           \/ GraphNext /\ UNCHANGED <<chunkerVars, extractVars>>
     \/ part = "chain" /\ Next /\ UNCHANGED <<contentVars, watchVars>>
     \/ part = "watch" /\ WatchNext /\ UNCHANGED <<contentVars, vars>>

\* In a part of its own the fairness of the others asks for nothing: their actions are disabled.
PipelineSpec ==
  /\ PipelineInit /\ [][PipelineNext]_<<part, contentVars, vars, watchVars>>
  /\ Fairness /\ WatchFairness
==============================================================================
