--------------------------------- MODULE Search ---------------------------------
(***************************************************************************)
(* One search of a project (internal/search/service.go, hybrid.go and      *)
(* staleness.go) on a store that index runs change meanwhile.  Every query *)
(* the search sends sees the store of its own moment: the two legs of a    *)
(* hybrid search, the chunks of the expanded files and the hashes that     *)
(* decide what is stale come from up to four different states, and the     *)
(* disk from a fifth.                                                      *)
(*                                                                         *)
(* A file version is a (path, hash) pair and has one chunk.  The model of  *)
(* a request may have another dimension than the project's, and its name   *)
(* does not always tell its dimension (embed.InferDims).                   *)
(***************************************************************************)
EXTENDS GraphExpand

CONSTANTS
  Trees,       \* worktrees of the project
  Main,        \* the worktree whose directory is project.Path
  NoTree,      \* the request is not scoped
  Hashes,      \* contents of a file
  Absent,      \* there is no such file
  Tracked,     \* the paths that exist, and are indexed, at first
  Edited,      \* bound: the paths that change
  Graphs,      \* import graphs the project may have
  TopK,        \* results asked for
  Modes,       \* retrievals asked for: of {"hybrid", "vector", "keyword", "routed"}
  Models,      \* models asked for: of {"project", "other"}
  Inferred,    \* what InferDims says of the project's model: "own", "other" or "none"
  OtherTable,  \* does a chunks table of the other dimension exist?
  MaxEdits,    \* bound: changes to the worktrees
  MaxErrs      \* bound: calls that fail

ASSUME TreesAssumption == Main \in Trees /\ NoTree \notin Trees
ASSUME HashAssumption == Absent \notin Hashes /\ Hashes # {} /\ IsFiniteSet(Hashes)
ASSUME TrackedAssumption == Tracked \subseteq Paths /\ Edited \subseteq Paths
ASSUME GraphsAssumption == Graphs \subseteq SUBSET (Paths \X Paths)
ASSUME TopKAssumption == TopK \in Nat \ {0}
ASSUME ModesAssumption == Modes \subseteq {"hybrid", "vector", "keyword", "routed"}
ASSUME ModelsAssumption == Models \subseteq {"project", "other"}
ASSUME InferredAssumption == Inferred \in {"own", "other", "none"} /\ OtherTable \in BOOLEAN
ASSUME BoundsAssumption == MaxEdits \in Nat /\ MaxErrs \in Nat

Legs == {"vector", "keyword"}
Versions == Paths \X Hashes
Sources == {"vector", "keyword", "graph"}
Hits == [path : Paths, hash : Hashes \cup {Absent}, src : Sources]
Requests == [tree : Trees \cup {NoTree}, mode : Modes, model : Models, graph : BOOLEAN]
NoRequest == [tree |-> NoTree, mode |-> "none", model |-> "project", graph |-> FALSE]
Routes == {"none", "hybrid", "vector", "keyword", "fallback"}
Answers == [keyword : BOOLEAN, fallback : BOOLEAN, degraded : BOOLEAN, route : Routes]
Blank == [keyword |-> FALSE, fallback |-> FALSE, degraded |-> FALSE, route |-> "none"]
IdleLeg == [st |-> "off", ok |-> FALSE, found |-> <<>>]
Over == {"done", "failed"}

VARIABLES
  disk,      \* what each worktree has at each path
  files,     \* the stored versions of each path, the last indexed first
  manifest,  \* worktree_files: what each worktree had at its last index run
  pc, req,
  dims,      \* the dimension the search uses: "own", "other" or "none" (0)
  leg,       \* the two goroutines of hybridFuseRoute and their channels
  results,   \* the hits, best first
  infos,     \* ListFileHashesWithTime: path to hash
  stale,     \* positions of the hits that are flagged
  resp,      \* the flags of the response
  edits, errs,
  unraced    \* history: nothing has changed since the search began

storeVars == <<disk, files, manifest>>
searchVars == <<pc, req, dims, leg, results, infos, stale, resp>>
bounds == <<edits, errs>>
vars == <<graphVars, storeVars, searchVars, bounds, unraced>>

\* The entries of s that are in T, in their order.
Kept(s, T) == LET At == {i \in DOMAIN s : s[i] \in T}
                  Place(i) == Cardinality({j \in At : j <= i})
              IN [n \in 1 .. Cardinality(At) |-> s[CHOOSE i \in At : Place(i) = n]]

StoredOf(p) == {files[p][i] : i \in DOMAIN files[p]}
Stored == {v \in Versions : v[2] \in StoredOf(v[1])}
First == CHOOSE h \in Hashes : TRUE

TypeOK ==
  /\ GraphType
  /\ disk \in [Trees -> [Paths -> Hashes \cup {Absent}]]
  /\ files \in [Paths -> Seq(Hashes)]
  /\ manifest \in [Trees -> [Paths -> Hashes \cup {Absent}]]
  /\ pc \in {"idle", "model", "retrieve", "legs", "rerank", "seed", "query", "neighbours",
             "walk", "chunks", "annotate", "compare"} \cup Over
  /\ req \in Requests \cup {NoRequest}
  /\ dims \in {"own", "other", "none"}
  /\ leg \in [Legs -> [st : {"off", "query", "send", "sent"}, ok : BOOLEAN, found : Seq(Hits)]]
  /\ results \in Seq(Hits)
  /\ infos \in [Paths -> Hashes \cup {Absent}]
  /\ stale \subseteq Nat
  /\ resp \in Answers
  /\ edits \in 0 .. MaxEdits /\ errs \in 0 .. MaxErrs
  /\ unraced \in BOOLEAN

Init ==
  /\ edges \in Graphs
  /\ seeds = <<>> /\ AtRest
  /\ disk = [w \in Trees |-> [p \in Paths |-> IF p \in Tracked THEN First ELSE Absent]]
  /\ files = [p \in Paths |-> IF p \in Tracked THEN <<First>> ELSE <<>>]
  /\ manifest = disk
  /\ pc = "idle" /\ req = NoRequest
  /\ dims = "none" /\ leg = [l \in Legs |-> IdleLeg]
  /\ results = <<>> /\ infos = [p \in Paths |-> Absent]
  /\ stale = {} /\ resp = Blank
  /\ edits = 0 /\ errs = 0 /\ unraced = TRUE

------------------------------------------------------------------------------
(* The rest of the system: editors and index runs, until the search is over. *)
Disturb == pc \notin Over /\ unraced' = (pc = "idle" /\ unraced)

Edit(w, p) ==
  /\ p \in Edited /\ edits < MaxEdits /\ edits' = edits + 1
  /\ \E c \in (Hashes \cup {Absent}) \ {disk[w][p]} : disk' = [disk EXCEPT ![w][p] = c]
  /\ Disturb
  /\ UNCHANGED <<graphVars, files, manifest, searchVars, errs>>

\* An index run stores the version of a file that is not stored already
\* (FileUpToDate); the one it stored last comes first.
IndexFile(w, p) ==
  /\ disk[w][p] \notin StoredOf(p) \cup {Absent}
  /\ files' = [files EXCEPT ![p] = <<disk[w][p]>> \o @]
  /\ Disturb
  /\ UNCHANGED <<graphVars, disk, manifest, searchVars, bounds>>

\* SetWorktreeFiles, once every file of the worktree is stored.
Publish(w) ==
  /\ manifest[w] # disk[w]
  /\ \A p \in Paths : disk[w][p] \in StoredOf(p) \cup {Absent}
  /\ manifest' = [manifest EXCEPT ![w] = disk[w]]
  /\ Disturb
  /\ UNCHANGED <<graphVars, disk, files, searchVars, bounds>>

\* PruneUnreferencedFiles at the end of a run.
Referenced(p, h) == \E w \in Trees : manifest[w][p] = h
Prune ==
  /\ \E v \in Stored : ~Referenced(v[1], v[2])
  /\ files' = [p \in Paths |-> Kept(files[p], {h \in Hashes : Referenced(p, h)})]
  /\ Disturb
  /\ UNCHANGED <<graphVars, disk, manifest, searchVars, bounds>>

------------------------------------------------------------------------------
(* The queries of the store. *)
InScope(v) == req.tree = NoTree \/ manifest[req.tree][v[1]] = v[2]
Scope == {v \in Stored : InScope(v)}

\* The best TopK of a set of versions, in any order of similarity.
SmallerOf(m, n) == IF m < n THEN m ELSE n
Rankings(S) == LET n == SmallerOf(TopK, Cardinality(S))
               IN {s \in [1 .. n -> S] : \A i, j \in 1 .. n : s[i] = s[j] => i = j}
Tagged(s, source) == [i \in DOMAIN s |-> [path |-> s[i][1], hash |-> s[i][2], src |-> source]]

\* A table of another dimension holds no chunk of this project; a missing one
\* is an error, and so is dimension 0 for a vector.  Keyword search finds the
\* project's table when the dimension is 0 (resolveDims).
Table(d) == IF d = "other" THEN {} ELSE Stored
Answerable(l, d) == IF d = "other" THEN OtherTable ELSE ~(l = "vector" /\ d = "none")
VectorAnswers(d) == {Tagged(s, "vector") : s \in Rankings(Scope \cap Table(d))}
KeywordAnswers(d) == UNION {{Tagged(s, "keyword") : s \in Rankings(S)} :
                              S \in SUBSET (Scope \cap Table(d))}
AnswersOf(l, d) == IF l = "vector" THEN VectorAnswers(d) ELSE KeywordAnswers(d)

CanErr == errs < MaxErrs
Err == errs' = errs + 1

Keep == UNCHANGED <<graphVars, storeVars, edits, unraced>>
Fail == pc' = "failed" /\ results' = <<>> /\ resp' = Blank

------------------------------------------------------------------------------
(* The search. *)
Begin ==
  /\ pc = "idle" /\ req' \in Requests
  /\ \/ /\ pc' = "model" /\ UNCHANGED <<results, resp, errs>>
     \/ /\ CanErr /\ Err /\ Fail          \* resolveProject
  /\ Keep /\ UNCHANGED <<dims, leg, infos, stale>>

\* A provider that knows the model wins; otherwise the name decides.
ModelDims(m) == IF m = "project" THEN "own" ELSE "other"
InferDims(m) == IF m = "project" THEN Inferred ELSE "other"
ChooseDims ==
  /\ pc = "model" /\ pc' = "retrieve"
  /\ \/ dims' = ModelDims(req.model) /\ UNCHANGED errs
     \/ CanErr /\ Err /\ dims' = InferDims(req.model)
  /\ Keep /\ UNCHANGED <<req, leg, results, infos, stale, resp>>

\* A keyword-only request reads the table the project's chunks are in; one the
\* router sends to keywords (identifiers, paths, quotes) that of the model.
KeywordDims(m) == IF m = "keyword" THEN "own" ELSE dims

Keywords ==
  /\ pc = "retrieve" /\ req.mode \in {"keyword", "routed"}
  /\ \/ /\ Answerable("keyword", KeywordDims(req.mode))
        /\ results' \in KeywordAnswers(KeywordDims(req.mode))
        /\ resp' = [resp EXCEPT !.keyword = TRUE]
        /\ pc' = "rerank" /\ UNCHANGED errs
     \/ ~Answerable("keyword", KeywordDims(req.mode)) /\ Fail /\ UNCHANGED errs
     \/ CanErr /\ Err /\ Fail
  /\ Keep /\ UNCHANGED <<req, dims, leg, infos, stale>>

\* EmbedSingle answers: the vector leg alone, or both legs at once.
Embed ==
  /\ pc = "retrieve" /\ req.mode \in {"vector", "hybrid"}
  /\ leg' = [l \in Legs |-> IF l = "vector" \/ req.mode = "hybrid"
                            THEN [IdleLeg EXCEPT !.st = "query"] ELSE IdleLeg]
  /\ pc' = "legs"
  /\ Keep /\ UNCHANGED <<req, dims, results, infos, stale, resp, errs>>

\* It fails: a vector-only search fails with it, a hybrid one falls back to the
\* keywords.  An open breaker makes the answer degraded.
EmbedFails ==
  /\ pc = "retrieve" /\ req.mode = "vector" /\ CanErr /\ Err /\ Fail
  /\ Keep /\ UNCHANGED <<req, dims, leg, infos, stale>>

FallBack ==
  /\ pc = "retrieve" /\ req.mode = "hybrid" /\ CanErr /\ Err
  /\ \/ /\ Answerable("keyword", dims)
        /\ results' \in KeywordAnswers(dims)
        /\ \E open \in BOOLEAN :
             resp' = [resp EXCEPT !.keyword = TRUE, !.fallback = TRUE, !.degraded = open]
        /\ pc' = "rerank"
     \/ ~Answerable("keyword", dims) /\ Fail
     \/ errs + 1 < MaxErrs /\ Fail      \* the keyword search fails as well
  /\ Keep /\ UNCHANGED <<req, dims, leg, infos, stale>>

\* A leg's query, and the send on its channel, which has room for one result.
Cancelled == pc # "legs"
Query(l) ==
  /\ leg[l].st = "query"
  /\ \/ /\ Answerable(l, dims)
        /\ \E a \in AnswersOf(l, dims) :
             leg' = [leg EXCEPT ![l] = [st |-> "send", ok |-> TRUE, found |-> a]]
        /\ UNCHANGED errs
     \/ /\ ~Answerable(l, dims) \/ Cancelled
        /\ leg' = [leg EXCEPT ![l] = [st |-> "send", ok |-> FALSE, found |-> <<>>]]
        /\ UNCHANGED errs
     \/ /\ CanErr /\ Err
        /\ leg' = [leg EXCEPT ![l] = [st |-> "send", ok |-> FALSE, found |-> <<>>]]
  /\ Keep /\ UNCHANGED <<pc, req, dims, results, infos, stale, resp>>

\* Mutant of Send: the channels have no room, so a send needs its receiver.
SendUnbuffered(l) ==
  /\ leg[l].st = "send" /\ pc = "legs"
  /\ l = "vector" \/ leg["vector"].st = "sent"
  /\ leg' = [leg EXCEPT ![l].st = "sent"]
  /\ Keep /\ UNCHANGED <<pc, req, dims, results, infos, stale, resp, errs>>

Send(l) ==
  /\ leg[l].st = "send"
  /\ leg' = [leg EXCEPT ![l].st = "sent"]
  /\ Keep /\ UNCHANGED <<pc, req, dims, results, infos, stale, resp, errs>>

\* What is left of the legs once their results are taken.
Settled == [l \in Legs |-> [leg[l] EXCEPT !.found = <<>>]]
Received(l) == pc = "legs" /\ leg[l].st = "sent"

VectorLost ==
  /\ Received("vector") /\ ~leg["vector"].ok
  /\ Fail
  /\ Keep /\ UNCHANGED <<req, dims, leg, infos, stale, errs>>

VectorOnly ==
  /\ Received("vector") /\ leg["vector"].ok /\ req.mode = "vector"
  /\ results' = leg["vector"].found
  /\ pc' = "rerank"
  /\ leg' = Settled
  /\ Keep /\ UNCHANGED <<req, dims, infos, stale, resp, errs>>

\* The keyword leg failed: the vector hits alone, disclosed as such.
KeywordLost ==
  /\ Received("vector") /\ leg["vector"].ok /\ req.mode = "hybrid"
  /\ Received("keyword") /\ ~leg["keyword"].ok
  /\ results' = leg["vector"].found
  /\ resp' = [resp EXCEPT !.route = "vector"]
  /\ pc' = "rerank"
  /\ leg' = Settled
  /\ Keep /\ UNCHANGED <<req, dims, infos, stale, errs>>

\* Reciprocal rank fusion on chunk keys.  Of several entries with one key in a
\* list the last one's rank counts; those of the vector list are all kept.
\* Mutant of ChunkKey: two versions of a file are two chunks.
VersionKey(h) == <<h.path, h.hash>>

ChunkKey(h) == h.path
Rank(s, h) == LET At == {i \in DOMAIN s : ChunkKey(s[i]) = ChunkKey(h)}
              IN IF At = {} THEN 0 ELSE CHOOSE i \in At : \A j \in At : j <= i
Points(r) == IF r = 0 THEN 0 ELSE 1000000 \div (60 + r)
Bonus == 20000
Score(v, k, h) == Points(Rank(v, h)) + Points(Rank(k, h))
                    + (IF Rank(v, h) # 0 /\ Rank(k, h) # 0 THEN Bonus ELSE 0)
Candidates(v, k) == v \o Kept(k, {h \in Hits : Rank(v, h) = 0})
FusionsOf(v, k) ==
  IF v = <<>> THEN {k} ELSE IF k = <<>> THEN {v} ELSE
  LET c == Candidates(v, k)
      orders == {o \in [DOMAIN c -> DOMAIN c] :
                   /\ \A i, j \in DOMAIN c : o[i] = o[j] => i = j
                   /\ \A i, j \in DOMAIN c : i < j => Score(v, k, c[o[i]]) >= Score(v, k, c[o[j]])}
      n == SmallerOf(TopK, Len(c))
  IN {[i \in 1 .. n |-> c[o[i]]] : o \in orders}

Fuse ==
  /\ Received("vector") /\ leg["vector"].ok /\ req.mode = "hybrid"
  /\ Received("keyword") /\ leg["keyword"].ok
  /\ results' \in FusionsOf(leg["vector"].found, leg["keyword"].found)
  /\ resp' = [resp EXCEPT !.route = "hybrid"]
  /\ pc' = "rerank"
  /\ leg' = Settled
  /\ Keep /\ UNCHANGED <<req, dims, infos, stale, errs>>

\* applyRerank moves hits; the last rank decides how far a hit may lead.
Permuted(s) == {t \in [DOMAIN s -> {s[i] : i \in DOMAIN s}] :
                  \E o \in [DOMAIN s -> DOMAIN s] :
                    /\ \A i, j \in DOMAIN s : o[i] = o[j] => i = j
                    /\ \A i \in DOMAIN s : t[i] = s[o[i]]}
Rerank ==
  /\ pc = "rerank"
  /\ results' \in Permuted(results)
  /\ pc' = IF req.graph /\ results # <<>> THEN "seed" ELSE "annotate"
  /\ Keep /\ UNCHANGED <<req, dims, leg, infos, stale, resp, errs>>

------------------------------------------------------------------------------
(* Graph expansion. *)
Others == <<storeVars, req, dims, leg, infos, stale, resp, edits, unraced>>

\* collectGraphSeeds: the hits, each with the level of its score.
Seed ==
  /\ pc = "seed" /\ pc' = "query"
  /\ seeds' \in {s \in [DOMAIN results -> [path : Paths, level : 0 .. MaxLevel]] :
                  \A i \in DOMAIN results : s[i].path = results[i].path}
  /\ UNCHANGED <<edges, bfsVars, results, errs, Others>>

\* tryExpandByGraphCTE.
QueryGraph ==
  /\ pc = "query"
  /\ \E T \in Capped(CTEFiles) : T # {} /\ hops' = QueryHops(T)
  /\ pc' = "chunks"
  /\ UNCHANGED <<edges, seeds, queue, node, todo, visited, results, errs, Others>>

QueryNothing ==
  /\ pc = "query"
  /\ \/ {} \in Capped(CTEFiles) /\ UNCHANGED errs
     \/ CanErr /\ Err
  /\ pc' = "neighbours"
  /\ UNCHANGED <<graphVars, results, Others>>

\* expandByGraphGo: without edges, or on an error, the hits stay as they are.
FetchNeighbours ==
  /\ pc = "neighbours" /\ edges # {}
  /\ pc' = "walk" /\ StartWalk
  /\ UNCHANGED <<results, errs, Others>>

NoNeighbours ==
  /\ pc = "neighbours"
  /\ \/ edges = {} /\ UNCHANGED errs
     \/ CanErr /\ Err
  /\ pc' = "annotate"
  /\ UNCHANGED <<graphVars, results, Others>>

WalkGraph ==
  /\ pc = "walk" /\ Step
  /\ UNCHANGED <<pc, results, errs, Others>>

EndWalk ==
  /\ pc = "walk" /\ ~Walking
  /\ pc' = IF Found = {} THEN "annotate" ELSE "chunks"
  /\ UNCHANGED <<graphVars, results, errs, Others>>

\* fetchGraphChunks asks for the chunks of a path, whatever version they are of
\* and whatever worktree the search is scoped to; mergeGraphResults keeps the
\* first of each file and sorts by score.
ChunksOf(q) == IF dims = "own" THEN StoredOf(q) ELSE {}
GraphHit(q, h) == [path |-> q, hash |-> h, src |-> "graph"]
LevelOf(h) == IF h.src = "graph" THEN hops[h.path].level
              ELSE LET At == {i \in DOMAIN results : results[i] = h}
                   IN seeds[CHOOSE i \in At : TRUE].level
Merges(S) ==
  LET all == {results[i] : i \in DOMAIN results} \cup S
      n == Len(results) + Cardinality(S)
  IN {m \in [1 .. n -> all] :
        /\ {m[i] : i \in 1 .. n} = all
        /\ \A i \in 1 .. (n - 1) : LevelOf(m[i]) >= LevelOf(m[i + 1])}

FetchChunks ==
  /\ pc = "chunks" /\ pc' = "annotate"
  /\ \E unread \in SUBSET Found :
       /\ \/ unread = {} /\ UNCHANGED errs
          \/ unread # {} /\ CanErr /\ Err
       /\ \E pick \in [Found -> Hashes \cup {Absent}] :
            /\ \A q \in Found : IF q \in unread \/ ChunksOf(q) = {}
                                THEN pick[q] = Absent ELSE pick[q] \in ChunksOf(q)
            /\ results' \in Merges({GraphHit(q, pick[q]) : q \in Found})
  /\ UNCHANGED <<graphVars, Others>>

------------------------------------------------------------------------------
(* Staleness. *)
Keep2 == UNCHANGED <<graphVars, storeVars, edits, unraced, req, dims, leg, results>>

Route == IF resp.fallback THEN "fallback"
         ELSE IF resp.route # "none" THEN resp.route
         ELSE IF req.mode = "routed" THEN "keyword" ELSE req.mode

\* The hash of a path is that of its version indexed last.
Newest(p) == IF files[p] = <<>> THEN Absent ELSE Head(files[p])
Annotate ==
  /\ pc = "annotate" /\ results # <<>>
  /\ infos' = [p \in Paths |-> Newest(p)]
  /\ pc' = "compare"
  /\ Keep2 /\ UNCHANGED <<stale, resp, errs>>

AnnotateNothing ==
  /\ pc = "annotate"
  /\ \/ results = <<>> /\ UNCHANGED errs
     \/ results # <<>> /\ CanErr /\ Err
  /\ resp' = [resp EXCEPT !.route = Route]
  /\ pc' = "done"
  /\ Keep2 /\ UNCHANGED <<infos, stale>>

\* Mutant of Root: always the directory of the project.
MainRoot == Main

\* The files are hashed in the caller's worktree, or else in project.Path.
Root == IF req.tree = NoTree THEN Main ELSE req.tree
Compare ==
  /\ pc = "compare"
  /\ stale' = {i \in DOMAIN results :
                 LET p == results[i].path
                 IN /\ disk[Root][p] # Absent /\ infos[p] # Absent
                    /\ disk[Root][p] # infos[p]}
  /\ resp' = [resp EXCEPT !.route = Route]
  /\ pc' = "done"
  /\ Keep2 /\ UNCHANGED <<infos, errs>>

------------------------------------------------------------------------------
Searching ==
  \/ ChooseDims \/ Keywords \/ Embed \/ EmbedFails \/ FallBack
  \/ VectorLost \/ VectorOnly \/ KeywordLost \/ Fuse \/ Rerank
  \/ Seed \/ QueryGraph \/ QueryNothing \/ FetchNeighbours \/ NoNeighbours
  \/ WalkGraph \/ EndWalk \/ FetchChunks
  \/ Annotate \/ AnnotateNothing \/ Compare
Retrieving(l) == Query(l) \/ Send(l)
Indexing ==
  \/ \E w \in Trees : Publish(w) \/ \E p \in Paths : Edit(w, p) \/ IndexFile(w, p)
  \/ Prune

Next == Begin \/ Searching \/ (\E l \in Legs : Retrieving(l)) \/ Indexing

\* The search is code that runs; so are its goroutines, whose queries are
\* cancelled when it returns.
Fairness == WF_vars(Searching) /\ \A l \in Legs : WF_vars(Retrieving(l))

Spec == Init /\ [][Next]_vars /\ Fairness

------------------------------------------------------------------------------
(* A search in a worktree shows each chunk once, although its legs, and the  *)
(* expansion, read the store at different moments and index runs move the    *)
(* worktree from one version of a file to another in between.                *)
OneHitPerChunk ==
  (pc = "done" /\ req.tree # NoTree) =>
    \A i, j \in DOMAIN results : results[i].path = results[j].path => i = j

(* The response says how it was found: "hybrid" only when both legs answered *)
(* (hybridFuseRoute: the caller must be able to disclose that the response   *)
(* was not truly hybrid), a fallback and a degraded answer are keyword       *)
(* answers, and those hold no vector hit.                                    *)
From(source) == \E i \in DOMAIN results : results[i].src = source
RouteDisclosed ==
  pc = "done" =>
    /\ resp.route = "hybrid" <=> \A l \in Legs : leg[l].ok
    /\ resp.route \in {"keyword", "fallback"} <=> resp.keyword
    /\ resp.route = "fallback" <=> resp.fallback
    /\ resp.degraded => resp.fallback
    /\ From("vector") => ~resp.keyword
    /\ From("keyword") => resp.route # "vector"

(* Without changes during the search, and when the store holds one version   *)
(* of a file, the flag of a hit on it is right: flagged if and only if the   *)
(* file differs from the version shown.  With several versions the hash of   *)
(* the one indexed last is compared, and a run that stores the new version   *)
(* between the query and the comparison makes an old hit look current.       *)
OneVersion(p) == Cardinality(StoredOf(p)) = 1
StaleHonest ==
  (pc = "done" /\ unraced /\ errs = 0) =>
    \A i \in DOMAIN results :
      LET h == results[i]
          now == disk[IF req.tree \in Trees THEN req.tree ELSE Main][h.path]
      IN (OneVersion(h.path) /\ h.hash # Absent /\ now # Absent) => (i \in stale <=> now # h.hash)

(* Graph expansion: whichever implementation answered, the files it adds are *)
(* linked to a hit within the depth limit, and a walk that ends without      *)
(* meeting the cap has missed nothing and agrees with the store's query.     *)
ExpansionExact ==
  /\ pc \in {"walk", "chunks"} => HopsLinked
  /\ pc = "walk" => HopsScored /\ HopsComplete

(* A search that has begun ends, and neither of its goroutines is left       *)
(* behind: not when the other leg fails first, not when both are late.       *)
EverythingEnds ==
  (pc # "idle") ~> (pc \in Over /\ \A l \in Legs : leg[l].st \notin {"query", "send"})

(* A hit on the very version that the worktree has on disk is not flagged:   *)
(* "annotateStaleness marks each result whose on-disk content no longer      *)
(* matches the hash captured at index time".  The hash of a path is that of  *)
(* the version indexed last, whichever worktree it is of.                    *)
CurrentNotStale ==
  (pc = "done" /\ unraced /\ errs = 0) =>
    \A i \in stale : disk[Root][results[i].path] # results[i].hash

(* Request.Worktree: "when set, restricts results to the file versions that  *)
(* worktree currently has checked out".  The expansion does not.             *)
ScopedToWorktree ==
  (pc = "done" /\ req.tree # NoTree /\ unraced) =>
    \A i \in DOMAIN results :
      results[i].hash # Absent => manifest[req.tree][results[i].path] = results[i].hash
==============================================================================
