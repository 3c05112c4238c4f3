------------------------------ MODULE GraphExpand ------------------------------
(***************************************************************************)
(* Graph expansion of a search (internal/search/service.go): from the      *)
(* files the search found, along import edges in both directions, to the   *)
(* files worth adding.  Two implementations answer the same question: one  *)
(* recursive query in the store, and, where that fails or finds nothing, a *)
(* breadth-first walk in the service, which is the state machine here.     *)
(*                                                                         *)
(* A score is written as its level: how many times it can still be         *)
(* multiplied by graphExpandDecay before it falls below graphExpandFloor.  *)
(* Level -1 is below the floor already.                                    *)
(***************************************************************************)
EXTENDS Integers, Sequences, FiniteSets

CONSTANTS
  Paths,       \* files of the project
  MaxLevel,    \* the level of the best score a hit can have
  MaxDepth,    \* req.GraphMaxDepth after ClampGraphDepth
  MaxPaths,    \* maxGraphExpandPaths: files one query may add
  NoHop        \* the file was not reached

ASSUME LevelAssumption == MaxLevel \in Nat
ASSUME DepthAssumption == MaxDepth \in Nat \ {0}
ASSUME CapAssumption == MaxPaths \in Nat
ASSUME PathsAssumption == IsFiniteSet(Paths) /\ Paths # {}

Levels == -1 .. MaxLevel
Hops == [level : 0 .. MaxLevel, depth : 1 .. MaxDepth]
ASSUME NoHopAssumption == NoHop \notin Hops
Seeds == [path : Paths, level : Levels]
Nodes == [path : Paths, depth : 0 .. MaxDepth, level : Levels]

VARIABLES
  edges,    \* file_dependencies: <<importer, imported>> pairs
  seeds,    \* the hits of the search, each with the level of its score
  queue,    \* nodes still to be expanded
  node,     \* the node being expanded
  todo,     \* neighbours of that node still to be examined
  visited,  \* the best level each file was seen with; -2 when not seen
  hops      \* expanded: the files reached, with their level and depth

graphVars == <<edges, seeds, queue, node, todo, visited, hops>>
bfsVars == <<queue, node, todo, visited, hops>>

SeedPaths == {seeds[i].path : i \in DOMAIN seeds}
Found == {p \in Paths : hops[p] # NoHop}

\* FetchGraphNeighbors and reverseGraphEdges: imports and importers alike.
Adjacent(p, q) == <<p, q>> \in edges \/ <<q, p>> \in edges
Neighbours(p) == {q \in Paths : Adjacent(p, q)}

GraphType ==
  /\ edges \subseteq Paths \X Paths
  /\ seeds \in Seq(Seeds)
  /\ queue \in Seq(Nodes)
  /\ node \in Nodes
  /\ todo \subseteq Paths
  /\ visited \in [Paths -> -2 .. MaxLevel]
  /\ hops \in [Paths -> Hops \cup {NoHop}]

\* No walk has been started: nothing in the queue, nothing reached.
AtRest ==
  /\ queue = <<>> /\ todo = {}
  /\ node = [path |-> CHOOSE p \in Paths : TRUE, depth |-> 0, level |-> -1]
  /\ visited = [p \in Paths |-> -2]
  /\ hops = [p \in Paths |-> NoHop]

\* Every hit is queued with its own score.  The last hit on a file says with
\* which score it was visited.
LastLevel(s, p) == LET At == {i \in DOMAIN s : s[i].path = p}
                   IN s[CHOOSE i \in At : \A j \in At : j <= i].level
StartWalk ==
  /\ queue' = [i \in DOMAIN seeds |->
                 [path |-> seeds[i].path, depth |-> 0, level |-> seeds[i].level]]
  /\ visited' = [p \in Paths |-> IF p \in SeedPaths THEN LastLevel(seeds, p) ELSE -2]
  /\ hops' = [p \in Paths |-> NoHop]
  /\ todo' = {}
  /\ UNCHANGED <<edges, seeds, node>>

\* runGraphBFS takes the next node; at the depth limit it is not expanded.
Pop ==
  /\ todo = {} /\ queue # <<>>
  /\ node' = Head(queue)
  /\ queue' = Tail(queue)
  /\ todo' = IF Head(queue).depth >= MaxDepth THEN {} ELSE Neighbours(Head(queue).path)
  /\ UNCHANGED <<edges, seeds, visited, hops>>

\* Mutant of Better: a file is visited once, whatever its score was.
Unseen(q) == node.level - 1 >= 0 /\ visited[q] = -2

\* processBFSNode: a neighbour below the floor, or seen with as good a score,
\* changes nothing.
Better(q) == node.level - 1 >= 0 /\ visited[q] < node.level - 1

Skip(q) ==
  /\ q \in todo /\ ~Better(q)
  /\ todo' = todo \ {q}
  /\ UNCHANGED <<edges, seeds, queue, node, visited, hops>>

\* Another file would exceed the cap: its score is noted, nothing else.
Refuse(q) ==
  /\ q \in todo /\ Better(q)
  /\ q \notin SeedPaths /\ Cardinality(Found) >= MaxPaths
  /\ todo' = todo \ {q}
  /\ visited' = [visited EXCEPT ![q] = node.level - 1]
  /\ UNCHANGED <<edges, seeds, queue, node, hops>>

Improves(q) == hops[q] = NoHop \/ node.level - 1 > hops[q].level

Reach(q) ==
  /\ q \in todo /\ Better(q)
  /\ q \in SeedPaths \/ Cardinality(Found) < MaxPaths
  /\ todo' = todo \ {q}
  /\ visited' = [visited EXCEPT ![q] = node.level - 1]
  /\ hops' = IF q \notin SeedPaths /\ Improves(q)
             THEN [hops EXCEPT ![q] = [level |-> node.level - 1, depth |-> node.depth + 1]]
             ELSE hops
  /\ queue' = Append(queue, [path |-> q, depth |-> node.depth + 1, level |-> node.level - 1])
  /\ UNCHANGED <<edges, seeds, node>>

Walking == queue # <<>> \/ todo # {}
Step == Pop \/ \E q \in Paths : Skip(q) \/ Refuse(q) \/ Reach(q)

------------------------------------------------------------------------------
\* What the walk should find: a walk of k edges from one file to another.
Walk(p, q, k) == \E w \in [0 .. k -> Paths] :
  w[0] = p /\ w[k] = q /\ \A i \in 0 .. (k - 1) : Adjacent(w[i], w[i + 1])

\* Seed i reaches file q with k decays of its score left over.
Leads(i, q, k) == seeds[i].level - k >= 0 /\ Walk(seeds[i].path, q, k)

\* FetchGraphPathsBFS: the least depth of every other file within the limit,
\* and hopsFromCTEPaths: the best seed's score, decayed once per step.  The
\* map's order, which is random, decides which files the cap leaves out.
Nearest(q) == {k \in 1 .. MaxDepth : \E i \in DOMAIN seeds : Walk(seeds[i].path, q, k)}
Least(S) == CHOOSE k \in S : \A j \in S : k <= j
Best == CHOOSE l \in {seeds[i].level : i \in DOMAIN seeds} :
          \A i \in DOMAIN seeds : seeds[i].level <= l
CTEFiles == {q \in Paths \ SeedPaths : Nearest(q) # {} /\ Best - Least(Nearest(q)) >= 0}
QueryHops(files) ==
  [q \in Paths |-> IF q \in files
                   THEN [level |-> Best - Least(Nearest(q)), depth |-> Least(Nearest(q))]
                   ELSE NoHop]
Capped(S) == {T \in SUBSET S : \/ T = S /\ Cardinality(S) <= MaxPaths
                               \/ Cardinality(T) = MaxPaths}

------------------------------------------------------------------------------
(* The walk on its own: any edges, any hits. *)
GraphInit ==
  /\ edges \in SUBSET (Paths \X Paths)
  /\ seeds \in Seq(Seeds)
  /\ queue = [i \in DOMAIN seeds |->
                [path |-> seeds[i].path, depth |-> 0, level |-> seeds[i].level]]
  /\ visited = [p \in Paths |-> IF p \in SeedPaths THEN LastLevel(seeds, p) ELSE -2]
  /\ hops = [p \in Paths |-> NoHop]
  /\ todo = {}
  /\ node \in Nodes

GraphSpec == GraphInit /\ [][Step]_graphVars

(* Every file the expansion adds is not a hit already and is linked to one   *)
(* by as many edges as its depth says, and the cap bounds how many a query   *)
(* may add (the DoS guard of fetchGraphChunks).                              *)
HopsLinked ==
  /\ Cardinality(Found) <= MaxPaths
  /\ \A q \in Found :
       /\ q \notin SeedPaths
       /\ \E i \in DOMAIN seeds : Walk(seeds[i].path, q, hops[q].depth)

(* The walk gives a file the score of a hit it is linked to, decayed once    *)
(* per edge.                                                                 *)
HopsScored ==
  \A q \in Found : \E i \in DOMAIN seeds :
    /\ Walk(seeds[i].path, q, hops[q].depth)
    /\ seeds[i].level = hops[q].level + hops[q].depth

(* When the walk ends without meeting the cap, it has missed nothing: each   *)
(* file within reach of a hit is there, with the best score any walk gives   *)
(* it, and the store's query finds it too, at no greater depth.              *)
HopsComplete ==
  (~Walking /\ Cardinality(Found) < MaxPaths) =>
    \A q \in Paths \ SeedPaths :
      /\ hops[q] # NoHop <=> \E i \in DOMAIN seeds, k \in 1 .. MaxDepth : Leads(i, q, k)
      /\ hops[q] # NoHop =>
           /\ \A i \in DOMAIN seeds, k \in 1 .. MaxDepth :
                Leads(i, q, k) => hops[q].level >= seeds[i].level - k
           /\ q \in CTEFiles /\ Least(Nearest(q)) <= hops[q].depth
           /\ hops[q].level <= Best - Least(Nearest(q))
================================================================================
