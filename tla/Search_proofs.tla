------------------------------ MODULE Search_proofs ------------------------------
(***************************************************************************)
(* Proofs about Search and the graph expansion it contains, for any        *)
(* worktrees, contents, import graph, number of results and limits, and    *)
(* whatever index runs, edits and failures fall into a search.             *)
(*                                                                         *)
(* The walk takes its nodes in the order of their depth.  While it is at   *)
(* depth d, every file within d edges of a hit has been seen with as good  *)
(* a score, and what was seen is in the queue or has been expanded.        *)
(*                                                                         *)
(* The last part is about ToolCalls: every target handed to the index was  *)
(* given by the caller or stands for a project its reference was looked up *)
(* as, and one row that comes or goes leaves identities to one project.    *)
(***************************************************************************)
EXTENDS Search, ToolCalls, FiniteSetTheorems, WellFoundedInduction, TLAPS

(***************************************************************************)
(* Numbers and sequences.                                                  *)
(***************************************************************************)
LEMMA LeastNumber ==
  ASSUME NEW S \in SUBSET Nat, S # {}
  PROVE  \E k \in S : \A j \in S : k <= j
  <1> DEFINE R == OpToRel(<, Nat)
  <1>1. IsWellFoundedOn(R, Nat)
    BY NatLessThanWellFounded
  <1>2. \A x, y \in Nat : y < x => <<y, x>> \in R
    <2> SUFFICES ASSUME NEW x \in Nat, NEW y \in Nat, y < x PROVE <<y, x>> \in R
      OBVIOUS
    <2> DEFINE t == <<y, x>>
    <2>1. t \in Nat \X Nat /\ t[1] < t[2]
      OBVIOUS
    <2>2. QED
      BY <2>1, Zenon DEF OpToRel
  <1> HIDE DEF R
  <1>3. PICK x \in S : \A y \in S : ~ (<<y, x>> \in R)
    BY <1>1, WFMin
  <1>4. ASSUME NEW y \in S PROVE x <= y
    <2>1. x \in Nat /\ y \in Nat
      OBVIOUS
    <2>2. ~ (y < x)
      BY <1>2, <1>3, <2>1, Zenon
    <2>3. QED
      BY <2>1, <2>2
  <1>5. QED
    BY <1>4

LEMMA GreatestNumber ==
  ASSUME NEW n \in Nat, NEW S \in SUBSET (-1 .. n), S # {}
  PROVE  \E k \in S : \A j \in S : j <= k
  <1> DEFINE T == {i \in Nat : n - i \in S}
  <1>1. ASSUME NEW j \in S PROVE n - j \in T /\ j \in Int
    <2>1. j \in -1 .. n /\ n - (n - j) = j
      OBVIOUS
    <2>2. QED
      BY <2>1
  <1>2. PICK i \in T : \A j \in T : i <= j
    BY <1>1, LeastNumber
  <1>3. ASSUME NEW j \in S PROVE j <= n - i
    <2>1. i <= n - j /\ i \in Nat
      BY <1>1, <1>2
    <2>2. QED
      BY <1>1, <2>1
  <1>4. n - i \in S
    BY <1>2
  <1>5. QED
    BY <1>3, <1>4

(***************************************************************************)
(* Walks in a graph E of imports.                                          *)
(***************************************************************************)
Linked(E, p, q) == <<p, q>> \in E \/ <<q, p>> \in E
Within(E, p, q, k) == \E w \in [0 .. k -> Paths] :
  w[0] = p /\ w[k] = q /\ \A i \in 0 .. (k - 1) : Linked(E, w[i], w[i + 1])

LEMMA WalkIsWithin == \A p, q, k : Walk(p, q, k) <=> Within(edges, p, q, k)
  BY DEF Walk, Within, Adjacent, Linked

LEMMA WithinZero ==
  ASSUME NEW E, NEW p \in Paths, NEW q
  PROVE  Within(E, p, q, 0) <=> q = p
  <1>1. ASSUME q = p PROVE Within(E, p, q, 0)
    <2> DEFINE w == [i \in 0 .. 0 |-> p]
    <2>1. w \in [0 .. 0 -> Paths] /\ w[0] = p /\ \A i \in 0 .. (0 - 1) : Linked(E, w[i], w[i + 1])
      OBVIOUS
    <2>2. QED
      BY <1>1, <2>1 DEF Within
  <1>2. QED
    BY <1>1 DEF Within

LEMMA WithinMore ==
  ASSUME NEW E, NEW p, NEW q, NEW r \in Paths, NEW k \in Nat, Within(E, p, q, k), Linked(E, q, r)
  PROVE  Within(E, p, r, k + 1)
  <1>1. PICK w \in [0 .. k -> Paths] :
          w[0] = p /\ w[k] = q /\ \A i \in 0 .. (k - 1) : Linked(E, w[i], w[i + 1])
    BY DEF Within
  <1> DEFINE v == [i \in 0 .. k + 1 |-> IF i = k + 1 THEN r ELSE w[i]]
  <1>2. v \in [0 .. k + 1 -> Paths] /\ v[0] = p /\ v[k + 1] = r
    BY <1>1
  <1>3. ASSUME NEW i \in 0 .. (k + 1 - 1) PROVE Linked(E, v[i], v[i + 1])
    <2>1. CASE i = k
      BY <1>1, <2>1
    <2>2. CASE i # k
      <3>1. i \in 0 .. (k - 1) /\ v[i] = w[i] /\ v[i + 1] = w[i + 1]
        BY <2>2
      <3>2. QED
        BY <1>1, <3>1
    <2>3. QED
      BY <2>1, <2>2
  <1> HIDE DEF v
  <1>4. QED
    BY <1>2, <1>3 DEF Within

LEMMA WithinLess ==
  ASSUME NEW E, NEW p, NEW r, NEW k \in Nat, Within(E, p, r, k + 1)
  PROVE  \E q \in Paths : Within(E, p, q, k) /\ Linked(E, q, r) /\ r \in Paths
  <1>1. PICK w \in [0 .. k + 1 -> Paths] :
          w[0] = p /\ w[k + 1] = r /\ \A i \in 0 .. (k + 1 - 1) : Linked(E, w[i], w[i + 1])
    BY DEF Within
  <1> DEFINE v == [i \in 0 .. k |-> w[i]]
  <1>2. v \in [0 .. k -> Paths] /\ v[0] = p /\ v[k] = w[k]
    BY <1>1
  <1>3. ASSUME NEW i \in 0 .. (k - 1) PROVE Linked(E, v[i], v[i + 1])
    <2>1. i \in 0 .. (k + 1 - 1) /\ v[i] = w[i] /\ v[i + 1] = w[i + 1]
      OBVIOUS
    <2>2. QED
      BY <1>1, <2>1
  <1>4. Linked(E, w[k], r) /\ w[k] \in Paths /\ r \in Paths
    BY <1>1
  <1> HIDE DEF v
  <1>5. QED
    BY <1>2, <1>3, <1>4 DEF Within

(***************************************************************************)
(* The walk.                                                               *)
(***************************************************************************)

(* Where a score of level l at depth d of file p comes from. *)
Scored(p, d, l) == \E i \in DOMAIN seeds : Within(edges, seeds[i].path, p, d) /\ seeds[i].level = l + d

(* The queue is in the order of depth. *)
Sorted ==
  /\ \A j \in DOMAIN queue : queue[j].depth \in {node.depth, node.depth + 1}
  /\ \A j, k \in DOMAIN queue : j < k => queue[j].depth <= queue[k].depth
  /\ todo # {} => node.depth < MaxDepth

(* Everything that was seen is linked to a hit of that score. *)
Sound ==
  /\ \A j \in DOMAIN queue : Scored(queue[j].path, queue[j].depth, queue[j].level)
  /\ todo # {} => Scored(node.path, node.depth, node.level)
  /\ \A q \in todo : Linked(edges, node.path, q)
  /\ \A q \in Found : q \notin SeedPaths /\ Scored(q, hops[q].depth, hops[q].level)
  /\ Cardinality(Found) <= MaxPaths

(* Below the cap a file's best level is the one it is reached with. *)
Noted ==
  Cardinality(Found) < MaxPaths =>
    \A q \in Paths \ SeedPaths :
      IF hops[q] = NoHop THEN visited[q] = -2 ELSE visited[q] = hops[q].level

(* File q is to be expanded with level v or better by a node of depth d at most, or has been. *)
Queued(q, v, d) == \E j \in DOMAIN queue : queue[j].path = q /\ queue[j].level >= v /\ queue[j].depth <= d
Spread(q, v) ==
  \A t \in Paths : Linked(edges, q, t) =>
    \/ v - 1 < 0 \/ visited[t] >= v - 1
    \/ node.path = q /\ node.level >= v /\ t \in todo
Opened(q, v, d) == Queued(q, v, d) \/ Spread(q, v)

(* Seed i reaches q with level l after k edges. *)
Brings(i, q, k, l) == Within(edges, seeds[i].path, q, k) /\ l = seeds[i].level - k /\ l >= 0

(* Below the cap, nothing up to the depth of the walk has been missed. *)
Thorough ==
  Cardinality(Found) < MaxPaths =>
    \A q \in Paths, d \in Nat, l \in Nat : node.depth = d =>
      /\ \A i \in DOMAIN seeds, k \in 1 .. d : Brings(i, q, k, l) => visited[q] >= l
      /\ d < MaxDepth =>
           /\ \A i \in DOMAIN seeds : Brings(i, q, d, l) => Opened(q, l, d)
           /\ visited[q] = l => Opened(q, l, d + 1)

WalkInv == Sorted /\ Sound /\ Noted /\ Thorough

LEMMA FoundFinite == IsFiniteSet(Found) /\ Cardinality(Found) \in Nat
  <1>1. Found \subseteq Paths
    BY DEF Found
  <1>2. QED
    BY <1>1, FS_Subset, FS_CardinalityType, PathsAssumption

LEMMA LastLevelIsSeed ==
  ASSUME GraphType, NEW p \in SeedPaths
  PROVE  \E i \in DOMAIN seeds : seeds[i].path = p /\ LastLevel(seeds, p) = seeds[i].level
  <1> DEFINE At == {i \in DOMAIN seeds : seeds[i].path = p}
  <1>1. Len(seeds) \in Nat /\ DOMAIN seeds = 1 .. Len(seeds)
    BY DEF GraphType
  <1>2. At \in SUBSET (-1 .. Len(seeds)) /\ At # {}
    BY <1>1 DEF SeedPaths
  <1>3. \E i \in At : \A j \in At : j <= i
    BY <1>1, <1>2, GreatestNumber
  <1> DEFINE last == CHOOSE i \in At : \A j \in At : j <= i
  <1>4. last \in At /\ LastLevel(seeds, p) = seeds[last].level
    BY <1>3, Zenon DEF LastLevel
  <1> HIDE DEF last
  <1>5. QED
    BY <1>4

LEMMA NodeTypes ==
  ASSUME NEW n \in Nodes
  PROVE  n.path \in Paths /\ n.depth \in 0 .. MaxDepth /\ n.depth \in Nat /\ n.level \in -1 .. MaxLevel /\ n.level \in Int
  BY DepthAssumption, LevelAssumption DEF Nodes, Levels

LEMMA QueueNodes ==
  ASSUME GraphType
  PROVE  node \in Nodes /\ \A j \in DOMAIN queue : queue[j] \in Nodes
  BY DEF GraphType

LEMMA PopFacts ==
  ASSUME GraphType, Pop
  PROVE  /\ todo = {} /\ queue # <<>> /\ node' = queue[1] /\ node' \in Nodes
         /\ Len(queue) \in Nat \ {0} /\ queue' \in Seq(Nodes)
         /\ DOMAIN queue = 1 .. Len(queue) /\ DOMAIN queue' = 1 .. Len(queue) - 1
         /\ \A j \in DOMAIN queue' : j + 1 \in DOMAIN queue /\ queue'[j] = queue[j + 1]
         /\ todo' = IF node'.depth >= MaxDepth THEN {} ELSE {t \in Paths : Linked(edges, node'.path, t)}
         /\ UNCHANGED <<edges, seeds, visited, hops>>
  BY DEF GraphType, Pop, Neighbours, Adjacent, Linked

\* What reaching a file changes.
LEMMA ReachFacts ==
  ASSUME GraphType, Sorted, NEW q \in Paths, Reach(q)
  PROVE  /\ node.level - 1 \in 0 .. MaxLevel /\ node.depth + 1 \in 1 .. MaxDepth
         /\ visited[q] < node.level - 1
         /\ visited' = [visited EXCEPT ![q] = node.level - 1]
         /\ DOMAIN queue = 1 .. Len(queue) /\ Len(queue) \in Nat
         /\ queue' \in Seq(Nodes) /\ DOMAIN queue' = 1 .. Len(queue) + 1
         /\ \A j \in DOMAIN queue : queue'[j] = queue[j]
         /\ LET n == queue'[Len(queue) + 1]
            IN n.path = q /\ n.depth = node.depth + 1 /\ n.level = node.level - 1
  <1> DEFINE n == [path |-> q, depth |-> node.depth + 1, level |-> node.level - 1]
  <1>1. /\ node \in Nodes /\ node.depth \in 0 .. MaxDepth /\ node.level \in Levels
        /\ MaxDepth \in Nat /\ MaxLevel \in Nat
    BY LevelAssumption, DepthAssumption DEF GraphType, Nodes
  <1>2. node.depth < MaxDepth /\ node.level - 1 >= 0 /\ visited[q] < node.level - 1
    BY DEF Reach, Better, Sorted
  <1>3. node.level - 1 \in 0 .. MaxLevel /\ node.depth + 1 \in 1 .. MaxDepth
    BY <1>1, <1>2 DEF Levels
  <1>4. n \in Nodes /\ n.path = q /\ n.depth = node.depth + 1 /\ n.level = node.level - 1
    BY <1>1, <1>3 DEF Nodes, Levels
  <1>5. queue \in Seq(Nodes) /\ queue' = Append(queue, n)
    BY DEF GraphType, Reach
  <1> HIDE DEF n
  <1>6. QED
    BY <1>2, <1>3, <1>4, <1>5 DEF Reach

LEMMA ReachHops ==
  ASSUME GraphType, Sorted, NEW q \in Paths, Reach(q)
  PROVE  /\ hops' \in [Paths -> Hops \cup {NoHop}]
         /\ \A p \in Paths : p # q => hops'[p] = hops[p]
         /\ q \in SeedPaths => hops' = hops
         /\ q \notin SeedPaths => hops'[q] # NoHop /\
              \/ hops'[q] = hops[q] /\ ~(node.level - 1 > hops[q].level)
              \/ hops'[q].level = node.level - 1 /\ hops'[q].depth = node.depth + 1
  <1> DEFINE h == [level |-> node.level - 1, depth |-> node.depth + 1]
  <1>1. hops \in [Paths -> Hops \cup {NoHop}]
    BY DEF GraphType
  <1>2. h \in Hops /\ h.level = node.level - 1 /\ h.depth = node.depth + 1
    BY ReachFacts DEF Hops
  <1>3. h # NoHop
    BY <1>2, NoHopAssumption
  <1>4. hops' = IF q \notin SeedPaths /\ Improves(q) THEN [hops EXCEPT ![q] = h] ELSE hops
    BY DEF Reach
  <1> HIDE DEF h
  <1>5. CASE q \notin SeedPaths /\ Improves(q)
    BY <1>1, <1>2, <1>3, <1>4, <1>5
  <1>6. CASE q \notin SeedPaths /\ ~Improves(q)
    BY <1>1, <1>4, <1>6 DEF Improves
  <1>7. CASE q \in SeedPaths
    BY <1>1, <1>4, <1>7
  <1>8. QED
    BY <1>5, <1>6, <1>7

LEMMA StepType == ASSUME GraphType, Sorted, Step PROVE GraphType'
  <1>1. CASE Pop
    <2>1. todo' \subseteq Paths
      BY <1>1, PopFacts
    <2>2. QED
      BY <1>1, <2>1, PopFacts DEF GraphType
  <1>2. ASSUME NEW q \in Paths, Skip(q) PROVE GraphType'
    BY <1>2 DEF Skip, GraphType
  <1>3. ASSUME NEW q \in Paths, Refuse(q) PROVE GraphType'
    <2>1. node.level - 1 \in -2 .. MaxLevel
      <3>1. node.level \in -1 .. MaxLevel
        BY NodeTypes, QueueNodes
      <3>2. QED
        BY <3>1, LevelAssumption
    <2>2. visited' \in [Paths -> -2 .. MaxLevel]
      BY <1>3, <2>1 DEF Refuse, GraphType
    <2>3. QED
      BY <1>3, <2>2 DEF Refuse, GraphType
  <1>4. ASSUME NEW q \in Paths, Reach(q) PROVE GraphType'
    <2>1. visited' \in [Paths -> -2 .. MaxLevel]
      BY <1>4, ReachFacts, LevelAssumption DEF GraphType
    <2>2. hops' \in [Paths -> Hops \cup {NoHop}] /\ queue' \in Seq(Nodes)
      BY <1>4, ReachHops, ReachFacts
    <2>3. QED
      BY <1>4, <2>1, <2>2 DEF Reach, GraphType
  <1>5. QED
    BY <1>1, <1>2, <1>3, <1>4 DEF Step

LEMMA StepSorted == ASSUME GraphType, Sorted, Step PROVE Sorted'
  <1>1. CASE Pop
    <2>1. node'.depth \in 0 .. MaxDepth /\ MaxDepth \in Nat
      BY <1>1, PopFacts, DepthAssumption DEF Nodes
    <2>2. todo' # {} => node'.depth < MaxDepth
      BY <1>1, <2>1, PopFacts
    <2>3. \A j \in DOMAIN queue : queue[1].depth <= queue[j].depth /\ queue[j].depth \in 0 .. MaxDepth
      <3>1. \A j \in DOMAIN queue : queue[j].depth \in 0 .. MaxDepth
        BY NodeTypes, QueueNodes
      <3>2. 1 \in DOMAIN queue
        BY <1>1, PopFacts
      <3>3. ASSUME NEW j \in DOMAIN queue PROVE queue[1].depth <= queue[j].depth
        BY <1>1, <3>1, <3>2, PopFacts DEF Sorted
      <3>4. QED
        BY <3>1, <3>3
    <2>4. node.depth \in 0 .. MaxDepth
      BY NodeTypes, QueueNodes
    <2>5. ASSUME NEW j \in DOMAIN queue PROVE queue[j].depth \in {node'.depth, node'.depth + 1}
      <3>1. 1 \in DOMAIN queue /\ node'.depth = queue[1].depth
        BY <1>1, PopFacts
      <3>2. queue[j].depth \in {node.depth, node.depth + 1} /\ queue[1].depth \in {node.depth, node.depth + 1}
        BY <3>1 DEF Sorted
      <3>3. QED
        BY <2>1, <2>3, <2>4, <3>1, <3>2
    <2>6. \A j \in DOMAIN queue' : queue'[j].depth \in {node'.depth, node'.depth + 1}
      BY <1>1, <2>5, PopFacts
    <2>7. ASSUME NEW j \in DOMAIN queue', NEW k \in DOMAIN queue', j < k
          PROVE  queue'[j].depth <= queue'[k].depth
      <3>1. j + 1 \in DOMAIN queue /\ k + 1 \in DOMAIN queue /\ j + 1 < k + 1
        BY <1>1, <2>7, PopFacts
      <3>2. queue[j + 1].depth <= queue[k + 1].depth
        BY <3>1 DEF Sorted
      <3>3. QED
        BY <1>1, <3>2, PopFacts
    <2>8. QED
      BY <2>2, <2>6, <2>7 DEF Sorted
  <1>2. ASSUME NEW q \in Paths, Skip(q) \/ Refuse(q) PROVE Sorted'
    BY <1>2 DEF Skip, Refuse, Sorted
  <1>3. ASSUME NEW q \in Paths, Reach(q) PROVE Sorted'
    <2>1. node' = node /\ (todo' # {} => node'.depth < MaxDepth)
      BY <1>3 DEF Reach, Sorted
    <2>2. node.depth \in Nat /\ \A j \in DOMAIN queue : queue[j].depth \in Nat
      BY NodeTypes, QueueNodes
    <2>3. \A j \in DOMAIN queue' : j \in DOMAIN queue \/ j = Len(queue) + 1
      BY <1>3, ReachFacts
    <2>4. \A j \in DOMAIN queue : queue'[j].depth \in {node.depth, node.depth + 1}
      BY <1>3, ReachFacts DEF Sorted
    <2>5. queue'[Len(queue) + 1].depth = node.depth + 1
      BY <1>3, ReachFacts
    <2>6. ASSUME NEW j \in DOMAIN queue', NEW k \in DOMAIN queue', j < k
          PROVE  queue'[j].depth <= queue'[k].depth
      <3>1. j \in DOMAIN queue /\ queue'[j] = queue[j]
        BY <1>3, <2>6, ReachFacts
      <3>2. CASE k \in DOMAIN queue
        <4>1. queue'[k] = queue[k]
          BY <1>3, <3>2, ReachFacts
        <4>2. QED
          BY <2>6, <3>1, <3>2, <4>1 DEF Sorted
      <3>3. CASE k = Len(queue) + 1
        BY <2>2, <2>4, <2>5, <3>1, <3>3
      <3>4. QED
        BY <2>3, <3>2, <3>3
    <2>7. QED
      BY <2>1, <2>3, <2>4, <2>5, <2>6 DEF Sorted
  <1>4. QED
    BY <1>1, <1>2, <1>3 DEF Step

LEMMA SoundNext ==
  ASSUME edges' = edges, seeds' = seeds,
         \A j \in DOMAIN queue' : Scored(queue'[j].path, queue'[j].depth, queue'[j].level),
         todo' # {} => Scored(node'.path, node'.depth, node'.level),
         \A q \in todo' : Linked(edges, node'.path, q),
         \A q \in Found' : q \notin SeedPaths /\ Scored(q, hops'[q].depth, hops'[q].level),
         Cardinality(Found') <= MaxPaths
  PROVE  Sound'
  BY DEF Sound, Scored, SeedPaths

LEMMA SeedNumbers ==
  ASSUME GraphType, NEW i \in DOMAIN seeds
  PROVE  seeds[i].path \in Paths /\ seeds[i].level \in -1 .. MaxLevel /\ seeds[i].level \in Int
  <1>1. seeds[i] \in Seeds
    BY DEF GraphType
  <1>2. QED
    BY <1>1, LevelAssumption DEF Seeds, Levels

LEMMA ScoredMore ==
  ASSUME GraphType, NEW p \in Paths, NEW d \in Nat, NEW l \in Int, Scored(p, d, l), NEW q \in Paths, Linked(edges, p, q)
  PROVE  Scored(q, d + 1, l - 1)
  <1>1. PICK i \in DOMAIN seeds : Within(edges, seeds[i].path, p, d) /\ seeds[i].level = l + d
    BY DEF Scored
  <1>2. Within(edges, seeds[i].path, q, d + 1)
    BY <1>1, WithinMore
  <1>3. seeds[i].level = (l - 1) + (d + 1)
    BY <1>1, SeedNumbers
  <1>4. QED
    BY <1>2, <1>3 DEF Scored

\* Which files are found after one was reached.
LEMMA ReachFound ==
  ASSUME GraphType, Sorted, NEW q \in Paths, Reach(q), Cardinality(Found) <= MaxPaths
  PROVE  /\ Found \subseteq Found' /\ Found' \subseteq Found \cup {q}
         /\ Cardinality(Found) <= Cardinality(Found') /\ Cardinality(Found') <= MaxPaths
         /\ q \in SeedPaths => Found' = Found
  <1>1. /\ Found \subseteq Found' /\ Found' \subseteq Found \cup {q}
        /\ q \in SeedPaths => Found' = Found
    BY ReachHops DEF Found
  <1>2. CASE Found' = Found
    BY <1>1, <1>2, FoundFinite
  <1>3. CASE Found' # Found
    <2>1. q \notin SeedPaths /\ Found' = Found \cup {q} /\ q \notin Found
      BY <1>1, <1>3
    <2>2. Cardinality(Found) < MaxPaths
      BY <2>1 DEF Reach
    <2>3. Cardinality(Found \cup {q}) = Cardinality(Found) + 1
      BY <2>1, FoundFinite, FS_AddElement, Zenon
    <2>4. QED
      BY <1>1, <2>1, <2>2, <2>3, FoundFinite, CapAssumption
  <1>4. QED
    BY <1>2, <1>3

LEMMA StepSound == ASSUME GraphType, Sorted, Sound, Step PROVE Sound'
  <1>1. CASE Pop
    <2>1. 1 \in DOMAIN queue /\ edges' = edges /\ seeds' = seeds
      BY <1>1, PopFacts
    <2>2. Scored(node'.path, node'.depth, node'.level)
      BY <1>1, <2>1, PopFacts DEF Sound
    <2>3. \A j \in DOMAIN queue' : Scored(queue'[j].path, queue'[j].depth, queue'[j].level)
      BY <1>1, PopFacts DEF Sound
    <2>4. \A q \in todo' : Linked(edges, node'.path, q)
      BY <1>1, PopFacts
    <2>5. Found' = Found /\ hops' = hops
      BY <1>1, PopFacts DEF Found
    <2>6. QED
      BY <2>1, <2>2, <2>3, <2>4, <2>5, SoundNext DEF Sound
  <1>2. ASSUME NEW q \in Paths, Skip(q) \/ Refuse(q) PROVE Sound'
    <2>1. UNCHANGED <<edges, seeds, queue, node, hops>> /\ todo' \subseteq todo
      BY <1>2 DEF Skip, Refuse
    <2>2. Found' = Found
      BY <2>1 DEF Found
    <2>3. QED
      BY <2>1, <2>2, SoundNext DEF Sound
  <1>3. ASSUME NEW q \in Paths, Reach(q) PROVE Sound'
    <2>1. UNCHANGED <<edges, seeds, node>> /\ todo' \subseteq todo /\ q \in todo
      BY <1>3 DEF Reach
    <2>2. Scored(node.path, node.depth, node.level) /\ Linked(edges, node.path, q)
      BY <2>1 DEF Sound
    <2>3. Scored(q, node.depth + 1, node.level - 1)
      <3>1. node.path \in Paths /\ node.depth \in Nat /\ node.level \in Int
        BY NodeTypes, QueueNodes
      <3>2. QED
        BY <2>2, <3>1, ScoredMore
    <2>4. ASSUME NEW j \in DOMAIN queue' PROVE Scored(queue'[j].path, queue'[j].depth, queue'[j].level)
      <3>1. CASE j \in DOMAIN queue
        BY <1>3, <3>1, ReachFacts DEF Sound
      <3>2. CASE j = Len(queue) + 1
        BY <1>3, <2>3, <3>2, ReachFacts
      <3>3. QED
        BY <1>3, <3>1, <3>2, ReachFacts
    <2>5. ASSUME NEW p \in Found' PROVE p \notin SeedPaths /\ Scored(p, hops'[p].depth, hops'[p].level)
      <3>1. CASE p \in Found /\ hops'[p] = hops[p]
        BY <3>1 DEF Sound
      <3>2. CASE p = q /\ q \notin SeedPaths /\ hops'[q].level = node.level - 1 /\ hops'[q].depth = node.depth + 1
        BY <2>3, <3>2
      <3>3. p \in Paths /\ hops'[p] # NoHop
        BY DEF Found
      <3>4. CASE p # q
        <4>1. hops'[p] = hops[p]
          BY <1>3, <3>3, <3>4, ReachHops
        <4>2. QED
          BY <3>1, <3>3, <4>1 DEF Found
      <3>5. CASE p = q /\ q \in SeedPaths
        <4>1. hops' = hops
          BY <1>3, <3>5, ReachHops
        <4>2. QED
          BY <3>1, <3>3, <4>1 DEF Found
      <3>6. CASE p = q /\ q \notin SeedPaths
        <4>1. \/ hops'[q] = hops[q]
              \/ hops'[q].level = node.level - 1 /\ hops'[q].depth = node.depth + 1
          BY <1>3, <3>6, ReachHops
        <4>2. hops'[q] = hops[q] => q \in Found
          BY <3>3, <3>6 DEF Found
        <4>3. QED
          BY <3>1, <3>2, <3>6, <4>1, <4>2
      <3>7. QED
        BY <3>4, <3>5, <3>6
    <2>6. Cardinality(Found') <= MaxPaths
      BY <1>3, ReachFound DEF Sound
    <2>7. QED
      BY <2>1, <2>2, <2>4, <2>5, <2>6, SoundNext DEF Sound
  <1>4. QED
    BY <1>1, <1>2, <1>3 DEF Step

LEMMA StepNoted == ASSUME GraphType, Sorted, Sound, Noted, Step PROVE Noted'
  <1>1. CASE Pop \/ \E q \in Paths : Skip(q)
    BY <1>1 DEF Pop, Skip, Noted, Found, SeedPaths
  <1>2. ASSUME NEW q \in Paths, Refuse(q) PROVE Noted'
    <2>1. hops' = hops /\ seeds' = seeds /\ ~(Cardinality(Found) < MaxPaths)
      BY <1>2, FoundFinite, CapAssumption DEF Refuse
    <2>2. Found' = Found
      BY <2>1 DEF Found
    <2>3. QED
      BY <2>1, <2>2 DEF Noted
  <1>3. ASSUME NEW q \in Paths, Reach(q) PROVE Noted'
    <2> SUFFICES ASSUME Cardinality(Found') < MaxPaths, NEW p \in Paths, p \notin SeedPaths
                 PROVE  IF hops'[p] = NoHop THEN visited'[p] = -2 ELSE visited'[p] = hops'[p].level
      <3>1. SeedPaths' = SeedPaths
        BY <1>3 DEF Reach, SeedPaths
      <3>2. QED
        BY <3>1 DEF Noted
    <2>1. Cardinality(Found) < MaxPaths
      <3>1. Cardinality(Found) <= Cardinality(Found') /\ Found' \subseteq Paths
        BY <1>3, ReachFound DEF Sound, Found
      <3>2. Cardinality(Found') \in Nat
        BY <3>1, FS_Subset, FS_CardinalityType, PathsAssumption
      <3>3. QED
        BY <3>1, <3>2, FoundFinite, CapAssumption
    <2>2. IF hops[p] = NoHop THEN visited[p] = -2 ELSE visited[p] = hops[p].level
      BY <2>1 DEF Noted
    <2>3. CASE p # q
      <3>1. hops'[p] = hops[p] /\ visited'[p] = visited[p]
        BY <1>3, <2>3, ReachHops, ReachFacts DEF GraphType
      <3>2. QED
        BY <2>2, <3>1
    <2>4. CASE p = q
      <3>1. visited'[q] = node.level - 1 /\ visited[q] < node.level - 1
        BY <1>3, ReachFacts DEF GraphType
      <3>2. hops'[q] # NoHop
        BY <1>3, <2>4, ReachHops
      <3>3. CASE hops'[q].level = node.level - 1
        BY <2>4, <3>1, <3>2, <3>3
      <3>4. CASE hops'[q] = hops[q] /\ ~(node.level - 1 > hops[q].level)
        <4>1. visited[q] = hops[q].level
          BY <2>2, <2>4, <3>2, <3>4
        <4>2. node.level - 1 \in Int /\ visited[q] \in Int
          BY <1>3, ReachFacts DEF GraphType
        <4>3. QED
          BY <3>1, <3>4, <4>1, <4>2
      <3>5. QED
        BY <1>3, <2>4, <3>3, <3>4, ReachHops
    <2>5. QED
      BY <2>3, <2>4
  <1>4. QED
    BY <1>1, <1>2, <1>3 DEF Step

\* Asked for less, or of deeper nodes, the answer is the same.
LEMMA OpenedWeaker ==
  ASSUME GraphType, NEW q \in Paths, NEW v \in Int, NEW u \in Int, NEW c \in Nat, NEW d \in Nat,
         Opened(q, v, c), u <= v, c <= d
  PROVE  Opened(q, u, d)
  <1>1. node.level \in Int /\ \A j \in DOMAIN queue : queue[j].level \in Int /\ queue[j].depth \in Nat
    BY NodeTypes, QueueNodes
  <1>2. \A t \in Paths : visited[t] \in Int
    BY DEF GraphType
  <1>3. CASE Queued(q, v, c)
    <2>1. PICK j \in DOMAIN queue : queue[j].path = q /\ queue[j].level >= v /\ queue[j].depth <= c
      BY <1>3 DEF Queued
    <2>2. queue[j].level >= u /\ queue[j].depth <= d
      BY <1>1, <2>1
    <2>3. QED
      BY <2>1, <2>2 DEF Opened, Queued
  <1>4. CASE Spread(q, v)
    BY <1>1, <1>2, <1>4 DEF Opened, Spread
  <1>5. QED
    BY <1>3, <1>4 DEF Opened

LEMMA PopOpened ==
  ASSUME GraphType, Pop, NEW q \in Paths, NEW v \in Int, NEW d \in Nat, Opened(q, v, d), node'.depth < MaxDepth
  PROVE  Opened(q, v, d)'
  <1>1. CASE Queued(q, v, d)
    <2>1. PICK j \in DOMAIN queue : queue[j].path = q /\ queue[j].level >= v /\ queue[j].depth <= d
      BY <1>1 DEF Queued
    <2>2. CASE j = 1
      <3>1. node'.path = q /\ node'.level >= v /\ edges' = edges
        BY <2>1, <2>2, PopFacts
      <3>2. \A t \in Paths : Linked(edges, q, t) => t \in todo'
        <4>1. node'.depth \in Nat /\ MaxDepth \in Nat
          BY PopFacts, NodeTypes, DepthAssumption
        <4>2. QED
          BY <3>1, <4>1, PopFacts
      <3>3. QED
        BY <3>1, <3>2 DEF Opened, Spread
    <2>3. CASE j # 1
      <3>1. j - 1 \in DOMAIN queue' /\ queue'[j - 1] = queue[j]
        <4>1. j - 1 \in DOMAIN queue'
          BY <2>3, PopFacts
        <4>2. queue'[j - 1] = queue[j - 1 + 1] /\ j - 1 + 1 = j
          BY <4>1, PopFacts
        <4>3. QED
          BY <4>1, <4>2
      <3>2. Queued(q, v, d)'
        BY <2>1, <3>1 DEF Queued
      <3>3. QED
        BY <3>2 DEF Opened
    <2>4. QED
      BY <2>2, <2>3
  <1>2. CASE Spread(q, v)
    BY <1>2, PopFacts DEF Opened, Spread
  <1>3. QED
    BY <1>1, <1>2 DEF Opened

LEMMA SkipOpened ==
  ASSUME GraphType, NEW r \in Paths, Skip(r), NEW q \in Paths, NEW v \in Int, NEW d \in Nat, Opened(q, v, d)
  PROVE  Opened(q, v, d)'
  <1>1. CASE Queued(q, v, d)
    BY <1>1 DEF Skip, Opened, Queued
  <1>2. CASE Spread(q, v)
    <2>1. node.level \in Int /\ \A t \in Paths : visited[t] \in Int
      BY NodeTypes, QueueNodes DEF GraphType
    <2>2. ASSUME NEW t \in Paths, Linked(edges, q, t)
          PROVE  \/ v - 1 < 0 \/ visited[t] >= v - 1
                 \/ node.path = q /\ node.level >= v /\ t \in todo \ {r}
      BY <1>2, <2>1, <2>2 DEF Skip, Better, Spread
    <2>3. UNCHANGED <<edges, visited, node>> /\ todo' = todo \ {r}
      BY DEF Skip
    <2>4. QED
      BY <2>2, <2>3 DEF Opened, Spread
  <1>3. QED
    BY <1>1, <1>2 DEF Opened

LEMMA ReachOpened ==
  ASSUME GraphType, Sorted, NEW r \in Paths, Reach(r), NEW q \in Paths, NEW v \in Int, NEW d \in Nat, Opened(q, v, d)
  PROVE  Opened(q, v, d)'
  <1>1. CASE Queued(q, v, d)
    <2>1. PICK j \in DOMAIN queue : queue[j].path = q /\ queue[j].level >= v /\ queue[j].depth <= d
      BY <1>1 DEF Queued
    <2>2. j \in DOMAIN queue' /\ queue'[j] = queue[j]
      BY ReachFacts
    <2>3. QED
      BY <2>1, <2>2 DEF Opened, Queued
  <1>2. CASE Spread(q, v)
    <2>1. node.level \in Int /\ \A t \in Paths : visited[t] \in Int
      BY NodeTypes, QueueNodes DEF GraphType
    <2>2. /\ \A t \in Paths : visited'[t] \in Int /\ visited'[t] >= visited[t]
          /\ visited'[r] = node.level - 1
      BY <2>1, ReachFacts, SMTT(60) DEF GraphType
    <2>3. ASSUME NEW t \in Paths, Linked(edges, q, t)
          PROVE  \/ v - 1 < 0 \/ visited'[t] >= v - 1
                 \/ node.path = q /\ node.level >= v /\ t \in todo \ {r}
      <3>1. CASE v - 1 < 0 \/ visited[t] >= v - 1
        BY <2>1, <2>2, <3>1
      <3>2. CASE node.path = q /\ node.level >= v /\ t \in todo
        BY <2>1, <2>2, <3>2
      <3>3. QED
        BY <1>2, <2>3, <3>1, <3>2 DEF Spread
    <2>4. UNCHANGED <<edges, node>> /\ todo' = todo \ {r}
      BY DEF Reach
    <2>5. QED
      BY <2>3, <2>4 DEF Opened, Spread
  <1>3. QED
    BY <1>1, <1>2 DEF Opened

LEMMA BringsNext ==
  ASSUME edges' = edges, seeds' = seeds
  PROVE  \A i, q, k, l : Brings(i, q, k, l)' <=> Brings(i, q, k, l)
  BY DEF Brings

\* The first node of the next depth: the depth before has been expanded.
LEMMA LayerDone ==
  ASSUME GraphType, Sorted, Pop, NEW d \in Nat, node.depth = d, node'.depth = d + 1,
         NEW q \in Paths, NEW l \in Int, Opened(q, l, d), NEW t \in Paths, Linked(edges, q, t), l - 1 >= 0
  PROVE  visited[t] >= l - 1
  <1>1. ASSUME NEW j \in DOMAIN queue PROVE queue[j].depth > d
    <2>1. 1 \in DOMAIN queue /\ queue[1].depth = d + 1
      BY PopFacts
    <2>2. queue[1].depth <= queue[j].depth
      <3>1. CASE j = 1
        BY <2>1, <3>1
      <3>2. CASE j # 1
        BY <2>1, <3>2, PopFacts DEF Sorted
      <3>3. QED
        BY <3>1, <3>2
    <2>3. queue[j].depth \in Nat
      BY NodeTypes, QueueNodes
    <2>4. QED
      BY <2>1, <2>2, <2>3
  <1>2. ~ Queued(q, l, d)
    <2>1. \A j \in DOMAIN queue : queue[j].depth \in Nat
      BY NodeTypes, QueueNodes
    <2>2. QED
      BY <1>1, <2>1 DEF Queued
  <1>3. Spread(q, l) /\ todo = {}
    BY <1>2, PopFacts DEF Opened
  <1>4. QED
    BY <1>3 DEF Spread

\* A way of k + 1 edges is a way of k edges and one more.
LEMMA BringsLess ==
  ASSUME GraphType, NEW i \in DOMAIN seeds, NEW t \in Paths, NEW k \in Nat, NEW l \in Nat, Brings(i, t, k + 1, l)
  PROVE  \E q \in Paths : Brings(i, q, k, l + 1) /\ Linked(edges, q, t)
  <1>1. PICK q \in Paths : Within(edges, seeds[i].path, q, k) /\ Linked(edges, q, t)
    BY WithinLess DEF Brings
  <1>2. l + 1 = seeds[i].level - k /\ l + 1 >= 0
    BY SeedNumbers DEF Brings
  <1>3. QED
    BY <1>1, <1>2 DEF Brings

LEMMA PopThorough ==
  ASSUME GraphType, Sorted, Thorough, Pop
  PROVE  Thorough'
  <1>1. Found' = Found /\ edges' = edges /\ seeds' = seeds /\ visited' = visited
    BY PopFacts DEF Found
  <1>2. node.depth \in 0 .. MaxDepth /\ node'.depth \in 0 .. MaxDepth /\ MaxDepth \in Nat
    BY NodeTypes, QueueNodes, PopFacts, DepthAssumption
  <1>3. node'.depth = node.depth \/ node'.depth = node.depth + 1
    BY PopFacts DEF Sorted
  <1>4. \A p \in Paths : visited[p] \in Int
    BY DEF GraphType
  <1> SUFFICES ASSUME Cardinality(Found) < MaxPaths, NEW q \in Paths, NEW d \in Nat, NEW l \in Nat, node'.depth = d
               PROVE  /\ \A i \in DOMAIN seeds, k \in 1 .. d : Brings(i, q, k, l) => visited[q] >= l
                      /\ d < MaxDepth =>
                           /\ \A i \in DOMAIN seeds : Brings(i, q, d, l) => Opened(q, l, d)'
                           /\ visited[q] = l => Opened(q, l, d + 1)'
    BY <1>1, BringsNext DEF Thorough
  <1>5. CASE node'.depth = node.depth
    <2>1. \A i \in DOMAIN seeds, k \in 1 .. d : Brings(i, q, k, l) => visited[q] >= l
      BY <1>5 DEF Thorough
    <2>2. ASSUME d < MaxDepth, NEW i \in DOMAIN seeds, Brings(i, q, d, l) PROVE Opened(q, l, d)'
      <3>1. Opened(q, l, d)
        BY <1>5, <2>2 DEF Thorough
      <3>2. QED
        BY <2>2, <3>1, PopOpened
    <2>3. ASSUME d < MaxDepth, visited[q] = l PROVE Opened(q, l, d + 1)'
      <3>1. Opened(q, l, d + 1)
        BY <1>5, <2>3 DEF Thorough
      <3>2. QED
        BY <2>3, <3>1, PopOpened
    <2>4. QED
      BY <2>1, <2>2, <2>3
  <1>6. CASE node'.depth = node.depth + 1
    <2> DEFINE c == node.depth
    <2>1. c \in Nat /\ c < MaxDepth /\ d = c + 1
      BY <1>2, <1>6
    <2>2. ASSUME NEW i \in DOMAIN seeds, NEW k \in 1 .. d, Brings(i, q, k, l) PROVE visited[q] >= l
      <3>1. CASE k \in 1 .. c
        BY <2>1, <2>2, <3>1 DEF Thorough
      <3>2. CASE k = c + 1
        <4>1. PICK p \in Paths : Brings(i, p, c, l + 1) /\ Linked(edges, p, q)
          BY <2>1, <2>2, <3>2, BringsLess
        <4>2. Opened(p, l + 1, c)
          BY <2>1, <4>1 DEF Thorough
        <4>3. l + 1 - 1 = l
          OBVIOUS
        <4>4. QED
          BY <1>6, <2>1, <4>1, <4>2, <4>3, LayerDone
      <3>3. QED
        BY <2>1, <3>1, <3>2
    <2>3. ASSUME d < MaxDepth, NEW i \in DOMAIN seeds, Brings(i, q, d, l) PROVE Opened(q, l, d)'
      <3>1. visited[q] >= l /\ visited[q] \in Nat
        BY <1>4, <2>1, <2>2, <2>3
      <3>2. Opened(q, visited[q], c + 1)
        BY <2>1, <3>1 DEF Thorough
      <3>3. Opened(q, l, d)
        BY <2>1, <3>1, <3>2, OpenedWeaker
      <3>4. QED
        BY <2>3, <3>3, PopOpened
    <2>4. ASSUME d < MaxDepth, visited[q] = l PROVE Opened(q, l, d + 1)'
      <3>1. Opened(q, l, c + 1)
        BY <2>1, <2>4 DEF Thorough
      <3>2. Opened(q, l, d + 1)
        BY <2>1, <3>1, OpenedWeaker
      <3>3. QED
        BY <2>4, <3>2, PopOpened
    <2>5. QED
      BY <2>2, <2>3, <2>4
  <1>7. QED
    BY <1>3, <1>5, <1>6

LEMMA SkipThorough ==
  ASSUME GraphType, Thorough, NEW r \in Paths, Skip(r)
  PROVE  Thorough'
  <1>1. UNCHANGED <<edges, seeds, node, visited, hops>>
    BY DEF Skip
  <1>2. Found' = Found
    BY <1>1 DEF Found
  <1> SUFFICES ASSUME Cardinality(Found) < MaxPaths, NEW q \in Paths, NEW d \in Nat, NEW l \in Nat, node.depth = d
               PROVE  /\ \A i \in DOMAIN seeds, k \in 1 .. d : Brings(i, q, k, l) => visited[q] >= l
                      /\ d < MaxDepth =>
                           /\ \A i \in DOMAIN seeds : Brings(i, q, d, l) => Opened(q, l, d)'
                           /\ visited[q] = l => Opened(q, l, d + 1)'
    BY <1>1, <1>2, BringsNext DEF Thorough
  <1>3. \A i \in DOMAIN seeds, k \in 1 .. d : Brings(i, q, k, l) => visited[q] >= l
    BY DEF Thorough
  <1>4. d < MaxDepth =>
          /\ \A i \in DOMAIN seeds : Brings(i, q, d, l) => Opened(q, l, d)
          /\ visited[q] = l => Opened(q, l, d + 1)
    BY DEF Thorough
  <1>5. QED
    BY <1>3, <1>4, SkipOpened

LEMMA ReachThorough ==
  ASSUME GraphType, Sorted, Sound, Thorough, NEW r \in Paths, Reach(r)
  PROVE  Thorough'
  <1>1. UNCHANGED <<edges, seeds, node>>
    BY DEF Reach
  <1>2. \A p \in Paths : visited[p] \in Int /\ visited'[p] \in Int /\ visited'[p] >= visited[p]
                         /\ (p # r => visited'[p] = visited[p])
    BY ReachFacts DEF GraphType
  <1>3. Cardinality(Found') < MaxPaths => Cardinality(Found) < MaxPaths
    <2>1. Cardinality(Found) <= Cardinality(Found') /\ Found' \subseteq Paths
      BY ReachFound DEF Sound, Found
    <2>2. Cardinality(Found') \in Nat
      BY <2>1, FS_Subset, FS_CardinalityType, PathsAssumption
    <2>3. QED
      BY <2>1, <2>2, FoundFinite, CapAssumption
  <1> SUFFICES ASSUME Cardinality(Found) < MaxPaths, NEW q \in Paths, NEW d \in Nat, NEW l \in Nat, node.depth = d
               PROVE  /\ \A i \in DOMAIN seeds, k \in 1 .. d : Brings(i, q, k, l) => visited'[q] >= l
                      /\ d < MaxDepth =>
                           /\ \A i \in DOMAIN seeds : Brings(i, q, d, l) => Opened(q, l, d)'
                           /\ visited'[q] = l => Opened(q, l, d + 1)'
    BY <1>1, <1>3, BringsNext DEF Thorough
  <1>4. ASSUME NEW i \in DOMAIN seeds, NEW k \in 1 .. d, Brings(i, q, k, l) PROVE visited'[q] >= l
    <2>1. visited[q] >= l
      BY <1>4 DEF Thorough
    <2>2. QED
      BY <1>2, <2>1
  <1>5. ASSUME d < MaxDepth, NEW i \in DOMAIN seeds, Brings(i, q, d, l) PROVE Opened(q, l, d)'
    <2>1. Opened(q, l, d)
      BY <1>5 DEF Thorough
    <2>2. QED
      BY <2>1, ReachOpened
  <1>6. ASSUME d < MaxDepth, visited'[q] = l PROVE Opened(q, l, d + 1)'
    <2>1. CASE q # r
      <3>1. Opened(q, l, d + 1)
        BY <1>2, <1>6, <2>1 DEF Thorough
      <3>2. QED
        BY <3>1, ReachOpened
    <2>2. CASE q = r
      <3> DEFINE j == Len(queue) + 1
      <3>1. j \in DOMAIN queue' /\ queue'[j].path = q /\ queue'[j].depth = d + 1 /\ queue'[j].level = node.level - 1
        BY <2>2, ReachFacts
      <3>2. visited'[q] = node.level - 1 /\ node.level - 1 \in Int
        BY <2>2, ReachFacts DEF GraphType
      <3>3. \E m \in DOMAIN queue' : queue'[m].path = q /\ queue'[m].level >= l /\ queue'[m].depth <= d + 1
        BY <1>6, <3>1, <3>2
      <3>4. QED
        BY <3>3 DEF Opened, Queued
    <2>3. QED
      BY <2>1, <2>2
  <1>7. QED
    BY <1>4, <1>5, <1>6

(* A step of the walk keeps all of it. *)
LEMMA StepWalk == ASSUME GraphType, WalkInv, Step PROVE GraphType' /\ WalkInv'
  <1>1. GraphType' /\ Sorted' /\ Sound' /\ Noted'
    BY StepType, StepSorted, StepSound, StepNoted DEF WalkInv
  <1>2. ASSUME NEW r \in Paths, Refuse(r) PROVE Thorough'
    <2>1. hops' = hops /\ ~(Cardinality(Found) < MaxPaths)
      BY <1>2, FoundFinite, CapAssumption DEF Refuse
    <2>2. Found' = Found
      BY <2>1 DEF Found
    <2>3. QED
      BY <2>1, <2>2 DEF Thorough
  <1>3. Thorough'
    BY <1>2, PopThorough, SkipThorough, ReachThorough DEF WalkInv, Step
  <1>4. QED
    BY <1>1, <1>3 DEF WalkInv

(* A walk begins with the hits in the queue. *)
LEMMA StartsWalk ==
  ASSUME GraphType, node.depth = 0, StartWalk
  PROVE  GraphType' /\ WalkInv'
  <1>1. UNCHANGED <<edges, seeds, node>> /\ todo' = {} /\ hops' = [p \in Paths |-> NoHop]
    BY DEF StartWalk
  <1>2. Len(seeds) \in Nat /\ DOMAIN seeds = 1 .. Len(seeds)
    BY DEF GraphType
  <1>3. ASSUME NEW j \in DOMAIN seeds
        PROVE  /\ queue'[j] \in Nodes
               /\ queue'[j].path = seeds[j].path /\ queue'[j].depth = 0 /\ queue'[j].level = seeds[j].level
    <2>1. queue'[j] = [path |-> seeds[j].path, depth |-> 0, level |-> seeds[j].level]
      BY DEF StartWalk
    <2>2. seeds[j].path \in Paths /\ seeds[j].level \in Levels /\ 0 \in 0 .. MaxDepth
      BY SeedNumbers, DepthAssumption, <1>2 DEF Levels
    <2>3. QED
      BY <2>1, <2>2 DEF Nodes
  <1>4. DOMAIN queue' = DOMAIN seeds /\ queue' \in Seq(Nodes)
    BY <1>2, <1>3 DEF StartWalk
  <1>5. /\ visited' \in [Paths -> -2 .. MaxLevel]
        /\ \A p \in Paths \ SeedPaths : visited'[p] = -2
        /\ \A p \in SeedPaths : \E i \in DOMAIN seeds : seeds[i].path = p /\ visited'[p] = seeds[i].level
    <2>1. visited' = [p \in Paths |-> IF p \in SeedPaths THEN LastLevel(seeds, p) ELSE -2]
      BY DEF StartWalk
    <2>2. \A p \in SeedPaths : p \in Paths /\ LastLevel(seeds, p) \in -2 .. MaxLevel
      BY LastLevelIsSeed, SeedNumbers, LevelAssumption DEF SeedPaths
    <2>3. -2 \in -2 .. MaxLevel
      BY LevelAssumption
    <2>4. QED
      BY <2>1, <2>2, <2>3, LastLevelIsSeed
  <1>6. Found' = {} /\ Cardinality(Found') = 0
    <2>1. Found' = {}
      BY <1>1 DEF Found
    <2>2. QED
      BY <2>1, FS_EmptySet
  <1>7. GraphType'
    BY <1>1, <1>4, <1>5 DEF GraphType
  <1>8. Sorted'
    BY <1>1, <1>3, <1>4 DEF Sorted
  <1>9. Sound'
    <2>1. ASSUME NEW j \in DOMAIN queue' PROVE Scored(queue'[j].path, queue'[j].depth, queue'[j].level)
      <3>1. j \in DOMAIN seeds
        BY <1>4
      <3>2. Within(edges, seeds[j].path, seeds[j].path, 0) /\ seeds[j].level = seeds[j].level + 0
        BY <3>1, SeedNumbers, WithinZero
      <3>3. QED
        BY <1>3, <3>1, <3>2 DEF Scored
    <2>2. QED
      BY <1>1, <1>6, <2>1, SoundNext, CapAssumption
  <1>10. Noted'
    <2>1. SeedPaths' = SeedPaths
      BY <1>1 DEF SeedPaths
    <2>2. QED
      BY <1>1, <1>5, <2>1 DEF Noted
  <1>11. Thorough'
    <2> SUFFICES ASSUME NEW q \in Paths, NEW l \in Nat
                 PROVE  /\ \A i \in DOMAIN seeds : Brings(i, q, 0, l) => Opened(q, l, 0)'
                        /\ visited'[q] = l => Opened(q, l, 0 + 1)'
      BY <1>1, BringsNext DEF Thorough
    <2>1. ASSUME NEW i \in DOMAIN seeds, Brings(i, q, 0, l) PROVE Opened(q, l, 0)'
      <3>1. q = seeds[i].path /\ l = seeds[i].level
        BY <2>1, SeedNumbers, WithinZero DEF Brings
      <3>2. QED
        BY <1>3, <1>4, <3>1 DEF Opened, Queued
    <2>2. ASSUME visited'[q] = l PROVE Opened(q, l, 0 + 1)'
      <3>1. q \in SeedPaths
        BY <1>5, <2>2
      <3>2. PICK i \in DOMAIN seeds : seeds[i].path = q /\ seeds[i].level = l
        BY <1>5, <2>2, <3>1
      <3>3. QED
        BY <1>3, <1>4, <3>2 DEF Opened, Queued
    <2>3. QED
      BY <2>1, <2>2
  <1>12. QED
    BY <1>7, <1>8, <1>9, <1>10, <1>11 DEF WalkInv

(* A walk that has ended below the cap has missed nothing. *)
LEMMA NothingMissed ==
  ASSUME GraphType, WalkInv, ~Walking, Cardinality(Found) < MaxPaths,
         NEW i \in DOMAIN seeds, NEW q \in Paths, NEW k \in 1 .. MaxDepth, NEW l \in Nat, Brings(i, q, k, l)
  PROVE  visited[q] >= l
  <1> DEFINE Missed(n) == n >= 1 /\ n <= MaxDepth /\ \E s \in DOMAIN seeds, p \in Paths, v \in Nat :
                                            Brings(s, p, n, v) /\ ~(visited[p] >= v)
             M == {n \in Nat : Missed(n)}
             d == node.depth
  <1>1. d \in Nat /\ MaxDepth \in Nat /\ d <= MaxDepth /\ \A p \in Paths : visited[p] \in Int
    BY NodeTypes, QueueNodes, DepthAssumption DEF GraphType
  <1>2. todo = {} /\ \A p, v, n : ~Queued(p, v, n)
    BY DEF Walking, Queued
  <1>3. \A p, v, n : p \in Paths /\ v \in Nat /\ Opened(p, v, n) =>
          \A t \in Paths : Linked(edges, p, t) => v - 1 < 0 \/ visited[t] >= v - 1
    BY <1>2 DEF Opened, Spread
  <1>4. ASSUME M # {} PROVE FALSE
    <2>1. PICK n \in M : \A m \in M : n <= m
      BY <1>4, LeastNumber
    <2>2. PICK s \in DOMAIN seeds, p \in Paths, v \in Nat : Brings(s, p, n, v) /\ ~(visited[p] >= v)
      BY <2>1
    <2>3. n \in 1 .. MaxDepth
      BY <1>1, <2>1
    <2>4. ~(n \in 1 .. d)
      BY <1>1, <2>2 DEF WalkInv, Thorough
    <2>5. d < MaxDepth /\ n - 1 >= d /\ n - 1 \in Nat /\ n - 1 + 1 = n
      BY <1>1, <2>3, <2>4
    <2>6. PICK r \in Paths : Brings(s, r, n - 1, v + 1) /\ Linked(edges, r, p)
      BY <2>2, <2>5, BringsLess
    <2>7. CASE n - 1 = d
      <3>1. Opened(r, v + 1, d)
        BY <1>1, <2>5, <2>6, <2>7 DEF WalkInv, Thorough
      <3>2. v + 1 - 1 = v /\ v + 1 \in Nat
        OBVIOUS
      <3>3. QED
        BY <1>3, <2>2, <2>6, <3>1, <3>2
    <2>8. CASE n - 1 # d
      <3>1. n - 1 \notin M /\ n - 1 >= 1 /\ n - 1 <= MaxDepth
        BY <1>1, <2>1, <2>3, <2>5, <2>8
      <3>2. visited[r] >= v + 1
        BY <2>5, <2>6, <3>1
      <3> DEFINE u == visited[r]
      <3>3. u \in Nat
        BY <1>1, <3>2
      <3>4. Opened(r, u, d + 1)
        BY <1>1, <2>5, <3>3 DEF WalkInv, Thorough
      <3>5. u - 1 < 0 \/ visited[p] >= u - 1
        BY <1>3, <2>6, <3>3, <3>4
      <3>6. QED
        BY <1>1, <2>2, <3>2, <3>3, <3>5
    <2>9. QED
      BY <2>7, <2>8
  <1>5. k \notin M
    BY <1>4
  <1>6. QED
    BY <1>1, <1>5

LEMMA FoundHop ==
  ASSUME GraphType, NEW q \in Found
  PROVE  /\ q \in Paths /\ hops[q] \in Hops
         /\ hops[q].level \in 0 .. MaxLevel /\ hops[q].depth \in 1 .. MaxDepth
         /\ hops[q].level \in Nat /\ hops[q].depth \in Nat
  <1>1. q \in Paths /\ hops[q] \in Hops
    BY DEF GraphType, Found
  <1>2. QED
    BY <1>1, DepthAssumption, LevelAssumption DEF Hops

LEMMA WalkLinked == ASSUME GraphType, WalkInv PROVE HopsLinked /\ HopsScored
  <1>1. ASSUME NEW q \in Found
        PROVE  q \notin SeedPaths /\ \E i \in DOMAIN seeds :
                 Walk(seeds[i].path, q, hops[q].depth) /\ seeds[i].level = hops[q].level + hops[q].depth
    BY WalkIsWithin DEF WalkInv, Sound, Scored
  <1>2. Cardinality(Found) <= MaxPaths
    BY DEF WalkInv, Sound
  <1>3. QED
    BY <1>1, <1>2 DEF HopsLinked, HopsScored

LEMMA NearestLeast ==
  ASSUME NEW q, Nearest(q) # {}
  PROVE  /\ Least(Nearest(q)) \in Nearest(q) /\ Least(Nearest(q)) \in 1 .. MaxDepth
         /\ \A j \in Nearest(q) : Least(Nearest(q)) <= j
  <1>1. Nearest(q) \in SUBSET Nat /\ Nearest(q) \subseteq 1 .. MaxDepth
    BY DEF Nearest
  <1>2. \E k \in Nearest(q) : \A j \in Nearest(q) : k <= j
    BY <1>1, LeastNumber
  <1>3. QED
    BY <1>1, <1>2, Zenon DEF Least

LEMMA BestLevel ==
  ASSUME GraphType, DOMAIN seeds # {}
  PROVE  Best \in -1 .. MaxLevel /\ \A i \in DOMAIN seeds : seeds[i].level <= Best
  <1> DEFINE L == {seeds[i].level : i \in DOMAIN seeds}
  <1>1. L \in SUBSET (-1 .. MaxLevel) /\ L # {}
    BY SeedNumbers
  <1>2. PICK b \in L : \A l \in L : l <= b
    BY <1>1, GreatestNumber, LevelAssumption
  <1>3. \E b1 \in L : \A i \in DOMAIN seeds : seeds[i].level <= b1
    BY <1>2
  <1>4. Best \in L /\ \A i \in DOMAIN seeds : seeds[i].level <= Best
    BY <1>3, Zenon DEF Best
  <1>5. QED
    BY <1>1, <1>4

(* The walk and the query agree. *)
LEMMA WalkComplete == ASSUME GraphType, WalkInv PROVE HopsComplete
  <1> SUFFICES ASSUME ~Walking, Cardinality(Found) < MaxPaths, NEW q \in Paths \ SeedPaths
               PROVE  /\ hops[q] # NoHop <=> \E i \in DOMAIN seeds, k \in 1 .. MaxDepth : Leads(i, q, k)
                      /\ hops[q] # NoHop =>
                           /\ \A i \in DOMAIN seeds, k \in 1 .. MaxDepth :
                                Leads(i, q, k) => hops[q].level >= seeds[i].level - k
                           /\ q \in CTEFiles /\ Least(Nearest(q)) <= hops[q].depth
                           /\ hops[q].level <= Best - Least(Nearest(q))
    BY DEF HopsComplete
  <1>1. IF hops[q] = NoHop THEN visited[q] = -2 ELSE visited[q] = hops[q].level
    BY DEF WalkInv, Noted
  <1>2. ASSUME NEW i \in DOMAIN seeds, NEW k \in 1 .. MaxDepth, Leads(i, q, k)
        PROVE  visited[q] >= seeds[i].level - k /\ seeds[i].level - k >= 0
    <2> DEFINE l == seeds[i].level - k
    <2>1. l \in Nat /\ Brings(i, q, k, l)
      BY <1>2, SeedNumbers, WalkIsWithin DEF Leads, Brings
    <2>2. QED
      BY <2>1, NothingMissed
  <1>3. ASSUME hops[q] = NoHop, NEW i \in DOMAIN seeds, NEW k \in 1 .. MaxDepth PROVE ~Leads(i, q, k)
    <2>1. seeds[i].level - k \in Int
      BY SeedNumbers
    <2>2. QED
      BY <1>1, <1>2, <1>3, <2>1
  <1>4. ASSUME hops[q] # NoHop
        PROVE  /\ \E i \in DOMAIN seeds, k \in 1 .. MaxDepth : Leads(i, q, k)
               /\ q \in CTEFiles /\ Least(Nearest(q)) <= hops[q].depth
               /\ hops[q].level <= Best - Least(Nearest(q))
    <2>1. q \in Found
      BY <1>4 DEF Found
    <2>2. PICK i \in DOMAIN seeds : /\ Walk(seeds[i].path, q, hops[q].depth)
                                    /\ seeds[i].level = hops[q].level + hops[q].depth
      BY <2>1, WalkLinked DEF HopsScored
    <2> DEFINE k == hops[q].depth
               l == hops[q].level
    <2>3. k \in 1 .. MaxDepth /\ k \in Nat /\ l \in Nat
      BY <2>1, FoundHop
    <2>4. Leads(i, q, k)
      BY <2>2, <2>3 DEF Leads
    <2>5. k \in Nearest(q)
      BY <2>2, <2>3 DEF Nearest
    <2>6. Least(Nearest(q)) <= k /\ Least(Nearest(q)) \in Nat
      BY <2>5, NearestLeast
    <2>7. seeds[i].level <= Best /\ Best \in Int
      BY BestLevel
    <2>8. l <= Best - Least(Nearest(q))
      BY <2>2, <2>3, <2>6, <2>7
    <2>9. q \in CTEFiles
      BY <2>3, <2>5, <2>6, <2>7, <2>8 DEF CTEFiles
    <2>10. QED
      BY <2>3, <2>4, <2>6, <2>8, <2>9
  <1>5. ASSUME hops[q] # NoHop, NEW i \in DOMAIN seeds, NEW k \in 1 .. MaxDepth, Leads(i, q, k)
        PROVE  hops[q].level >= seeds[i].level - k
    BY <1>1, <1>2, <1>5
  <1>6. QED
    BY <1>3, <1>4, <1>5

(* What the query of the store adds is linked to a hit as well. *)
LEMMA QueryLinked ==
  ASSUME GraphType, NEW T \in Capped(CTEFiles), hops' = QueryHops(T), edges' = edges, seeds' = seeds
  PROVE  hops' \in [Paths -> Hops \cup {NoHop}] /\ HopsLinked'
  <1>1. T \subseteq CTEFiles /\ CTEFiles \subseteq Paths
    BY DEF Capped, CTEFiles
  <1>2. Cardinality(T) <= MaxPaths
    <2>1. IsFiniteSet(T)
      BY <1>1, FS_Subset, PathsAssumption
    <2>2. Cardinality(T) \in Nat
      BY <2>1, FS_CardinalityType
    <2>3. QED
      BY <2>2, CapAssumption DEF Capped
  <1>3. ASSUME NEW q \in T
        PROVE  /\ q \in Paths /\ q \notin SeedPaths
               /\ hops'[q] \in Hops /\ hops'[q].depth \in Nearest(q)
    <2> DEFINE k == Least(Nearest(q))
               h == [level |-> Best - k, depth |-> k]
    <2>1. q \in Paths /\ q \notin SeedPaths /\ Nearest(q) # {} /\ Best - k >= 0
      BY <1>1 DEF CTEFiles
    <2>2. k \in Nearest(q) /\ k \in 1 .. MaxDepth
      BY <2>1, NearestLeast
    <2>3. Best \in -1 .. MaxLevel
      <3>1. DOMAIN seeds # {}
        BY <2>1 DEF Nearest
      <3>2. QED
        BY <3>1, BestLevel
    <2>4. Best - k \in 0 .. MaxLevel
      BY <2>1, <2>2, <2>3, LevelAssumption
    <2>5. hops'[q] = h
      BY <2>1 DEF QueryHops
    <2>6. h \in Hops /\ h.depth = k
      BY <2>2, <2>4 DEF Hops
    <2>7. QED
      BY <2>1, <2>2, <2>5, <2>6
  <1>4. hops' \in [Paths -> Hops \cup {NoHop}] /\ \A q \in Paths \ T : hops'[q] = NoHop
    BY <1>3 DEF QueryHops
  <1>5. Found' = T
    <2>1. \A q \in T : hops'[q] # NoHop
      BY <1>3, NoHopAssumption
    <2>2. QED
      BY <1>1, <1>4, <2>1 DEF Found
  <1>6. ASSUME NEW q \in T PROVE \E i \in DOMAIN seeds : Within(edges, seeds[i].path, q, hops'[q].depth)
    BY <1>3, WalkIsWithin DEF Nearest
  <1>7. SeedPaths' = SeedPaths
    BY DEF SeedPaths
  <1>8. HopsLinked'
    <2>1. \A q \in T : \E i \in DOMAIN seeds' : Within(edges', seeds'[i].path, q, hops'[q].depth)
      BY <1>6
    <2>2. QED
      BY <1>2, <1>3, <1>5, <1>7, <2>1 DEF HopsLinked, Walk, Within, Adjacent, Linked
  <1>9. QED
    BY <1>4, <1>8

(***************************************************************************)
(* Sequences that are filtered.                                            *)
(***************************************************************************)
KeptFrom(s, T, o) ==
  /\ o \in [DOMAIN Kept(s, T) -> DOMAIN s]
  /\ \A m, n \in DOMAIN Kept(s, T) : o[m] = o[n] => m = n
  /\ \A n \in DOMAIN Kept(s, T) : Kept(s, T)[n] = s[o[n]] /\ s[o[n]] \in T

LEMMA KeptFacts ==
  ASSUME NEW S, NEW s \in Seq(S), NEW T
  PROVE  Kept(s, T) \in Seq(S) /\ \E o : KeptFrom(s, T, o)
  <1> DEFINE At == {i \in DOMAIN s : s[i] \in T}
             Below(i) == {j \in At : j <= i}
             Spot(i) == Cardinality(Below(i))
             N == Cardinality(At)
  <1>1. DOMAIN s = 1 .. Len(s) /\ Len(s) \in Nat
    OBVIOUS
  <1>2. IsFiniteSet(At) /\ N \in Nat
    <2>1. At \subseteq 1 .. Len(s)
      BY <1>1
    <2>2. IsFiniteSet(1 .. Len(s))
      BY <1>1, FS_Interval
    <2> HIDE DEF At
    <2>3. IsFiniteSet(At)
      BY <2>1, <2>2, FS_Subset
    <2>4. QED
      BY <2>3, FS_CardinalityType
  <1>3. ASSUME NEW i \in At PROVE IsFiniteSet(Below(i)) /\ Spot(i) \in 1 .. N
    <2>1. Below(i) \subseteq At /\ i \in Below(i)
      BY <1>1
    <2>2. IsFiniteSet(Below(i)) /\ Spot(i) \in Nat /\ Spot(i) <= N
      BY <1>2, <2>1, FS_Subset, FS_CardinalityType
    <2>3. Spot(i) # 0
      BY <2>1, <2>2, FS_EmptySet
    <2>4. QED
      BY <2>2, <2>3
  <1>4. ASSUME NEW i \in At, NEW k \in At, i < k PROVE Spot(i) < Spot(k)
    <2>1. Below(i) \subseteq Below(k) /\ Below(i) # Below(k)
      <3>1. k \in Below(k) /\ k \notin Below(i)
        BY <1>1, <1>4
      <3>2. \A j \in Below(i) : j \in Below(k)
        BY <1>1, <1>4
      <3>3. QED
        BY <3>1, <3>2
    <2>2. Spot(i) <= Spot(k) /\ Spot(i) # Spot(k)
      BY <1>3, <2>1, FS_Subset
    <2> HIDE DEF Spot, Below, At
    <2>3. Spot(i) \in Int /\ Spot(k) \in Int
      BY <1>3
    <2>4. QED
      BY <2>2, <2>3
  <1>5. \A i, k \in At : Spot(i) = Spot(k) => i = k
    <2> SUFFICES ASSUME NEW i \in At, NEW k \in At, Spot(i) = Spot(k) PROVE i = k
      OBVIOUS
    <2>0. i \in Int /\ k \in Int
      BY <1>1
    <2> HIDE DEF Spot, Below, At
    <2>1. Spot(i) \in Int /\ i \in Int /\ k \in Int
      BY <1>3, <2>0
    <2>2. ~(i < k) /\ ~(k < i)
      BY <1>4, <2>1
    <2>3. QED
      BY <2>1, <2>2
  <1> DEFINE f == [i \in At |-> Spot(i)]
  <1>6. f \in [At -> 1 .. N] /\ \A i, k \in At : f[i] = f[k] => i = k
    BY <1>3, <1>5
  <1> HIDE DEF At, Below, f
  <1>7. \A n \in 1 .. N : \E i \in At : f[i] = n
    <2>1. IsFiniteSet(1 .. N) /\ Cardinality(1 .. N) = N
      BY <1>2, FS_Interval
    <2>2. f \in Injection(At, 1 .. N)
      BY <1>6, Zenon DEF Injection, IsInjective
    <2>3. f \in Surjection(At, 1 .. N)
      BY <2>1, <2>2, FS_Injection
    <2>4. QED
      BY <2>3, Zenon DEF Surjection
  <1> DEFINE o == [n \in 1 .. N |-> CHOOSE i \in At : Spot(i) = n]
  <1>8. \A i \in At : f[i] = Spot(i)
    BY DEF f
  <1>9. ASSUME NEW n \in 1 .. N PROVE o[n] \in At /\ Spot(o[n]) = n
    <2>1. \E i \in At : Spot(i) = n
      BY <1>7, <1>8
    <2>2. o[n] = CHOOSE i \in At : Spot(i) = n
      OBVIOUS
    <2> HIDE DEF o
    <2>3. QED
      BY <2>1, <2>2, Zenon
  <1>10. Kept(s, T) = [n \in 1 .. N |-> s[o[n]]]
    BY DEF Kept, At, Below
  <1> HIDE DEF o
  <1>11. DOMAIN Kept(s, T) = 1 .. N /\ \A n \in 1 .. N : Kept(s, T)[n] = s[o[n]]
    BY <1>10
  <1>12. \A n \in 1 .. N : o[n] \in DOMAIN s /\ s[o[n]] \in T /\ s[o[n]] \in S
    BY <1>1, <1>9 DEF At
  <1>13. Kept(s, T) \in Seq(S)
    BY <1>2, <1>10, <1>12
  <1>14. o \in [1 .. N -> DOMAIN s]
    BY <1>12 DEF o
  <1>15. \A m, n \in 1 .. N : o[m] = o[n] => m = n
    BY <1>9
  <1>16. KeptFrom(s, T, o)
    BY <1>11, <1>12, <1>14, <1>15 DEF KeptFrom
  <1>17. QED
    BY <1>13, <1>16

(***************************************************************************)
(* What a search shows.                                                    *)
(***************************************************************************)
PathsDiffer(s) == \A i, j \in DOMAIN s : s[i].path = s[j].path => i = j
InStore(s) == \A i \in DOMAIN s : s[i].hash \in StoredOf(s[i].path) \cup {Absent}
Good(s) == s \in Seq(Hits) /\ (req.tree # NoTree => PathsDiffer(s)) /\ (unraced => InStore(s))

LEMMA HitTypes ==
  ASSUME NEW h \in Hits
  PROVE  h.path \in Paths /\ h.hash \in Hashes \cup {Absent} /\ h.src \in Sources
  BY DEF Hits

LEMMA EmptyGood == Good(<<>>)
  BY DEF Good, PathsDiffer, InStore

LEMMA ScopeFacts ==
  /\ Scope \subseteq Versions /\ IsFiniteSet(Versions)
  /\ \A v \in Scope : v[2] \in StoredOf(v[1])
  /\ req.tree # NoTree => \A u, v \in Scope : u[1] = v[1] => u = v
  <1>1. Scope \subseteq Versions /\ \A v \in Scope : v[2] \in StoredOf(v[1])
    BY DEF Scope, Stored
  <1>2. IsFiniteSet(Versions)
    BY PathsAssumption, HashAssumption, FS_Product DEF Versions
  <1>3. ASSUME req.tree # NoTree, NEW u \in Scope, NEW v \in Scope, u[1] = v[1] PROVE u = v
    <2>1. u[2] = v[2]
      BY <1>3 DEF Scope, InScope
    <2>2. u \in Paths \X Hashes /\ v \in Paths \X Hashes
      BY <1>1 DEF Versions
    <2>3. QED
      BY <1>3, <2>1, <2>2
  <1>4. QED
    BY <1>1, <1>2, <1>3

LEMMA RankingGood ==
  ASSUME NEW S \in SUBSET Scope, NEW s \in Rankings(S), NEW src \in Sources
  PROVE  Good(Tagged(s, src))
  <1> DEFINE n == SmallerOf(TopK, Cardinality(S))
             t == Tagged(s, src)
  <1>1. n \in Nat
    <2>1. Cardinality(S) \in Nat
      BY ScopeFacts, FS_Subset, FS_CardinalityType
    <2>2. QED
      BY <2>1, TopKAssumption DEF SmallerOf
  <1>2. s \in [1 .. n -> S] /\ \A i, j \in 1 .. n : s[i] = s[j] => i = j
    BY DEF Rankings
  <1>3. /\ DOMAIN t = 1 .. n
        /\ \A i \in 1 .. n : t[i] = [path |-> s[i][1], hash |-> s[i][2], src |-> src]
    BY <1>2 DEF Tagged
  <1>4. ASSUME NEW i \in 1 .. n
        PROVE  /\ s[i] \in Scope /\ t[i] \in Hits
               /\ t[i].path = s[i][1] /\ t[i].hash = s[i][2]
    <2>1. s[i] \in Scope /\ s[i] \in Paths \X Hashes
      BY <1>2, ScopeFacts DEF Versions
    <2>2. QED
      BY <1>3, <2>1 DEF Hits
  <1>5. t \in Seq(Hits)
    <2>1. t = [i \in 1 .. n |-> t[i]]
      BY <1>2 DEF Tagged
    <2> HIDE DEF t
    <2>2. QED
      BY <1>1, <1>4, <2>1
  <1> HIDE DEF n, t
  <1>6. ASSUME req.tree # NoTree PROVE PathsDiffer(t)
    BY <1>2, <1>3, <1>4, <1>6, ScopeFacts DEF PathsDiffer
  <1>7. InStore(t)
    BY <1>3, <1>4, ScopeFacts DEF InStore
  <1>8. QED
    BY <1>5, <1>6, <1>7 DEF Good, t

LEMMA AnswersGood ==
  ASSUME NEW l \in Legs, NEW d, NEW a \in AnswersOf(l, d)
  PROVE  Good(a)
  <1>1. CASE a \in VectorAnswers(d)
    <2>1. PICK s \in Rankings(Scope \cap Table(d)) : a = Tagged(s, "vector")
      BY <1>1 DEF VectorAnswers
    <2>2. QED
      BY <2>1, RankingGood DEF Sources
  <1>2. CASE a \in KeywordAnswers(d)
    <2>1. PICK S \in SUBSET (Scope \cap Table(d)) : a \in {Tagged(s, "keyword") : s \in Rankings(S)}
      BY <1>2 DEF KeywordAnswers
    <2>2. PICK s \in Rankings(S) : a = Tagged(s, "keyword")
      BY <2>1
    <2>3. QED
      BY <2>2, RankingGood DEF Sources
  <1>3. QED
    BY <1>1, <1>2 DEF AnswersOf

\* A list t of the entries of s at n distinct places.
Chosen(s, n, o, t) ==
  /\ n \in Nat /\ t \in Seq(Hits) /\ DOMAIN t = 1 .. n
  /\ \A i \in 1 .. n : o[i] \in DOMAIN s /\ t[i] = s[o[i]]
  /\ \A i, j \in 1 .. n : o[i] = o[j] => i = j

LEMMA ChosenGood ==
  ASSUME NEW s, NEW n, NEW o, NEW t, Good(s), Chosen(s, n, o, t)
  PROVE  Good(t)
  <1>1. PathsDiffer(s) => PathsDiffer(t)
    BY DEF PathsDiffer, Chosen
  <1>2. InStore(s) => InStore(t)
    BY DEF InStore, Chosen
  <1>3. QED
    BY <1>1, <1>2 DEF Good, Chosen

LEMMA PermutedGood ==
  ASSUME NEW s, Good(s), NEW t \in Permuted(s)
  PROVE  Good(t)
  <1>1. DOMAIN s = 1 .. Len(s) /\ Len(s) \in Nat
    BY DEF Good
  <1>2. PICK o \in [DOMAIN s -> DOMAIN s] : /\ \A i, j \in DOMAIN s : o[i] = o[j] => i = j
                                            /\ \A i \in DOMAIN s : t[i] = s[o[i]]
    BY DEF Permuted
  <1>3. t \in [1 .. Len(s) -> Hits]
    <2>1. \A i \in DOMAIN s : s[i] \in Hits
      BY DEF Good
    <2>2. t \in [DOMAIN s -> {s[i] : i \in DOMAIN s}]
      BY DEF Permuted
    <2>3. QED
      BY <1>1, <2>1, <2>2
  <1>4. Chosen(s, Len(s), o, t)
    BY <1>1, <1>2, <1>3 DEF Chosen
  <1>5. QED
    BY <1>4, ChosenGood

\* A rank of 0 says that the chunk is not in the list.
LEMMA UnrankedIsNew ==
  ASSUME NEW v \in Seq(Hits), NEW h, Rank(v, h) = 0
  PROVE  \A i \in DOMAIN v : v[i].path # h.path
  <1> DEFINE At == {i \in DOMAIN v : ChunkKey(v[i]) = ChunkKey(h)}
  <1>1. DOMAIN v = 1 .. Len(v) /\ Len(v) \in Nat
    OBVIOUS
  <1>2. ASSUME At # {} PROVE FALSE
    <2>1. At \in SUBSET (-1 .. Len(v))
      BY <1>1
    <2>2. PICK m \in At : \A j \in At : j <= m
      BY <1>1, <1>2, <2>1, GreatestNumber
    <2>3. Rank(v, h) = CHOOSE i \in At : \A j \in At : j <= i
      BY <1>2 DEF Rank
    <2>4. Rank(v, h) \in At
      BY <2>2, <2>3, Zenon
    <2>5. QED
      BY <1>1, <2>4
  <1>3. QED
    BY <1>2 DEF ChunkKey

LEMMA CandidatesGood ==
  ASSUME NEW v, NEW k, Good(v), Good(k)
  PROVE  Good(Candidates(v, k))
  <1> DEFINE fresh == {h \in Hits : Rank(v, h) = 0}
             w == Kept(k, fresh)
             c == Candidates(v, k)
  <1>1. v \in Seq(Hits) /\ k \in Seq(Hits)
    BY DEF Good
  <1>2. w \in Seq(Hits)
    BY <1>1, KeptFacts
  <1>3. PICK o : KeptFrom(k, fresh, o)
    BY <1>1, KeptFacts
  <1>4. /\ \A m, n \in DOMAIN w : o[m] = o[n] => m = n
        /\ \A n \in DOMAIN w : o[n] \in DOMAIN k /\ w[n] = k[o[n]] /\ w[n] \in fresh
    BY <1>3 DEF KeptFrom
  <1>5. \A n \in DOMAIN w : \A i \in DOMAIN v : v[i].path # w[n].path
    BY <1>1, <1>4, UnrankedIsNew
  <1> HIDE DEF w
  <1>6. c = v \o w
    BY DEF Candidates, w
  <1>7. /\ c \in Seq(Hits) /\ Len(v) \in Nat /\ Len(w) \in Nat /\ DOMAIN c = 1 .. Len(v) + Len(w)
        /\ DOMAIN v = 1 .. Len(v) /\ DOMAIN w = 1 .. Len(w)
        /\ \A i \in 1 .. Len(v) : c[i] = v[i]
        /\ \A i \in 1 .. Len(v) + Len(w) : i > Len(v) => i - Len(v) \in DOMAIN w /\ c[i] = w[i - Len(v)]
    BY <1>1, <1>2, <1>6
  <1> HIDE DEF c, fresh
  <1>8. ASSUME req.tree # NoTree PROVE PathsDiffer(c)
    <2>1. PathsDiffer(v) /\ PathsDiffer(k)
      BY <1>8 DEF Good
    <2> SUFFICES ASSUME NEW i \in DOMAIN c, NEW j \in DOMAIN c, c[i].path = c[j].path PROVE i = j
      BY DEF PathsDiffer
    <2>2. i \in Int /\ j \in Int /\ i >= 1 /\ j >= 1
      BY <1>7
    <2>3. CASE i <= Len(v) /\ j <= Len(v)
      <3>1. i \in DOMAIN v /\ j \in DOMAIN v /\ c[i] = v[i] /\ c[j] = v[j]
        BY <1>7, <2>2, <2>3
      <3>2. QED
        BY <2>1, <3>1 DEF PathsDiffer
    <2>4. CASE i > Len(v) /\ j > Len(v)
      <3>1. /\ i - Len(v) \in DOMAIN w /\ j - Len(v) \in DOMAIN w
            /\ c[i] = w[i - Len(v)] /\ c[j] = w[j - Len(v)]
        BY <1>7, <2>4
      <3>2. o[i - Len(v)] = o[j - Len(v)]
        BY <1>4, <2>1, <3>1 DEF PathsDiffer
      <3>3. i - Len(v) = j - Len(v)
        BY <1>4, <3>1, <3>2
      <3>4. QED
        BY <1>7, <2>2, <3>3
    <2>5. CASE i <= Len(v) /\ j > Len(v)
      <3>1. i \in DOMAIN v /\ c[i] = v[i] /\ j - Len(v) \in DOMAIN w /\ c[j] = w[j - Len(v)]
        BY <1>7, <2>2, <2>5
      <3>2. QED
        BY <1>5, <3>1
    <2>6. CASE i > Len(v) /\ j <= Len(v)
      <3>1. j \in DOMAIN v /\ c[j] = v[j] /\ i - Len(v) \in DOMAIN w /\ c[i] = w[i - Len(v)]
        BY <1>7, <2>2, <2>6
      <3>2. QED
        BY <1>5, <3>1
    <2>7. QED
      BY <1>7, <2>2, <2>3, <2>4, <2>5, <2>6
  <1>9. ASSUME unraced PROVE InStore(c)
    <2>1. InStore(v) /\ InStore(k)
      BY <1>9 DEF Good
    <2> SUFFICES ASSUME NEW i \in DOMAIN c PROVE c[i].hash \in StoredOf(c[i].path) \cup {Absent}
      BY DEF InStore
    <2>2. CASE i <= Len(v)
      <3>1. i \in DOMAIN v /\ c[i] = v[i]
        BY <1>7, <2>2
      <3>2. QED
        BY <2>1, <3>1 DEF InStore
    <2>3. CASE i > Len(v)
      <3>1. i - Len(v) \in DOMAIN w /\ c[i] = w[i - Len(v)]
        BY <1>7, <2>3
      <3>2. o[i - Len(v)] \in DOMAIN k /\ c[i] = k[o[i - Len(v)]]
        BY <1>4, <3>1
      <3>3. QED
        BY <2>1, <3>2 DEF InStore
    <2>4. QED
      BY <1>7, <2>2, <2>3
  <1>10. QED
    BY <1>7, <1>8, <1>9 DEF Good, c

LEMMA FusionGood ==
  ASSUME NEW v, NEW k, Good(v), Good(k), NEW s \in FusionsOf(v, k)
  PROVE  Good(s)
  <1> DEFINE c == Candidates(v, k)
             n == SmallerOf(TopK, Len(c))
  <1>1. CASE v = <<>> \/ k = <<>>
    BY <1>1 DEF FusionsOf
  <1>2. CASE ~(v = <<>> \/ k = <<>>)
    <2>1. Good(c) /\ Len(c) \in Nat /\ DOMAIN c = 1 .. Len(c)
      BY CandidatesGood DEF Good
    <2>2. n \in Nat /\ n <= Len(c)
      BY <2>1, TopKAssumption DEF SmallerOf
    <2>3. PICK o \in [DOMAIN c -> DOMAIN c] : /\ \A i, j \in DOMAIN c : o[i] = o[j] => i = j
                                              /\ s = [i \in 1 .. n |-> c[o[i]]]
      BY <1>2 DEF FusionsOf
    <2>4. 1 .. n \subseteq DOMAIN c /\ \A i \in DOMAIN c : c[o[i]] \in Hits
      BY <2>1, <2>2, <2>3 DEF Good
    <2> HIDE DEF c, n
    <2>5. s \in [1 .. n -> Hits] /\ \A i \in 1 .. n : s[i] = c[o[i]]
      BY <2>3, <2>4
    <2>6. Chosen(c, n, o, s)
      BY <2>2, <2>3, <2>4, <2>5 DEF Chosen
    <2>7. QED
      BY <2>1, <2>6, ChosenGood
  <1>3. QED
    BY <1>1, <1>2

\* The hits of the search and those of the expansion are of different files.
LEMMA MergeGood ==
  ASSUME Good(results), NEW pick \in [Found -> Hashes \cup {Absent}],
         \A q \in Found : pick[q] \in StoredOf(q) \cup {Absent},
         \A q \in Found : \A i \in DOMAIN results : results[i].path # q,
         NEW m \in Merges({GraphHit(q, pick[q]) : q \in Found})
  PROVE  Good(m)
  <1> DEFINE S == {GraphHit(q, pick[q]) : q \in Found}
             R == {results[i] : i \in DOMAIN results}
             n == Len(results) + Cardinality(S)
  <1>1. Len(results) \in Nat /\ DOMAIN results = 1 .. Len(results) /\ \A i \in DOMAIN results : results[i] \in Hits
    BY DEF Good
  <1>2. ASSUME NEW q \in Found
        PROVE  /\ GraphHit(q, pick[q]) \in Hits
               /\ GraphHit(q, pick[q]).path = q /\ GraphHit(q, pick[q]).hash = pick[q]
    BY DEF GraphHit, Hits, Sources, Found
  <1>3. IsFiniteSet(S) /\ Cardinality(S) \in Nat
    <2> DEFINE g == [q \in Found |-> GraphHit(q, pick[q])]
    <2>1. g \in Surjection(Found, S)
      BY DEF Surjection
    <2> HIDE DEF g, S
    <2>2. IsFiniteSet(S)
      BY <2>1, FoundFinite, FS_Surjection
    <2>3. QED
      BY <2>2, FS_CardinalityType
  <1>4. n \in Nat
    BY <1>1, <1>3
  <1>5. m \in [1 .. n -> R \cup S] /\ {m[i] : i \in 1 .. n} = R \cup S
    BY DEF Merges
  <1>6. \A h \in S : \E q \in Found : h = GraphHit(q, pick[q])
    OBVIOUS
  <1>7. \A h \in R : \E i \in DOMAIN results : h = results[i]
    OBVIOUS
  <1>8. \A h \in R \cup S : h \in Hits
    BY <1>1, <1>2, <1>6, <1>7
  <1>9. \A h \in R, g \in S : h.path # g.path
    BY <1>2, <1>6, <1>7
  <1>10. \A h, g \in S : h.path = g.path => h = g
    BY <1>2, <1>6
  <1>11. m \in Seq(Hits)
    <2> HIDE DEF R, S, n
    <2>1. m \in [1 .. n -> Hits]
      BY <1>5, <1>8
    <2>2. QED
      BY <1>4, <2>1
  <1>12. ASSUME req.tree # NoTree PROVE PathsDiffer(m)
    <2>1. PathsDiffer(results)
      BY <1>12 DEF Good
    <2>2. \A h, g \in R : h.path = g.path => h = g
      BY <1>7, <2>1 DEF PathsDiffer
    <2>3. \A h, g \in R \cup S : h.path = g.path => h = g
      BY <1>9, <1>10, <2>2
    <2>4. IsFiniteSet(R) /\ Cardinality(R) = Len(results)
      <3> DEFINE f == [i \in 1 .. Len(results) |-> results[i]]
      <3>1. \A i, j \in 1 .. Len(results) : f[i] = f[j] => i = j
        BY <1>1, <2>1 DEF PathsDiffer
      <3>2. \A h \in R : \E i \in 1 .. Len(results) : f[i] = h
        BY <1>1
      <3>3. f \in [1 .. Len(results) -> R] /\ DOMAIN f = 1 .. Len(results)
        BY <1>1
      <3> DEFINE k == Len(results)
      <3> HIDE DEF f, R
      <3>4. f \in Bijection(1 .. Len(results), R)
        BY <3>1, <3>2, <3>3, Zenon DEF Bijection, Injection, Surjection, IsInjective
      <3>5. IsFiniteSet(1 .. Len(results)) /\ Cardinality(1 .. Len(results)) = Len(results)
        <4>1. k \in Nat
          BY <1>1
        <4> HIDE DEF k
        <4>2. IsFiniteSet(1 .. k) /\ Cardinality(1 .. k) = k
          BY <4>1, FS_Interval
        <4>3. QED
          BY <4>2 DEF k
      <3>6. ExistsBijection(1 .. Len(results), R)
        BY <3>4 DEF ExistsBijection
      <3>7. QED
        BY <3>5, <3>6, FS_Bijection
    <2>5. R \cap S = {}
      BY <1>9
    <2> HIDE DEF R, S
    <2>6. Cardinality(R \cup S) = n
      <3>1. Cardinality(R \cup S) = Cardinality(R) + Cardinality(S) - Cardinality(R \cap S)
        BY <1>3, <2>4, FS_Union
      <3>2. Cardinality(R \cap S) = 0
        BY <2>5, FS_EmptySet
      <3>3. QED
        BY <1>1, <1>3, <2>4, <3>1, <3>2
    <2> HIDE DEF n
    <2>7. IsFiniteSet(1 .. n) /\ Cardinality(1 .. n) = n
      BY <1>4, FS_Interval
    <2>8. m \in Surjection(1 .. n, R \cup S)
      BY <1>5 DEF Surjection
    <2>9. m \in Injection(1 .. n, R \cup S)
      BY <2>6, <2>7, <2>8, FS_SurjSameCardinalityImpliesInj
    <2>10. \A i, j \in 1 .. n : m[i] = m[j] => i = j
      BY <1>5, <2>9 DEF Injection, IsInjective
    <2>11. QED
      BY <1>5, <2>3, <2>10 DEF PathsDiffer
  <1>13. ASSUME unraced PROVE InStore(m)
    <2>1. \A h \in R : h.hash \in StoredOf(h.path) \cup {Absent}
      BY <1>7, <1>13 DEF Good, InStore
    <2>2. \A h \in S : h.hash \in StoredOf(h.path) \cup {Absent}
      BY <1>2, <1>6
    <2> HIDE DEF R, S, n
    <2>3. QED
      BY <1>5, <2>1, <2>2 DEF InStore
  <1>14. QED
    BY <1>11, <1>12, <1>13 DEF Good

(***************************************************************************)
(* The invariant of a search.                                              *)
(***************************************************************************)
Early == {"idle", "model", "retrieve", "legs", "rerank", "seed", "query", "neighbours"}
LegStates == [st : {"off", "query", "send", "sent"}, ok : BOOLEAN, found : Seq(Hits)]

(* The walk is used once, from the hits of the search. *)
Walks ==
  /\ pc \in Early => node.depth = 0
  /\ pc \in {"query", "neighbours", "walk", "chunks"} =>
       DOMAIN seeds = DOMAIN results /\ \A i \in DOMAIN results : seeds[i].path = results[i].path
  /\ pc = "walk" => WalkInv
  /\ pc = "chunks" => HopsLinked

(* Every list of hits is good, and without changes the hashes to compare are those of the store. *)
Shown ==
  /\ pc = "idle" => results = <<>> /\ \A l \in Legs : leg[l].st = "off" /\ leg[l].found = <<>>
  /\ Good(results) /\ \A l \in Legs : Good(leg[l].found)
  /\ unraced /\ pc = "compare" => \A p \in Paths : infos[p] = Newest(p)

SearchInv == TypeOK /\ Walks /\ Shown /\ StaleHonest

LEMMA HopsLinkedStays ==
  ASSUME UNCHANGED <<edges, seeds, hops>>, HopsLinked
  PROVE  HopsLinked'
  <1>1. Found' = Found
    BY DEF Found
  <1>2. SeedPaths' = SeedPaths
    BY DEF SeedPaths
  <1>3. ASSUME NEW p, NEW q, NEW k PROVE Walk(p, q, k)' <=> Walk(p, q, k)
    BY DEF Walk, Adjacent
  <1>4. QED
    BY <1>1, <1>2, <1>3 DEF HopsLinked

LEMMA LegTypes ==
  ASSUME TypeOK, NEW l \in Legs
  PROVE  /\ leg[l] \in LegStates /\ leg[l].st \in {"off", "query", "send", "sent"}
         /\ leg[l].ok \in BOOLEAN /\ leg[l].found \in Seq(Hits)
  <1>1. leg[l] \in LegStates
    BY DEF TypeOK, LegStates
  <1>2. QED
    BY <1>1 DEF LegStates

LEMMA IdleFacts == IdleLeg \in LegStates /\ IdleLeg.found = <<>> /\ [IdleLeg EXCEPT !.st = "query"] \in LegStates
                   /\ [IdleLeg EXCEPT !.st = "query"].found = <<>>
  <1>1. <<>> \in Seq(Hits)
    OBVIOUS
  <1>2. IdleLeg \in LegStates /\ IdleLeg.found = <<>>
    BY <1>1 DEF IdleLeg, LegStates
  <1>3. [IdleLeg EXCEPT !.st = "query"] \in LegStates /\ [IdleLeg EXCEPT !.st = "query"].found = <<>>
    BY <1>2 DEF LegStates
  <1>4. QED
    BY <1>2, <1>3

LEMMA InitInv == Init => SearchInv
  <1> SUFFICES ASSUME Init PROVE SearchInv
    OBVIOUS
  <1>1. First \in Hashes
    BY HashAssumption DEF First
  <1>2. GraphType /\ node.depth = 0
    <2> DEFINE p0 == CHOOSE p \in Paths : TRUE
               n0 == [path |-> p0, depth |-> 0, level |-> -1]
    <2>1. p0 \in Paths
      BY PathsAssumption
    <2>2. n0 \in Nodes /\ n0.depth = 0
      BY <2>1, DepthAssumption, LevelAssumption DEF Nodes, Levels
    <2>3. node = n0
      BY DEF Init, AtRest
    <2>4. visited \in [Paths -> -2 .. MaxLevel]
      BY LevelAssumption DEF Init, AtRest
    <2>5. hops \in [Paths -> Hops \cup {NoHop}] /\ queue \in Seq(Nodes) /\ todo \subseteq Paths /\ seeds \in Seq(Seeds)
      BY DEF Init, AtRest
    <2>6. edges \subseteq Paths \X Paths
      BY GraphsAssumption DEF Init
    <2>7. QED
      BY <2>2, <2>3, <2>4, <2>5, <2>6 DEF GraphType
  <1>3. leg \in [Legs -> LegStates] /\ \A l \in Legs : leg[l].st = "off" /\ leg[l].found = <<>>
    BY IdleFacts DEF Init, IdleLeg
  <1>4. files \in [Paths -> Seq(Hashes)]
    BY <1>1 DEF Init
  <1>5. disk \in [Trees -> [Paths -> Hashes \cup {Absent}]] /\ manifest \in [Trees -> [Paths -> Hashes \cup {Absent}]]
    BY <1>1 DEF Init
  <1>6. pc = "idle" /\ results = <<>> /\ resp \in Answers
    BY DEF Init, Blank, Answers, Routes
  <1>7. TypeOK
    BY <1>2, <1>3, <1>4, <1>5, <1>6, BoundsAssumption DEF Init, TypeOK, LegStates
  <1>8. Walks /\ StaleHonest
    BY <1>2, <1>6 DEF Walks, Early, StaleHonest
  <1>9. Shown
    BY <1>3, <1>6, EmptyGood DEF Shown
  <1>10. QED
    BY <1>7, <1>8, <1>9 DEF SearchInv

\* What a step of the search shows is good.
LEMMA LegsKept ==
  ASSUME SearchInv, leg' = leg
  PROVE  leg' \in [Legs -> LegStates] /\ \A l \in Legs : Good(leg'[l].found)
  BY DEF SearchInv, TypeOK, LegStates, Shown

LEMMA LegSet ==
  ASSUME SearchInv, NEW l \in Legs, NEW x \in LegStates, Good(x.found), leg' = [leg EXCEPT ![l] = x]
  PROVE  leg' \in [Legs -> LegStates] /\ \A k \in Legs : Good(leg'[k].found)
  <1>1. leg \in [Legs -> LegStates] /\ \A k \in Legs : Good(leg[k].found)
    BY DEF SearchInv, TypeOK, LegStates, Shown
  <1>2. leg' \in [Legs -> LegStates]
    BY <1>1
  <1>3. ASSUME NEW k \in Legs PROVE Good(leg'[k].found)
    <2>1. leg'[k] = x \/ leg'[k] = leg[k]
      BY <1>1
    <2>2. QED
      BY <1>1, <2>1
  <1>4. QED
    BY <1>2, <1>3

LEMMA LegsSettled ==
  ASSUME SearchInv, leg' = Settled
  PROVE  leg' \in [Legs -> LegStates] /\ \A l \in Legs : Good(leg'[l].found)
  <1>1. ASSUME NEW l \in Legs PROVE leg'[l] \in LegStates /\ leg'[l].found = <<>>
    <2> DEFINE x == [leg[l] EXCEPT !.found = <<>>]
    <2>1. leg'[l] = x
      BY DEF Settled
    <2>2. leg[l] \in LegStates
      BY LegTypes DEF SearchInv
    <2>3. x \in LegStates /\ x.found = <<>>
      <3>1. <<>> \in Seq(Hits)
        OBVIOUS
      <3>2. QED
        BY <2>2, <3>1 DEF LegStates
    <2>4. QED
      BY <2>1, <2>3
  <1>2. leg' \in [Legs -> LegStates]
    BY <1>1 DEF Settled
  <1>3. QED
    BY <1>1, <1>2, EmptyGood

LEMMA RetrievedHits ==
  ASSUME SearchInv, NEW l \in Legs, Retrieving(l)
  PROVE  /\ Good(results') /\ leg' \in [Legs -> LegStates]
         /\ \A k \in Legs : Good(leg'[k].found)
  <1>1. Good(results')
    BY DEF Retrieving, Query, Send, Keep, SearchInv, Shown
  <1>2. CASE Send(l)
    <2> DEFINE x == [leg[l] EXCEPT !.st = "sent"]
    <2>1. leg[l] \in LegStates /\ Good(leg[l].found)
      BY LegTypes DEF SearchInv, Shown
    <2>2. x \in LegStates /\ x.found = leg[l].found
      BY <2>1 DEF LegStates
    <2>3. leg' = [leg EXCEPT ![l] = x]
      BY <1>2 DEF Send
    <2> HIDE DEF x
    <2>4. QED
      BY <1>1, <2>1, <2>2, <2>3, LegSet
  <1>3. CASE Query(l)
    <2>1. CASE \E a \in AnswersOf(l, dims) : leg' = [leg EXCEPT ![l] = [st |-> "send", ok |-> TRUE, found |-> a]]
      <3>1. PICK a \in AnswersOf(l, dims) : leg' = [leg EXCEPT ![l] = [st |-> "send", ok |-> TRUE, found |-> a]]
        BY <2>1
      <3> DEFINE x == [st |-> "send", ok |-> TRUE, found |-> a]
      <3>2. Good(a)
        BY AnswersGood
      <3>3. x \in LegStates /\ x.found = a
        BY <3>2 DEF LegStates, Good
      <3>4. leg' = [leg EXCEPT ![l] = x]
        BY <3>1
      <3> HIDE DEF x
      <3>5. QED
        BY <1>1, <3>2, <3>3, <3>4, LegSet
    <2>2. CASE leg' = [leg EXCEPT ![l] = [st |-> "send", ok |-> FALSE, found |-> <<>>]]
      <3> DEFINE x == [st |-> "send", ok |-> FALSE, found |-> <<>>]
      <3>1. x \in LegStates /\ x.found = <<>> /\ leg' = [leg EXCEPT ![l] = x]
        BY <2>2 DEF LegStates
      <3> HIDE DEF x
      <3>2. QED
        BY <1>1, <3>1, EmptyGood, LegSet
    <2>3. QED
      BY <1>3, <2>1, <2>2 DEF Query
  <1>4. QED
    BY <1>2, <1>3 DEF Retrieving

LEMMA SearchedHits ==
  ASSUME SearchInv, Searching
  PROVE  /\ Good(results') /\ leg' \in [Legs -> LegStates]
         /\ \A l \in Legs : Good(leg'[l].found)
  <1>1. ASSUME results' = results PROVE Good(results')
    BY <1>1 DEF SearchInv, Shown
  <1>2. ASSUME results' = <<>> PROVE Good(results')
    BY <1>2, EmptyGood
  <1>3. ASSUME NEW d, results' \in KeywordAnswers(d) PROVE Good(results')
    BY <1>3, AnswersGood DEF AnswersOf, Legs
  <1>4. "vector" \in Legs /\ "keyword" \in Legs /\ \A l \in Legs : Good(leg[l].found)
    BY DEF Legs, SearchInv, Shown
  <1>5. CASE Keywords \/ EmbedFails \/ FallBack \/ VectorLost
    <2>1. leg' = leg
      BY <1>5 DEF Keywords, EmbedFails, FallBack, VectorLost
    <2>2. results' = <<>> \/ \E d : results' \in KeywordAnswers(d)
      BY <1>5 DEF Keywords, EmbedFails, FallBack, VectorLost, Fail
    <2>3. QED
      BY <1>2, <1>3, <2>1, <2>2, LegsKept
  <1>6. CASE Embed
    <2>1. results' = results
      BY <1>6 DEF Embed
    <2>2. ASSUME NEW l \in Legs PROVE leg'[l] \in LegStates /\ leg'[l].found = <<>>
      BY <1>6, IdleFacts DEF Embed
    <2>3. leg' \in [Legs -> LegStates]
      BY <1>6, <2>2 DEF Embed
    <2>4. QED
      BY <1>1, <2>1, <2>2, <2>3, EmptyGood
  <1>7. CASE VectorOnly \/ KeywordLost
    <2>1. leg' = Settled /\ results' = leg["vector"].found
      BY <1>7 DEF VectorOnly, KeywordLost
    <2>2. QED
      BY <1>4, <2>1, LegsSettled
  <1>8. CASE Fuse
    <2>1. leg' = Settled /\ results' \in FusionsOf(leg["vector"].found, leg["keyword"].found)
      BY <1>8 DEF Fuse
    <2>2. Good(results')
      BY <1>4, <2>1, FusionGood
    <2>3. QED
      BY <2>1, <2>2, LegsSettled
  <1>9. CASE Rerank
    <2>1. leg' = leg /\ results' \in Permuted(results) /\ Good(results)
      BY <1>9 DEF Rerank, SearchInv, Shown
    <2>2. Good(results')
      BY <2>1, PermutedGood
    <2>3. QED
      BY <2>1, <2>2, LegsKept
  <1>10. CASE FetchChunks
    <2>1. leg' = leg
      BY <1>10 DEF FetchChunks, Others
    <2>2. PICK pick \in [Found -> Hashes \cup {Absent}] :
            /\ \A q \in Found : pick[q] = Absent \/ pick[q] \in ChunksOf(q)
            /\ results' \in Merges({GraphHit(q, pick[q]) : q \in Found})
      BY <1>10 DEF FetchChunks
    <2>3. \A q \in Found : pick[q] \in StoredOf(q) \cup {Absent}
      BY <2>2 DEF ChunksOf
    <2>4. \A q \in Found : \A i \in DOMAIN results : results[i].path # q
      BY <1>10 DEF FetchChunks, SearchInv, Walks, HopsLinked, SeedPaths
    <2>5. Good(results)
      BY DEF SearchInv, Shown
    <2>6. Good(results')
      BY <2>2, <2>3, <2>4, <2>5, MergeGood
    <2>7. QED
      BY <2>1, <2>6, LegsKept
  <1>11. CASE ChooseDims \/ Seed \/ QueryGraph \/ QueryNothing \/ FetchNeighbours \/ NoNeighbours \/ WalkGraph
              \/ EndWalk \/ Annotate \/ AnnotateNothing \/ Compare
    <2>1. leg' = leg /\ results' = results
      BY <1>11 DEF ChooseDims, Seed, QueryGraph, QueryNothing, FetchNeighbours, NoNeighbours, WalkGraph, EndWalk,
                   Annotate, AnnotateNothing, Compare, Keep2, Others
    <2>2. QED
      BY <1>1, <2>1, LegsKept
  <1>12. QED
    BY <1>5, <1>6, <1>7, <1>8, <1>9, <1>10, <1>11 DEF Searching

\* What a step of the search leaves alone.
LEMMA SearchKeeps ==
  ASSUME Searching \/ \E l \in Legs : Retrieving(l)
  PROVE  UNCHANGED <<edges, disk, files, manifest, req, edits, unraced>>
  <1>1. CASE Searching
    BY <1>1 DEF Searching, ChooseDims, Keywords, Embed, EmbedFails, FallBack, VectorLost, VectorOnly, KeywordLost, Fuse,
                Rerank, Seed, QueryGraph, QueryNothing, FetchNeighbours, NoNeighbours, WalkGraph, EndWalk, FetchChunks,
                Annotate, AnnotateNothing, Compare, Keep, Keep2, Others, graphVars, storeVars, StartWalk, Step, Pop, Skip,
                Refuse, Reach
  <1>2. CASE \E l \in Legs : Retrieving(l)
    BY <1>2 DEF Retrieving, Query, Send, Keep, graphVars, storeVars
  <1>3. QED
    BY <1>1, <1>2

LEMMA GoodNext ==
  ASSUME UNCHANGED <<files, req, unraced>>
  PROVE  /\ Good(results') => Good(results)'
         /\ \A l \in Legs : Good(leg'[l].found) => Good(leg[l].found)'
  BY DEF Good, PathsDiffer, InStore, StoredOf

Places == {"idle", "model", "retrieve", "legs", "rerank", "seed", "query", "neighbours",
           "walk", "chunks", "annotate", "compare"} \cup Over

LEMMA RespTypes ==
  ASSUME NEW r \in Answers, NEW x \in BOOLEAN, NEW y \in Routes
  PROVE  /\ [r EXCEPT !.keyword = x] \in Answers /\ [r EXCEPT !.route = y] \in Answers
         /\ [r EXCEPT !.keyword = TRUE, !.fallback = TRUE, !.degraded = x] \in Answers
  BY DEF Answers

LEMMA RouteType == ASSUME TypeOK PROVE Route \in Routes
  <1>1. resp.route \in Routes
    BY DEF TypeOK, Answers
  <1>2. req.mode \in {"hybrid", "vector", "keyword", "routed", "none"}
    <2>1. CASE req \in Requests
      BY <2>1, ModesAssumption DEF Requests
    <2>2. CASE req = NoRequest
      BY <2>2 DEF NoRequest
    <2>3. QED
      BY <2>1, <2>2 DEF TypeOK
  <1>3. QED
    BY <1>1, <1>2 DEF Route, Routes

LEMMA ErrType ==
  ASSUME TypeOK, UNCHANGED errs \/ (CanErr /\ Err)
  PROVE  errs' \in 0 .. MaxErrs /\ errs' >= errs
  BY BoundsAssumption DEF TypeOK, CanErr, Err

LEMMA SearchTypes ==
  ASSUME SearchInv, Searching \/ \E l \in Legs : Retrieving(l)
  PROVE  /\ pc' \in Places /\ dims' \in {"own", "other", "none"}
         /\ infos' \in [Paths -> Hashes \cup {Absent}] /\ stale' \subseteq Nat
         /\ resp' \in Answers /\ errs' \in 0 .. MaxErrs
  <1>1. TypeOK
    BY DEF SearchInv
  <1>2. UNCHANGED errs \/ (CanErr /\ Err)
    BY DEF Searching, ChooseDims, Keywords, Embed, EmbedFails, FallBack, VectorLost, VectorOnly, KeywordLost, Fuse,
           Rerank, Seed, QueryGraph, QueryNothing, FetchNeighbours, NoNeighbours, WalkGraph, EndWalk, FetchChunks,
           Annotate, AnnotateNothing, Compare, Retrieving, Query, Send
  <1>3. errs' \in 0 .. MaxErrs
    BY <1>1, <1>2, ErrType
  <1>4. pc' \in Places
    BY <1>1 DEF TypeOK, Places, Over, Searching, ChooseDims, Keywords, Embed, EmbedFails, FallBack, VectorLost, VectorOnly,
           KeywordLost, Fuse, Rerank, Seed, QueryGraph, QueryNothing, FetchNeighbours, NoNeighbours, WalkGraph, EndWalk,
           FetchChunks, Annotate, AnnotateNothing, Compare, Retrieving, Query, Send, Fail
  <1>5. dims' \in {"own", "other", "none"}
    <2>1. CASE ChooseDims
      BY <2>1, InferredAssumption DEF ChooseDims, ModelDims, InferDims
    <2>2. CASE ~ChooseDims
      BY <1>1, <2>2 DEF TypeOK, Searching, Keywords, Embed, EmbedFails, FallBack, VectorLost, VectorOnly, KeywordLost, Fuse,
           Rerank, Seed, QueryGraph, QueryNothing, FetchNeighbours, NoNeighbours, WalkGraph, EndWalk, FetchChunks,
           Annotate, AnnotateNothing, Compare, Retrieving, Query, Send, Keep2, Others
    <2>3. QED
      BY <2>1, <2>2
  <1>6. infos' \in [Paths -> Hashes \cup {Absent}] /\ stale' \subseteq Nat
    <2>1. CASE Annotate
      <3>1. \A p \in Paths : Newest(p) \in Hashes \cup {Absent}
        <4>1. \A p \in Paths : files[p] \in Seq(Hashes)
          BY <1>1 DEF TypeOK
        <4>2. QED
          BY <4>1 DEF Newest
      <3>2. QED
        BY <1>1, <2>1, <3>1 DEF Annotate, TypeOK
    <2>2. CASE Compare
      <3>1. DOMAIN results \subseteq Nat
        BY <1>1 DEF TypeOK
      <3>2. stale' \subseteq DOMAIN results /\ infos' = infos
        BY <2>2 DEF Compare
      <3>3. QED
        BY <1>1, <3>1, <3>2 DEF TypeOK
    <2>3. CASE ~Annotate /\ ~Compare
      <3>1. UNCHANGED <<infos, stale>>
        BY <2>3 DEF Searching, ChooseDims, Keywords, Embed, EmbedFails, FallBack, VectorLost, VectorOnly, KeywordLost, Fuse,
           Rerank, Seed, QueryGraph, QueryNothing, FetchNeighbours, NoNeighbours, WalkGraph, EndWalk, FetchChunks,
           AnnotateNothing, Retrieving, Query, Send, Others
      <3>2. QED
        BY <1>1, <3>1 DEF TypeOK
    <2>4. QED
      BY <2>1, <2>2, <2>3
  <1>7. resp' \in Answers
    <2>1. resp \in Answers /\ Blank \in Answers
      BY <1>1 DEF TypeOK, Blank, Answers, Routes
    <2>2. CASE Keywords \/ EmbedFails \/ FallBack \/ VectorLost
      BY <2>1, <2>2, RespTypes DEF Keywords, EmbedFails, FallBack, VectorLost, Fail, Routes
    <2>3. CASE KeywordLost \/ Fuse
      BY <2>1, <2>3, RespTypes DEF KeywordLost, Fuse, Routes
    <2>4. CASE AnnotateNothing \/ Compare
      BY <1>1, <2>1, <2>4, RespTypes, RouteType DEF AnnotateNothing, Compare
    <2>5. CASE ~(Keywords \/ EmbedFails \/ FallBack \/ VectorLost \/ KeywordLost \/ Fuse \/ AnnotateNothing \/ Compare)
      <3>1. resp' = resp
        BY <2>5 DEF Searching, ChooseDims, Embed, VectorOnly, Rerank, Seed, QueryGraph, QueryNothing, FetchNeighbours,
           NoNeighbours, WalkGraph, EndWalk, FetchChunks, Annotate, Retrieving, Query, Send, Others
      <3>2. QED
        BY <2>1, <3>1
    <2>6. QED
      BY <2>2, <2>3, <2>4, <2>5
  <1>8. QED
    BY <1>3, <1>4, <1>5, <1>6, <1>7

(* What the expansion does to its own state. *)
LEMMA SearchWalks ==
  ASSUME SearchInv, Searching \/ \E l \in Legs : Retrieving(l)
  PROVE  GraphType' /\ Walks'
  <1>1. GraphType /\ Walks
    BY DEF SearchInv, TypeOK
  <1>2. CASE Seed
    <2>1. Len(results) \in Nat /\ DOMAIN results = 1 .. Len(results)
      BY DEF SearchInv, TypeOK
    <2>2. /\ seeds' \in [DOMAIN results -> [path : Paths, level : 0 .. MaxLevel]]
          /\ \A i \in DOMAIN results : seeds'[i].path = results[i].path
          /\ results' = results /\ pc' = "query" /\ pc = "seed"
          /\ UNCHANGED <<edges, queue, node, todo, visited, hops>>
      BY <1>2 DEF Seed, bfsVars
    <2>3. [path : Paths, level : 0 .. MaxLevel] \subseteq Seeds
      BY LevelAssumption DEF Seeds, Levels
    <2>4. seeds' \in Seq(Seeds) /\ DOMAIN seeds' = DOMAIN results
      BY <2>1, <2>2, <2>3
    <2>5. QED
      BY <1>1, <2>2, <2>4 DEF GraphType, Walks, Early
  <1>3. CASE QueryGraph
    <2>1. PICK T \in Capped(CTEFiles) : hops' = QueryHops(T)
      BY <1>3 DEF QueryGraph
    <2>2. /\ UNCHANGED <<edges, seeds, queue, node, todo, visited, results>>
          /\ pc = "query" /\ pc' = "chunks"
      BY <1>3 DEF QueryGraph
    <2>3. hops' \in [Paths -> Hops \cup {NoHop}] /\ HopsLinked'
      BY <1>1, <2>1, <2>2, QueryLinked
    <2>4. QED
      BY <1>1, <2>2, <2>3 DEF GraphType, Walks, Early
  <1>4. CASE FetchNeighbours
    <2>1. /\ node.depth = 0 /\ StartWalk /\ results' = results /\ seeds' = seeds
          /\ pc = "neighbours" /\ pc' = "walk"
      BY <1>1, <1>4 DEF FetchNeighbours, Walks, Early, StartWalk
    <2>2. GraphType' /\ WalkInv'
      BY <1>1, <2>1, StartsWalk
    <2>3. QED
      BY <1>1, <2>1, <2>2 DEF Walks, Early
  <1>5. CASE WalkGraph
    <2>1. pc = "walk" /\ pc' = "walk" /\ Step /\ results' = results
      BY <1>5 DEF WalkGraph
    <2>2. GraphType' /\ WalkInv'
      BY <1>1, <2>1, StepWalk DEF Walks
    <2>3. seeds' = seeds
      BY <2>1 DEF Step, Pop, Skip, Refuse, Reach
    <2>4. QED
      BY <1>1, <2>1, <2>2, <2>3 DEF Walks, Early
  <1>6. CASE EndWalk
    <2>1. UNCHANGED <<edges, seeds, queue, node, todo, visited, hops, results>>
      BY <1>6 DEF EndWalk, graphVars
    <2>2. pc = "walk" /\ pc' \in {"annotate", "chunks"}
      BY <1>6 DEF EndWalk
    <2>3. HopsLinked
      BY <1>1, <2>2, WalkLinked DEF Walks
    <2>4. HopsLinked'
      BY <2>1, <2>3, HopsLinkedStays
    <2>5. QED
      BY <1>1, <2>1, <2>2, <2>4 DEF GraphType, Walks, Early
  <1>7. CASE ~(Seed \/ QueryGraph \/ FetchNeighbours \/ WalkGraph \/ EndWalk)
    <2>1. UNCHANGED <<edges, seeds, queue, node, todo, visited, hops>>
      BY <1>7 DEF graphVars, Searching, ChooseDims, Keywords, Embed, EmbedFails, FallBack, VectorLost, VectorOnly,
           KeywordLost, Fuse, Rerank, QueryNothing, NoNeighbours, FetchChunks,
           Annotate, AnnotateNothing, Compare, Retrieving, Query, Send, Keep, Keep2
    <2>2. \/ pc' = pc /\ results' = results
          \/ pc = "query" /\ pc' = "neighbours" /\ results' = results
          \/ pc \in Early /\ pc' \in {"retrieve", "legs", "rerank", "seed"}
          \/ pc' \in {"annotate", "compare"} \cup Over
      BY <1>7 DEF Early, Over, Searching, ChooseDims, Keywords, Embed, EmbedFails, FallBack, VectorLost, VectorOnly,
           KeywordLost, Fuse, Rerank, QueryNothing, NoNeighbours, FetchChunks, Received,
           Annotate, AnnotateNothing, Compare, Retrieving, Query, Send, Fail, Others, Keep2
    <2>3. GraphType'
      BY <1>1, <2>1 DEF GraphType
    <2>4. Walks'
      <3>1. CASE pc' = pc /\ results' = results
        <4>1. (pc = "walk" => WalkInv') /\ (pc = "chunks" => HopsLinked')
          <5>1. WalkInv => WalkInv'
            BY <2>1 DEF WalkInv, Sorted, Sound, Noted, Thorough, Scored, Opened, Queued, Spread, Brings, Found, SeedPaths
          <5>2. ASSUME HopsLinked PROVE HopsLinked'
            BY <2>1, <5>2, HopsLinkedStays
          <5>3. QED
            BY <1>1, <5>1, <5>2 DEF Walks
        <4>2. QED
          BY <1>1, <2>1, <3>1, <4>1 DEF Walks
      <3>2. CASE ~(pc' = pc /\ results' = results)
        BY <1>1, <2>1, <2>2, <3>2 DEF Walks, Early, Over
      <3>3. QED
        BY <3>1, <3>2
    <2>5. QED
      BY <2>3, <2>4
  <1>8. QED
    BY <1>2, <1>3, <1>4, <1>5, <1>6, <1>7

\* The hash that the files of one version are compared with.
LEMMA OneVersionNewest ==
  ASSUME TypeOK, NEW p \in Paths, OneVersion(p), NEW h \in StoredOf(p)
  PROVE  Newest(p) = h
  <1>1. files[p] \in Seq(Hashes) /\ DOMAIN files[p] = 1 .. Len(files[p]) /\ Len(files[p]) \in Nat
    BY DEF TypeOK
  <1>2. files[p] # <<>> /\ Newest(p) = files[p][1] /\ 1 \in DOMAIN files[p]
    BY <1>1 DEF StoredOf, Newest
  <1>3. Newest(p) \in StoredOf(p)
    BY <1>2 DEF StoredOf
  <1>4. StoredOf(p) \subseteq Hashes
    BY <1>1 DEF StoredOf
  <1>5. IsFiniteSet(StoredOf(p))
    BY <1>4, HashAssumption, FS_Subset
  <1>6. \E x : StoredOf(p) = {x}
    BY <1>5, FS_Singleton DEF OneVersion
  <1>7. QED
    BY <1>3, <1>6

LEMMA CompareHonest ==
  ASSUME SearchInv, Compare
  PROVE  StaleHonest'
  <1> SUFFICES ASSUME unraced, NEW i \in DOMAIN results,
                      LET h == results[i]
                          now == disk[IF req.tree \in Trees THEN req.tree ELSE Main][h.path]
                      IN OneVersion(h.path) /\ h.hash # Absent /\ now # Absent
               PROVE  LET h == results[i]
                          now == disk[IF req.tree \in Trees THEN req.tree ELSE Main][h.path]
                      IN i \in stale' <=> now # h.hash
    <2>1. UNCHANGED <<unraced, results, disk, files, req>>
      BY DEF Compare, Keep2, storeVars
    <2>2. QED
      BY <2>1 DEF StaleHonest, OneVersion, StoredOf
  <1> DEFINE h == results[i]
  <1>1. h \in Hits /\ h.path \in Paths /\ h.hash \in StoredOf(h.path)
    <2>1. h \in Hits /\ h.hash \in StoredOf(h.path) \cup {Absent}
      BY DEF SearchInv, Shown, Good, InStore
    <2>2. QED
      BY <2>1, HitTypes
  <1>2. infos[h.path] = h.hash
    <2>1. infos[h.path] = Newest(h.path)
      BY <1>1 DEF SearchInv, Shown, Compare
    <2>2. Newest(h.path) = h.hash
      BY <1>1, OneVersionNewest DEF SearchInv
    <2>3. QED
      BY <2>1, <2>2
  <1>3. Root = IF req.tree \in Trees THEN req.tree ELSE Main
    <2>1. req.tree \in Trees \cup {NoTree}
      <3>1. CASE req \in Requests
        BY <3>1 DEF Requests
      <3>2. CASE req = NoRequest
        BY <3>2 DEF NoRequest
      <3>3. QED
        BY <3>1, <3>2 DEF SearchInv, TypeOK
    <2>2. QED
      BY <2>1, TreesAssumption DEF Root
  <1>4. i \in stale' <=> disk[Root][h.path] # Absent /\ infos[h.path] # Absent /\ disk[Root][h.path] # infos[h.path]
    BY DEF Compare
  <1>5. QED
    BY <1>2, <1>3, <1>4

LEMMA SearchStep ==
  ASSUME SearchInv, Searching \/ \E l \in Legs : Retrieving(l)
  PROVE  SearchInv'
  <1>1. UNCHANGED <<edges, disk, files, manifest, req, edits, unraced>>
    BY SearchKeeps
  <1>2. Good(results') /\ leg' \in [Legs -> LegStates] /\ \A l \in Legs : Good(leg'[l].found)
    BY SearchedHits, RetrievedHits
  <1>3. Good(results)' /\ \A l \in Legs : Good(leg[l].found)'
    BY <1>1, <1>2, GoodNext
  <1>4. GraphType' /\ Walks'
    BY SearchWalks
  <1>5. TypeOK'
    <2>1. results' \in Seq(Hits)
      BY <1>2 DEF Good
    <2>2. QED
      BY <1>1, <1>2, <1>4, <2>1, SearchTypes DEF SearchInv, TypeOK, LegStates, Places
  <1>6. pc # "idle" /\ pc' # "idle"
    <2>1. pc # "idle"
      BY DEF Over, Searching, ChooseDims, Keywords, Embed, EmbedFails, FallBack, VectorLost, VectorOnly,
           KeywordLost, Fuse, Rerank, Seed, QueryGraph, QueryNothing, FetchNeighbours, NoNeighbours, WalkGraph, EndWalk,
           FetchChunks, Annotate, AnnotateNothing, Compare, Received, Retrieving, Query, Send, SearchInv, Shown
    <2>2. QED
      BY <2>1 DEF Over, Searching, ChooseDims, Keywords, Embed, EmbedFails, FallBack, VectorLost, VectorOnly,
           KeywordLost, Fuse, Rerank, Seed, QueryGraph, QueryNothing, FetchNeighbours, NoNeighbours, WalkGraph, EndWalk,
           FetchChunks, Annotate, AnnotateNothing, Compare, Fail, Retrieving, Query, Send
  <1>7. unraced' /\ pc' = "compare" => \A p \in Paths : infos'[p] = Newest(p)'
    <2>1. \A p : Newest(p)' = Newest(p)
      BY <1>1 DEF Newest
    <2>2. CASE Annotate
      BY <2>1, <2>2 DEF Annotate
    <2>3. CASE ~Annotate
      <3>1. pc' = "compare" => \E l \in Legs : Retrieving(l)
        BY <2>3 DEF Over, Searching, ChooseDims, Keywords, Embed, EmbedFails, FallBack, VectorLost, VectorOnly,
           KeywordLost, Fuse, Rerank, Seed, QueryGraph, QueryNothing, FetchNeighbours, NoNeighbours, WalkGraph, EndWalk,
           FetchChunks, AnnotateNothing, Compare, Fail
      <3>2. (\E l \in Legs : Retrieving(l)) => pc' = pc /\ infos' = infos
        BY DEF Retrieving, Query, Send
      <3>3. QED
        BY <1>1, <2>1, <3>1, <3>2 DEF SearchInv, Shown
    <2>4. QED
      BY <2>2, <2>3
  <1>8. Shown'
    BY <1>3, <1>6, <1>7 DEF Shown
  <1>9. StaleHonest'
    <2>1. CASE Compare
      BY <2>1, CompareHonest
    <2>2. CASE AnnotateNothing
      <3>1. results' = results /\ (results = <<>> \/ errs' = errs + 1)
        BY <2>2 DEF AnnotateNothing, Keep2, Err
      <3>2. errs \in Nat
        BY DEF SearchInv, TypeOK
      <3>3. results = <<>> \/ errs' # 0
        BY <3>1, <3>2
      <3>4. QED
        BY <3>1, <3>3 DEF StaleHonest
    <2>3. CASE ~Compare /\ ~AnnotateNothing
      <3>1. CASE Searching
        <4>1. pc' # "done"
          BY <2>3, <3>1 DEF Over, Searching, ChooseDims, Keywords, Embed, EmbedFails, FallBack, VectorLost, VectorOnly,
           KeywordLost, Fuse, Rerank, Seed, QueryGraph, QueryNothing, FetchNeighbours, NoNeighbours, WalkGraph, EndWalk,
           FetchChunks, Annotate, Fail
        <4>2. QED
          BY <4>1 DEF StaleHonest
      <3>2. CASE \E l \in Legs : Retrieving(l)
        <4>1. UNCHANGED <<pc, results, stale>> /\ (errs' = errs \/ errs' = errs + 1)
          BY <3>2 DEF Retrieving, Query, Send, Err
        <4>2. errs \in Nat
          BY DEF SearchInv, TypeOK
        <4>3. errs' = 0 => errs = 0
          BY <4>1, <4>2
        <4>4. QED
          BY <1>1, <4>1, <4>3 DEF SearchInv, StaleHonest, OneVersion, StoredOf
      <3>3. QED
        BY <3>1, <3>2
    <2>4. QED
      BY <2>1, <2>2, <2>3
  <1>10. QED
    BY <1>4, <1>5, <1>8, <1>9 DEF SearchInv

(* The rest of the system changes what is stored, and says so. *)
LEMMA DisturbTypes ==
  ASSUME TypeOK, Indexing
  PROVE  /\ disk' \in [Trees -> [Paths -> Hashes \cup {Absent}]]
         /\ files' \in [Paths -> Seq(Hashes)]
         /\ manifest' \in [Trees -> [Paths -> Hashes \cup {Absent}]]
         /\ edits' \in 0 .. MaxEdits
         /\ UNCHANGED <<graphVars, searchVars, errs>> /\ Disturb
  <1>1. /\ disk \in [Trees -> [Paths -> Hashes \cup {Absent}]]
        /\ files \in [Paths -> Seq(Hashes)]
        /\ manifest \in [Trees -> [Paths -> Hashes \cup {Absent}]]
        /\ edits \in 0 .. MaxEdits
    BY DEF TypeOK
  <1>2. ASSUME NEW w \in Trees, NEW p \in Paths, Edit(w, p)
        PROVE  disk' \in [Trees -> [Paths -> Hashes \cup {Absent}]] /\ edits' \in 0 .. MaxEdits
    <2>1. PICK c \in Hashes \cup {Absent} : disk' = [disk EXCEPT ![w][p] = c]
      BY <1>2 DEF Edit
    <2>2. edits' \in 0 .. MaxEdits
      BY <1>1, <1>2, BoundsAssumption DEF Edit
    <2>3. QED
      BY <1>1, <2>1, <2>2
  <1>3. ASSUME NEW w \in Trees, NEW p \in Paths, IndexFile(w, p)
        PROVE  files' \in [Paths -> Seq(Hashes)]
    <2>1. disk[w][p] \in Hashes /\ files[p] \in Seq(Hashes)
      BY <1>1, <1>3 DEF IndexFile
    <2>2. <<disk[w][p]>> \o files[p] \in Seq(Hashes)
      BY <2>1
    <2>3. files' = [files EXCEPT ![p] = <<disk[w][p]>> \o files[p]]
      BY <1>1, <1>3 DEF IndexFile
    <2>4. QED
      BY <1>1, <2>2, <2>3
  <1>4. ASSUME NEW w \in Trees, Publish(w)
        PROVE  manifest' \in [Trees -> [Paths -> Hashes \cup {Absent}]]
    BY <1>1, <1>4 DEF Publish
  <1>5. ASSUME Prune PROVE files' \in [Paths -> Seq(Hashes)]
    <2>1. \A p \in Paths : Kept(files[p], {h \in Hashes : Referenced(p, h)}) \in Seq(Hashes)
      BY <1>1, KeptFacts
    <2>2. QED
      BY <1>5, <2>1 DEF Prune
  <1>6. UNCHANGED <<graphVars, searchVars, errs>> /\ Disturb
    BY DEF Indexing, Edit, IndexFile, Publish, Prune, bounds
  <1>7. CASE \E w \in Trees, p \in Paths : Edit(w, p)
    <2>1. UNCHANGED <<files, manifest>>
      BY <1>7 DEF Edit
    <2>2. QED
      BY <1>1, <1>2, <1>6, <1>7, <2>1
  <1>8. CASE \E w \in Trees, p \in Paths : IndexFile(w, p)
    <2>1. UNCHANGED <<disk, manifest, edits>>
      BY <1>8 DEF IndexFile, bounds
    <2>2. QED
      BY <1>1, <1>3, <1>6, <1>8, <2>1
  <1>9. CASE \E w \in Trees : Publish(w)
    <2>1. UNCHANGED <<disk, files, edits>>
      BY <1>9 DEF Publish, bounds
    <2>2. QED
      BY <1>1, <1>4, <1>6, <1>9, <2>1
  <1>10. CASE Prune
    <2>1. UNCHANGED <<disk, manifest, edits>>
      BY <1>10 DEF Prune, bounds
    <2>2. QED
      BY <1>1, <1>5, <1>6, <1>10, <2>1
  <1>11. QED
    BY <1>7, <1>8, <1>9, <1>10 DEF Indexing

LEMMA WalksKept ==
  ASSUME Walks, UNCHANGED <<graphVars, pc, results>>
  PROVE  Walks'
  <1>1. UNCHANGED <<edges, seeds, queue, node, todo, visited, hops>>
    BY DEF graphVars
  <1>2. ASSUME WalkInv PROVE WalkInv'
    BY <1>1, <1>2 DEF WalkInv, Sorted, Sound, Noted, Thorough, Scored, Opened, Queued, Spread, Brings, Found, SeedPaths
  <1>3. ASSUME HopsLinked PROVE HopsLinked'
    <2>1. Found' = Found /\ SeedPaths' = SeedPaths
      BY <1>1 DEF Found, SeedPaths
    <2>2. \A q \in Found : \E i \in DOMAIN seeds' : Within(edges', seeds'[i].path, q, hops'[q].depth)
      BY <1>1, <1>3, WalkIsWithin DEF HopsLinked
    <2>3. QED
      BY <1>3, <2>1, <2>2 DEF HopsLinked, Walk, Within, Adjacent, Linked
  <1>4. QED
    BY <1>1, <1>2, <1>3 DEF Walks

LEMMA DisturbStep ==
  ASSUME SearchInv, Indexing
  PROVE  SearchInv'
  <1>1. TypeOK
    BY DEF SearchInv
  <1>2. /\ UNCHANGED <<edges, seeds, queue, node, todo, visited, hops>>
        /\ UNCHANGED <<pc, req, dims, leg, results, infos, stale, resp, errs>>
        /\ pc \notin Over /\ unraced' = (pc = "idle" /\ unraced)
    BY <1>1, DisturbTypes DEF graphVars, searchVars, Disturb
  <1>3. TypeOK'
    BY <1>1, <1>2, DisturbTypes DEF TypeOK, GraphType
  <1>4. Walks'
    BY <1>2, WalksKept DEF SearchInv, graphVars
  <1>5. StaleHonest'
    BY <1>2 DEF StaleHonest, Over
  <1>6. Shown'
    <2>1. CASE pc = "idle"
      <3>1. results' = <<>> /\ \A l \in Legs : leg'[l].st = "off" /\ leg'[l].found = <<>>
        BY <1>2, <2>1 DEF SearchInv, Shown
      <3>2. <<>> \in Seq(Hits) /\ DOMAIN <<>> = {}
        OBVIOUS
      <3>3. Good(results)' /\ \A l \in Legs : Good(leg[l].found)'
        BY <3>1, <3>2 DEF Good, PathsDiffer, InStore
      <3>4. QED
        BY <1>2, <2>1, <3>1, <3>3 DEF Shown
    <2>2. CASE pc # "idle"
      <3>1. ~unraced'
        BY <1>2, <2>2
      <3>2. Good(results)' /\ \A l \in Legs : Good(leg[l].found)'
        BY <1>2, <3>1 DEF SearchInv, Shown, Good, PathsDiffer
      <3>3. QED
        BY <1>2, <2>2, <3>1, <3>2 DEF Shown
    <2>3. QED
      BY <2>1, <2>2
  <1>7. QED
    BY <1>3, <1>4, <1>5, <1>6 DEF SearchInv

LEMMA BeginStep ==
  ASSUME SearchInv, Begin
  PROVE  SearchInv'
  <1>1. /\ UNCHANGED <<edges, seeds, queue, node, todo, visited, hops>>
        /\ UNCHANGED <<disk, files, manifest, dims, leg, infos, stale, edits, unraced>>
        /\ pc = "idle" /\ pc' \in {"model", "failed"} /\ req' \in Requests /\ results' = <<>>
        /\ (resp' = resp \/ resp' = Blank) /\ (UNCHANGED errs \/ (CanErr /\ Err))
    BY DEF Begin, Fail, Keep, graphVars, storeVars, SearchInv, Shown
  <1>2. TypeOK'
    <2>1. Blank \in Answers /\ errs' \in 0 .. MaxErrs
      BY <1>1, ErrType DEF SearchInv, Blank, Answers, Routes
    <2>2. QED
      BY <1>1, <2>1 DEF SearchInv, TypeOK, GraphType, Over
  <1>3. Walks' /\ StaleHonest'
    BY <1>1 DEF SearchInv, Walks, Early, StaleHonest
  <1>4. Shown'
    <2>1. \A l \in Legs : leg'[l].found = <<>>
      BY <1>1 DEF SearchInv, Shown
    <2>2. <<>> \in Seq(Hits) /\ DOMAIN <<>> = {}
      OBVIOUS
    <2>3. Good(results)' /\ \A l \in Legs : Good(leg[l].found)'
      BY <1>1, <2>1, <2>2 DEF Good, PathsDiffer, InStore
    <2>4. QED
      BY <1>1, <2>3 DEF Shown
  <1>5. QED
    BY <1>2, <1>3, <1>4 DEF SearchInv

LEMMA NextInv == SearchInv /\ [Next]_vars => SearchInv'
  <1> SUFFICES ASSUME SearchInv, [Next]_vars PROVE SearchInv'
    OBVIOUS
  <1>1. CASE UNCHANGED vars
    <2>1. /\ UNCHANGED <<edges, seeds, queue, node, todo, visited, hops>>
          /\ UNCHANGED <<disk, files, manifest, pc, req, dims, leg, results, infos, stale, resp, edits, errs, unraced>>
      BY <1>1 DEF vars, graphVars, storeVars, searchVars, bounds
    <2>2. TypeOK'
      BY <2>1 DEF SearchInv, TypeOK, GraphType
    <2>3. Walks'
      BY <2>1, WalksKept DEF SearchInv, graphVars
    <2>4. Shown'
      <3>1. \A p : StoredOf(p)' = StoredOf(p) /\ Newest(p)' = Newest(p)
        BY <2>1 DEF StoredOf, Newest
      <3>2. Shown
        BY DEF SearchInv
      <3>3. Good(results)' /\ \A l \in Legs : Good(leg[l].found)'
        BY <2>1, <3>1, <3>2 DEF Shown, Good, PathsDiffer, InStore
      <3>4. QED
        BY <2>1, <3>1, <3>2, <3>3 DEF Shown
    <2>5. StaleHonest'
      BY <2>1 DEF SearchInv, StaleHonest, OneVersion, StoredOf
    <2>6. QED
      BY <2>2, <2>3, <2>4, <2>5 DEF SearchInv
  <1>2. QED
    BY <1>1, BeginStep, SearchStep, DisturbStep DEF Next

(* The invariant holds in every state of a search. *)
THEOREM SearchHolds == Spec => []SearchInv
  <1>1. QED
    BY InitInv, NextInv, PTL DEF Spec

(* TypeOK of a search, whatever index runs change and whatever fails. *)
THEOREM SearchTypeCorrect == Spec => []TypeOK
  <1>1. SearchInv => TypeOK
    BY DEF SearchInv
  <1>2. QED
    BY <1>1, SearchHolds, PTL

(* A search in a worktree shows each chunk once: at any moment a worktree has one version of a *)
(* path, the fusion drops what both legs have found (internal/search/hybrid.go, fuseRRF), and  *)
(* the expansion adds only files that no hit is of, each once (service.go, mergeGraphResults). *)
THEOREM ChunksShownOnce == Spec => []OneHitPerChunk
  <1>1. SearchInv => OneHitPerChunk
    BY DEF SearchInv, Shown, Good, PathsDiffer, OneHitPerChunk
  <1>2. QED
    BY <1>1, SearchHolds, PTL

(* The flag of a hit on a file with one stored version is right when nothing changed meanwhile *)
(* (internal/search/staleness.go, annotateStaleness), in the directory the search is asked in. *)
THEOREM FlagsAreRight == Spec => []StaleHonest
  <1>1. SearchInv => StaleHonest
    BY DEF SearchInv
  <1>2. QED
    BY <1>1, SearchHolds, PTL

(* The walk of the service (service.go, runGraphBFS), on any graph of imports and from any     *)
(* hits: what it adds is linked to a hit by as many edges as its depth says and has that hit's *)
(* score, decayed once per edge; at its end, below the cap, it has missed nothing, has given   *)
(* each file the best score, and has found only what the query of the store finds.             *)
THEOREM ExpansionIsExact == Spec => []ExpansionExact
  <1>1. SearchInv => ExpansionExact
    BY WalkLinked, WalkComplete DEF SearchInv, TypeOK, Walks, ExpansionExact
  <1>2. QED
    BY <1>1, SearchHolds, PTL

(***************************************************************************)
(* How a search says it was found.                                         *)
(***************************************************************************)
Lacks(s, source) == \A i \in DOMAIN s : s[i].src # source

(* What RouteDisclosed says of an answer, of the route that will be stated. *)
Told ==
  /\ Route = "hybrid" <=> \A l \in Legs : leg[l].ok
  /\ Route \in {"keyword", "fallback"} <=> resp.keyword
  /\ Route = "fallback" <=> resp.fallback
  /\ resp.degraded => resp.fallback
  /\ resp.keyword => Lacks(results, "vector")
  /\ Route = "vector" => Lacks(results, "keyword")

Answering == {"rerank", "seed", "query", "neighbours", "walk", "chunks", "annotate", "compare", "done"}

(* A leg that has answered sends or has sent; nothing is told before the legs are received, and *)
(* from then on no leg is at work and what is told stays.                                       *)
RouteInv ==
  /\ \A l \in Legs : leg[l].ok => leg[l].st \in {"send", "sent"}
  /\ Lacks(leg["vector"].found, "keyword")
  /\ pc \in {"idle", "model", "retrieve"} => resp = Blank /\ \A l \in Legs : leg[l].st = "off"
  /\ pc = "legs" => /\ resp = Blank /\ req.mode \in {"vector", "hybrid"}
                    /\ req.mode = "vector" => leg["keyword"].st = "off"
  /\ pc \in Answering => Told /\ \A l \in Legs : leg[l].st \in {"off", "sent"}
  /\ pc = "done" => resp.route = Route

LEMMA AnswersTagged ==
  /\ \A d : \A a \in VectorAnswers(d) : Lacks(a, "keyword")
  /\ \A d : \A a \in KeywordAnswers(d) : Lacks(a, "vector")
  <1>1. ASSUME NEW s PROVE Lacks(Tagged(s, "vector"), "keyword") /\ Lacks(Tagged(s, "keyword"), "vector")
    BY DEF Lacks, Tagged
  <1>2. ASSUME NEW d, NEW a \in VectorAnswers(d) PROVE Lacks(a, "keyword")
    <2>1. PICK s : a = Tagged(s, "vector")
      BY <1>2 DEF VectorAnswers
    <2>2. QED
      BY <1>1, <2>1, Zenon
  <1>3. ASSUME NEW d, NEW a \in KeywordAnswers(d) PROVE Lacks(a, "vector")
    <2>1. PICK S \in SUBSET (Scope \cap Table(d)) : a \in {Tagged(s, "keyword") : s \in Rankings(S)}
      BY <1>3 DEF KeywordAnswers
    <2>2. PICK s : a = Tagged(s, "keyword")
      BY <2>1
    <2>3. QED
      BY <1>1, <2>2, Zenon
  <1>4. QED
    BY <1>2, <1>3

LEMMA RouteStart == Init => RouteInv
  BY DEF Init, RouteInv, Lacks, Legs, IdleLeg, Answering

(* The legs and what they have found while they work. *)
LEMMA RouteRetrieving ==
  ASSUME SearchInv, RouteInv, NEW l \in Legs, Retrieving(l)
  PROVE  RouteInv'
  <1>1. /\ leg \in [Legs -> LegStates] /\ UNCHANGED <<pc, req, results, resp>>
        /\ leg[l].st \in {"query", "send"}
    <2>1. leg \in [Legs -> LegStates]
      BY DEF SearchInv, TypeOK, LegStates
    <2>2. QED
      BY <2>1 DEF Retrieving, Query, Send
  <1>2. PICK x : /\ leg' = [leg EXCEPT ![l] = x] /\ (x.ok => x.st \in {"send", "sent"})
                 /\ (l = "vector" => Lacks(x.found, "keyword"))
    <2>1. CASE Send(l)
      <3> DEFINE y == [leg[l] EXCEPT !.st = "sent"]
      <3>1. leg' = [leg EXCEPT ![l] = y]
        BY <2>1 DEF Send
      <3>2. y.st = "sent" /\ y.found = leg[l].found
        BY <1>1 DEF LegStates
      <3>3. l = "vector" => Lacks(y.found, "keyword")
        BY <3>2 DEF RouteInv
      <3> HIDE DEF y
      <3>4. QED
        BY <3>1, <3>2, <3>3
    <2>2. CASE Query(l)
      <3>1. CASE \E a \in AnswersOf(l, dims) : leg' = [leg EXCEPT ![l] = [st |-> "send", ok |-> TRUE, found |-> a]]
        <4>1. PICK a \in AnswersOf(l, dims) : leg' = [leg EXCEPT ![l] = [st |-> "send", ok |-> TRUE, found |-> a]]
          BY <3>1
        <4>2. l = "vector" => Lacks(a, "keyword")
          BY AnswersTagged DEF AnswersOf
        <4> DEFINE y == [st |-> "send", ok |-> TRUE, found |-> a]
        <4>3. y.st = "send" /\ y.found = a /\ leg' = [leg EXCEPT ![l] = y]
          BY <4>1
        <4> HIDE DEF y
        <4>4. QED
          BY <4>2, <4>3
      <3>2. CASE leg' = [leg EXCEPT ![l] = [st |-> "send", ok |-> FALSE, found |-> <<>>]]
        <4> DEFINE y == [st |-> "send", ok |-> FALSE, found |-> <<>>]
        <4>1. y.st = "send" /\ Lacks(y.found, "keyword") /\ leg' = [leg EXCEPT ![l] = y]
          BY <3>2 DEF Lacks
        <4> HIDE DEF y
        <4>2. QED
          BY <4>1
      <3>3. QED
        BY <2>2, <3>1, <3>2 DEF Query
    <2>3. QED
      BY <2>1, <2>2 DEF Retrieving
  <1>3. /\ leg'[l] = x /\ \A k \in Legs : k # l => leg'[k] = leg[k]
    BY <1>1, <1>2
  <1>4. pc \notin {"idle", "model", "retrieve"} \cup Answering
    BY <1>1 DEF RouteInv
  <1>5. \A k \in Legs : leg'[k].ok => leg'[k].st \in {"send", "sent"}
    BY <1>2, <1>3 DEF RouteInv
  <1>6. Lacks(leg'["vector"].found, "keyword")
    BY <1>2, <1>3 DEF RouteInv, Legs
  <1>7. pc = "legs" /\ req.mode = "vector" => l = "vector" /\ leg'["keyword"].st = "off"
    BY <1>1, <1>3 DEF RouteInv, Legs
  <1>8. pc' = "legs" => /\ resp' = Blank /\ req'.mode \in {"vector", "hybrid"}
                        /\ req'.mode = "vector" => leg'["keyword"].st = "off"
    BY <1>1, <1>7 DEF RouteInv
  <1>9. pc' \notin {"idle", "model", "retrieve"} \cup Answering /\ pc' # "done"
    BY <1>1, <1>4 DEF Answering
  <1>10. Lacks(leg["vector"].found, "keyword")'
    BY <1>6 DEF Lacks
  <1>11. QED
    BY <1>5, <1>8, <1>9, <1>10 DEF RouteInv

(* The end of the legs: what is told agrees with how they ended. *)
LEMMA RouteTold ==
  ASSUME SearchInv, RouteInv, pc \in {"retrieve", "legs"}, pc' = "rerank", req' = req,
         \A l \in Legs : leg'[l].ok = leg[l].ok /\ leg'[l].st = leg[l].st,
         Keywords \/ FallBack \/ VectorOnly \/ KeywordLost \/ Fuse
  PROVE  Told' /\ \A l \in Legs : leg'[l].st \in {"off", "sent"}
  <1>0. resp = Blank /\ resp \in Answers /\ "vector" \in Legs /\ "keyword" \in Legs
    BY DEF RouteInv, SearchInv, TypeOK, Legs
  <1>1. CASE Keywords \/ FallBack
    <2>1. \A l \in Legs : leg[l].st = "off" /\ ~leg[l].ok
      BY <1>1 DEF Keywords, FallBack, RouteInv
    <2>2. results' \in KeywordAnswers(IF Keywords THEN KeywordDims(req.mode) ELSE dims)
      BY <1>1 DEF Keywords, FallBack, Fail
    <2>3. Lacks(results', "vector")
      BY <2>2, AnswersTagged
    <2>4. CASE Keywords
      <3>1. resp' = [resp EXCEPT !.keyword = TRUE] /\ req.mode \in {"keyword", "routed"}
        BY <2>4 DEF Keywords, Fail
      <3>2. resp'.keyword /\ ~resp'.fallback /\ ~resp'.degraded /\ resp'.route = "none"
        BY <1>0, <3>1 DEF Blank
      <3>3. Route' = "keyword"
        BY <3>1, <3>2 DEF Route
      <3>4. QED
        BY <1>0, <2>1, <2>3, <3>2, <3>3 DEF Told, Lacks
    <2>5. CASE FallBack
      <3>1. PICK open \in BOOLEAN : resp' = [resp EXCEPT !.keyword = TRUE, !.fallback = TRUE, !.degraded = open]
        BY <2>5 DEF FallBack, Fail
      <3>2. resp'.keyword /\ resp'.fallback
        BY <1>0, <3>1 DEF Blank
      <3>3. Route' = "fallback"
        BY <3>2 DEF Route
      <3>4. QED
        BY <1>0, <2>1, <2>3, <3>2, <3>3 DEF Told, Lacks
    <2>6. QED
      BY <1>1, <2>4, <2>5
  <1>2. CASE VectorOnly
    <2>1. req.mode = "vector" /\ leg["vector"].ok /\ leg["vector"].st = "sent" /\ pc = "legs"
      BY <1>2 DEF VectorOnly, Received
    <2>2. leg["keyword"].st = "off" /\ ~leg["keyword"].ok
      BY <1>0, <2>1 DEF RouteInv
    <2>3. resp' = resp /\ results' = leg["vector"].found
      BY <1>2 DEF VectorOnly
    <2>4. Lacks(results', "keyword")
      BY <2>3 DEF RouteInv
    <2>5. Route' = "vector"
      BY <1>0, <2>1, <2>3 DEF Route, Blank
    <2>6. ~resp'.keyword /\ ~resp'.fallback /\ ~resp'.degraded
      BY <1>0, <2>3 DEF Blank
    <2>7. ~(\A l \in Legs : leg'[l].ok) /\ \A l \in Legs : leg'[l].st \in {"off", "sent"}
      BY <1>0, <2>1, <2>2 DEF Legs
    <2>8. QED
      BY <2>4, <2>5, <2>6, <2>7 DEF Told, Lacks
  <1>3. CASE KeywordLost
    <2>1. /\ ~leg["keyword"].ok /\ leg["vector"].st = "sent" /\ leg["keyword"].st = "sent"
          /\ results' = leg["vector"].found /\ resp' = [resp EXCEPT !.route = "vector"]
      BY <1>3 DEF KeywordLost, Received
    <2>2. Lacks(results', "keyword")
      BY <2>1 DEF RouteInv
    <2>3. resp'.route = "vector" /\ ~resp'.keyword /\ ~resp'.fallback /\ ~resp'.degraded
      BY <1>0, <2>1 DEF Blank
    <2>4. Route' = "vector"
      BY <2>3 DEF Route
    <2>5. ~(\A l \in Legs : leg'[l].ok) /\ \A l \in Legs : leg'[l].st \in {"off", "sent"}
      BY <1>0, <2>1 DEF Legs
    <2>6. QED
      BY <2>2, <2>3, <2>4, <2>5 DEF Told, Lacks
  <1>4. CASE Fuse
    <2>1. /\ leg["vector"].ok /\ leg["keyword"].ok /\ leg["vector"].st = "sent" /\ leg["keyword"].st = "sent"
          /\ resp' = [resp EXCEPT !.route = "hybrid"]
      BY <1>4 DEF Fuse, Received
    <2>2. resp'.route = "hybrid" /\ ~resp'.keyword /\ ~resp'.fallback /\ ~resp'.degraded
      BY <1>0, <2>1 DEF Blank
    <2>3. Route' = "hybrid"
      BY <2>2 DEF Route
    <2>4. (\A l \in Legs : leg'[l].ok) /\ \A l \in Legs : leg'[l].st \in {"off", "sent"}
      BY <2>1 DEF Legs
    <2>5. QED
      BY <2>2, <2>3, <2>4 DEF Told, Lacks
  <1>5. QED
    BY <1>1, <1>2, <1>3, <1>4

(* What was told stays, and no hit gets another source. *)
LEMMA RouteStays ==
  ASSUME SearchInv, RouteInv, pc \in Answering, pc' \in Answering, UNCHANGED <<req, leg>>,
         resp' = resp \/ resp' = [resp EXCEPT !.route = Route],
         \A i \in DOMAIN results' : results'[i].src \in {results[j].src : j \in DOMAIN results} \cup {"graph"}
  PROVE  Told' /\ Route' = Route
  <1>1. resp \in Answers
    BY DEF SearchInv, TypeOK
  <1>2. /\ resp'.keyword = resp.keyword /\ resp'.fallback = resp.fallback /\ resp'.degraded = resp.degraded
        /\ resp'.route \in {resp.route, Route}
    BY <1>1 DEF Answers
  <1>3. Route' = Route
    BY <1>2 DEF Route
  <1>4. \A s \in {"vector", "keyword"} : Lacks(results, s) => Lacks(results', s)
    BY DEF Lacks
  <1>5. Told
    BY DEF RouteInv
  <1>6. QED
    BY <1>2, <1>3, <1>4, <1>5 DEF Told, Lacks

LEMMA RouteSearching ==
  ASSUME SearchInv, RouteInv, Searching
  PROVE  RouteInv'
  <1>0. leg \in [Legs -> LegStates] /\ "vector" \in Legs /\ "keyword" \in Legs /\ resp \in Answers
    BY DEF SearchInv, TypeOK, LegStates, Legs
  <1>1. CASE pc' = "failed" /\ leg' = leg
    BY <1>1 DEF RouteInv, Lacks, Answering
  <1>2. CASE ChooseDims
    BY <1>2 DEF ChooseDims, RouteInv, Lacks, Answering
  <1>3. CASE Embed
    <2>1. /\ pc' = "legs" /\ UNCHANGED <<req, results, resp>> /\ req.mode \in {"vector", "hybrid"} /\ resp = Blank
          /\ leg' = [l \in Legs |-> IF l = "vector" \/ req.mode = "hybrid"
                                    THEN [IdleLeg EXCEPT !.st = "query"] ELSE IdleLeg]
      BY <1>3 DEF Embed, RouteInv
    <2>2. \A l \in Legs : ~leg'[l].ok /\ leg'[l].found = <<>>
      BY <2>1 DEF IdleLeg
    <2>3. req.mode = "vector" => leg'["keyword"].st = "off"
      BY <1>0, <2>1 DEF IdleLeg
    <2>4. Lacks(leg["vector"].found, "keyword")'
      BY <1>0, <2>2 DEF Lacks
    <2>5. pc' = "legs" /\ resp' = Blank /\ req'.mode \in {"vector", "hybrid"} /\ req' = req
      BY <2>1
    <2>6. QED
      BY <2>2, <2>3, <2>4, <2>5 DEF RouteInv, Answering
  <1>4. CASE Keywords \/ FallBack \/ VectorOnly \/ KeywordLost \/ Fuse
    <2>1. CASE pc' = "rerank"
      <3>1. pc \in {"retrieve", "legs"} /\ req' = req
        BY <1>4 DEF Keywords, FallBack, VectorOnly, KeywordLost, Fuse, Received
      <3>2. leg' = leg \/ leg' = Settled
        BY <1>4 DEF Keywords, FallBack, VectorOnly, KeywordLost, Fuse
      <3>3. \A l \in Legs : /\ leg'[l].ok = leg[l].ok /\ leg'[l].st = leg[l].st
                            /\ leg'[l].found \in {leg[l].found, <<>>}
        <4>1. ASSUME NEW l \in Legs, leg' = Settled
              PROVE  leg'[l].ok = leg[l].ok /\ leg'[l].st = leg[l].st /\ leg'[l].found = <<>>
          <5>1. leg'[l] = [leg[l] EXCEPT !.found = <<>>] /\ leg[l] \in LegStates
            BY <1>0, <4>1 DEF Settled
          <5>2. QED
            BY <5>1 DEF LegStates
        <4>2. QED
          BY <3>2, <4>1
      <3>4. Told' /\ \A l \in Legs : leg'[l].st \in {"off", "sent"}
        BY <1>4, <2>1, <3>1, <3>3, RouteTold
      <3>5. Lacks(leg'["vector"].found, "keyword")
        BY <1>0, <3>3 DEF RouteInv, Lacks
      <3>6. \A l \in Legs : leg'[l].ok => leg'[l].st \in {"send", "sent"}
        BY <3>3 DEF RouteInv
      <3>7. QED
        BY <2>1, <3>4, <3>5, <3>6 DEF RouteInv, Lacks
    <2>2. CASE pc' # "rerank"
      <3>1. pc' = "failed" /\ leg' = leg
        BY <1>4, <2>2 DEF Keywords, FallBack, VectorOnly, KeywordLost, Fuse, Fail
      <3>2. QED
        BY <1>1, <3>1
    <2>3. QED
      BY <2>1, <2>2
  <1>5. ASSUME pc \in Answering, pc' \in Answering, leg' = leg, req' = req,
               IF pc' = "done" THEN resp' = [resp EXCEPT !.route = Route] ELSE resp' = resp,
               \A i \in DOMAIN results' : results'[i].src \in {results[j].src : j \in DOMAIN results} \cup {"graph"}
        PROVE  RouteInv'
    <2>0. /\ pc \in Answering /\ pc' \in Answering /\ UNCHANGED <<req, leg>>
          /\ resp' = resp \/ resp' = [resp EXCEPT !.route = Route]
      BY <1>5, Zenon
    <2>1. Told' /\ Route' = Route
      BY <1>5, <2>0, RouteStays
    <2>2. pc' = "done" => resp'.route = Route'
      BY <1>0, <1>5, <2>1 DEF Answers
    <2>3. pc' \notin {"idle", "model", "retrieve", "legs"}
      BY <2>0 DEF Answering
    <2>4. \A l \in Legs : leg'[l].st \in {"off", "sent"}
      BY <2>0 DEF RouteInv
    <2>5. Lacks(leg["vector"].found, "keyword")'
      BY <2>0 DEF RouteInv, Lacks
    <2>6. QED
      BY <2>0, <2>1, <2>2, <2>3, <2>4, <2>5 DEF RouteInv
  <1>6. ASSUME results' = results
        PROVE  \A i \in DOMAIN results' : results'[i].src \in {results[j].src : j \in DOMAIN results} \cup {"graph"}
    BY <1>6
  <1>7. CASE Rerank
    <2>1. results' \in Permuted(results) /\ UNCHANGED <<req, leg, resp>>
      BY <1>7 DEF Rerank
    <2>2. \A i \in DOMAIN results' : results'[i] \in {results[j] : j \in DOMAIN results}
      BY <2>1 DEF Permuted
    <2>3. pc \in Answering /\ pc' \in Answering /\ pc' # "done"
      BY <1>7 DEF Rerank, Answering
    <2>4. QED
      BY <1>5, <2>1, <2>2, <2>3
  <1>8. CASE FetchChunks
    <2>1. PICK S : (\A h \in S : h.src = "graph") /\ results' \in Merges(S)
      <3>1. PICK unread \in SUBSET Found, pick \in [Found -> Hashes \cup {Absent}] :
              results' \in Merges({GraphHit(q, pick[q]) : q \in Found})
        BY <1>8 DEF FetchChunks
      <3>2. \A h \in {GraphHit(q, pick[q]) : q \in Found} : h.src = "graph"
        BY DEF GraphHit
      <3>3. QED
        BY <3>1, <3>2
    <2>2. \A i \in DOMAIN results' : results'[i] \in {results[j] : j \in DOMAIN results} \cup S
      BY <2>1 DEF Merges
    <2>3. pc \in Answering /\ pc' \in Answering /\ pc' # "done" /\ UNCHANGED <<req, leg, resp>>
      BY <1>8 DEF FetchChunks, Answering, Others
    <2>4. QED
      BY <1>5, <2>1, <2>2, <2>3
  <1>9. CASE \/ Seed \/ QueryGraph \/ QueryNothing \/ FetchNeighbours \/ NoNeighbours \/ WalkGraph \/ EndWalk
             \/ Annotate
    <2>1. results' = results /\ UNCHANGED <<req, leg, resp>>
      BY <1>9 DEF Seed, QueryGraph, QueryNothing, FetchNeighbours, NoNeighbours, WalkGraph, EndWalk, Annotate,
           Others, Keep2
    <2>2. pc \in Answering /\ pc' \in Answering /\ pc' # "done"
      BY <1>9 DEF Seed, QueryGraph, QueryNothing, FetchNeighbours, NoNeighbours, WalkGraph, EndWalk, Annotate,
           Answering
    <2>3. QED
      BY <1>5, <1>6, <2>1, <2>2
  <1>10. CASE AnnotateNothing \/ Compare
    <2>1. results' = results /\ UNCHANGED <<req, leg>> /\ resp' = [resp EXCEPT !.route = Route]
      BY <1>10 DEF AnnotateNothing, Compare, Keep2
    <2>2. pc \in Answering /\ pc' = "done" /\ pc' \in Answering
      BY <1>10 DEF AnnotateNothing, Compare, Answering
    <2>3. QED
      BY <1>5, <1>6, <2>1, <2>2
  <1>11. CASE EmbedFails \/ VectorLost
    BY <1>1, <1>11 DEF EmbedFails, VectorLost, Fail
  <1>12. QED
    BY <1>2, <1>3, <1>4, <1>7, <1>8, <1>9, <1>10, <1>11 DEF Searching

LEMMA RouteNext == SearchInv /\ RouteInv /\ [Next]_vars => RouteInv'
  <1> SUFFICES ASSUME SearchInv, RouteInv, [Next]_vars PROVE RouteInv'
    OBVIOUS
  <1>1. CASE Begin
    BY <1>1 DEF Begin, Keep, Fail, RouteInv, Lacks, Answering
  <1>2. CASE UNCHANGED vars \/ Indexing
    <2>1. UNCHANGED <<pc, req, leg, results, resp>>
      BY <1>2 DEF vars, searchVars, Indexing, Publish, Edit, IndexFile, Prune
    <2>2. Route' = Route /\ (Told' <=> Told)
      BY <2>1 DEF Route, Told, Lacks
    <2>3. QED
      BY <2>1, <2>2 DEF RouteInv, Lacks
  <1>3. QED
    BY <1>1, <1>2, RouteSearching, RouteRetrieving DEF Next

(* The response of a search says how it was found (internal/search/hybrid.go, hybridFuseRoute,  *)
(* and service.go): "hybrid" only if both legs answered, whatever fails, and a fallback or a    *)
(* degraded answer holds keyword hits only, but for what the expansion adds.                    *)
THEOREM RoutesAreDisclosed == Spec => []RouteDisclosed
  <1>1. RouteInv => RouteDisclosed
    BY DEF RouteInv, Told, RouteDisclosed, From, Lacks, Answering
  <1>2. Spec => []RouteInv
    BY RouteStart, RouteNext, SearchHolds, PTL DEF Spec
  <1>3. QED
    BY <1>1, <1>2, PTL

(***************************************************************************)
(* Which project a question is about.                                      *)
(***************************************************************************)

(* The catalogs an index may hold, and the one before a command starts. *)
AnyCatalog == Catalogs \cup {{}}

Different(L, M) == (L \ M) \cup (M \ L)

(* The references a question is about. *)
RefsAsked == IF call.refs = {Omitted} THEN {default} ELSE call.refs

(* The project q was chosen for the reference r. *)
ChosenFor(r, q) ==
  \/ Denotes(r, cwd, q) \/ SharesName(r, q)
  \/ Base = "cliRemote" /\ q \in Enclosing(cwd, known)

(* A target is what was asked for, or a project chosen for it. *)
Stands(u) ==
  \/ Base \in {"local", "remote", "http"} /\ u \in RefsAsked
  \/ \E r \in RefsAsked : \E q \in known :
       /\ ChosenFor(r, q)
       /\ \/ (Base = "cli" \/ (Base # "local" /\ call.tool = "multi")) /\ u = Identified(q.identity)
          \/ Base = "cliRemote" /\ u = Word(q.name)

TargetsMeant == (~MeansHere /\ call.refs # {Everything}) => \A u \in targets : Stands(u)

(* Asked from inside an indexed repository, its identity or its name is the target. *)
TargetHere ==
  MeansHere =>
    /\ call.tool # "multi"
    /\ \A p \in ByIdentity(GitIdentity(cwd), known) :
         targets = {IF Base = "cli" THEN Identified(p.identity) ELSE Word(p.name)}

ProjectTools == {"search", "multi", "ask", "intel", "status", "graph", "depgraph", "git", "reindex"}
Kinds == {"local", "remote", "http", "cli", "cliRemote"}

Surface ==
  /\ Base \in Kinds
  /\ Base \in {"cli", "http"} => default = Omitted
  /\ Base = "cli" => tools \subseteq {"search", "status", "graph"}

ToolsInv ==
  /\ step \in {"idle", "open", "chosen", "answered"}
  /\ catalog \in AnyCatalog /\ known \in AnyCatalog
  /\ step # "idle" => Surface
  /\ step # "answered" => answer = {}
  /\ step = "chosen" =>
       /\ call.tool \in ProjectTools
       /\ catalog = known \/ Cardinality(Different(catalog, known)) = 1
       /\ TargetsMeant /\ TargetHere
  /\ HereIsHere /\ NamedIsMeant

LEMMA RowFacts ==
  ASSUME NEW L \in AnyCatalog
  PROVE  /\ IsFiniteSet(L)
         /\ \A p, q \in L : p.identity = q.identity => p = q
         /\ \A p \in L : /\ p.name \in DOMAIN Folded /\ p.path \in Dirs \cup {Nowhere}
                         /\ p.identity # NoIdentity /\ p.identity # <<"path", Nowhere>>
                         /\ p.identity[1] = "name" => p.identity = <<"name", p.name>>
  <1>1. CASE L \in Catalogs
    <2>1. \A p, q \in L : p.identity = q.identity => p = q
      BY <1>1, CatalogsAreRows
    <2>2. IsFiniteSet(L)
      BY <1>1, CatalogsAreRows, Zenon
    <2>3. QED
      BY <1>1, <2>1, <2>2, CatalogsAreRows
  <1>2. CASE L = {}
    BY <1>2, FS_EmptySet
  <1>3. QED
    BY <1>1, <1>2 DEF AnyCatalog

(* One row more or less leaves no two rows of one identity. *)
LEMMA OneRow ==
  ASSUME NEW L \in AnyCatalog, NEW M \in AnyCatalog,
         L = M \/ Cardinality(Different(L, M)) = 1,
         NEW p \in L, NEW q \in M, p.identity = q.identity
  PROVE  p = q
  <1> SUFFICES ASSUME p # q PROVE FALSE
    OBVIOUS
  <1>1. p \notin M /\ q \notin L
    BY RowFacts, ZenonT(60)
  <1>2. p \in Different(L, M) /\ q \in Different(L, M)
    BY <1>1 DEF Different
  <1>3. IsFiniteSet(Different(L, M))
    <2>1. IsFiniteSet(L) /\ IsFiniteSet(M)
      BY RowFacts, Zenon
    <2>2. IsFiniteSet(L \cup M)
      BY <2>1, FS_Union, Zenon
    <2>3. Different(L, M) \subseteq L \cup M
      BY DEF Different
    <2>4. QED
      BY <2>2, <2>3, FS_Subset, Zenon
  <1>4. Cardinality(Different(L, M)) = 1
    BY <1>1
  <1>5. PICK x : Different(L, M) = {x}
    BY <1>3, <1>4, FS_Singleton, Zenon
  <1>6. QED
    BY <1>2, <1>5

LEMMA RefShapes ==
  /\ Omitted # Dot
  /\ \A w : NameIn(Word(w)) = w /\ IdentityIn(Word(w)) = <<"name", w>>
  /\ \A id : NameIn(Identified(id)) = "" /\ IdentityIn(Identified(id)) = id
  /\ \A id, d : PlaceIn(Identified(id), d) = Nowhere
  /\ \A d : PlaceIn(Dot, d) = d
  BY DEF Omitted, Dot, Word, Identified, NameIn, IdentityIn, PlaceIn

(* No directory lies around no place. *)
LEMMA NothingAroundNowhere ==
  ASSUME NEW L \in AnyCatalog
  PROVE  Enclosing(Nowhere, L) = {}
  <1>1. ASSUME NEW p \in L, p.path # Nowhere, IsPrefix(p.path, Nowhere) PROVE FALSE
    <2>1. p.path \in Seq(STRING)
      BY <1>1, RowFacts, PlacesAreReal
    <2>2. Len(p.path) <= 0
      BY <1>1 DEF IsPrefix, Nowhere
    <2>3. QED
      BY <1>1, <2>1, <2>2 DEF Nowhere
  <1>2. QED
    BY <1>1, Zenon DEF Enclosing, FirstListed

LEMMA NowhereIsNoRepo == GitIdentity(Nowhere) = NoIdentity
  BY PlacesAreReal DEF GitIdentity, Toplevel

(* What a reference resolves to is denoted by it, or lies around the caller. *)
LEMMA ResolvedMeans ==
  ASSUME NEW L \in AnyCatalog, NEW r, NEW from, NEW here,
         NEW p \in ResolveInList(r, from, here, L) \ {Ambiguous}
  PROVE  p \in L /\ (Denotes(r, from, p) \/ p \in Enclosing(here, L))
  <1>1. CASE p \in ByPlace(PlaceIn(r, from), L)
    BY <1>1 DEF ByPlace, OrElse, ByIdentity, Denotes
  <1>2. CASE p \in ByName(NameIn(r), L)
    BY <1>2 DEF ByName, Denotes
  <1>3. CASE p \in ByIdentity(IdentityIn(r), L)
    BY <1>3 DEF ByIdentity, Denotes
  <1>4. CASE p \in ByIndexedPath(PlaceIn(r, from), L)
    BY <1>4 DEF ByIndexedPath, FirstListed, Denotes
  <1>5. CASE p \in Enclosing(here, L)
    BY <1>5 DEF Enclosing, FirstListed
  <1>6. QED
    BY <1>1, <1>2, <1>3, <1>4, <1>5 DEF ResolveInList, OrElse

LEMMA ResolveMeans ==
  ASSUME NEW L \in AnyCatalog, NEW r, NEW from, NEW p \in Resolve(r, from, L, TRUE) \ {Ambiguous}
  PROVE  p \in L /\ Denotes(r, from, p)
  BY ResolvedMeans, NothingAroundNowhere DEF Resolve

LEMMA RowMeans ==
  ASSUME NEW L \in AnyCatalog, NEW r, NEW from,
         NEW p \in L, p \in ByRow(NameIn(r), L) \/ p \in ByIdentity(IdentityIn(r), L)
  PROVE  Denotes(r, from, p)
  BY RowFacts DEF ByRow, ByIdentity, Denotes

(* The name of a project finds that project, unless it is blurred. *)
LEMMA WordMeans ==
  ASSUME catalog \in AnyCatalog, known \in AnyCatalog, NEW q \in known, NEW p \in catalog,
         \/ p \in Resolve(Word(q.name), LookupDir, catalog, TRUE) \ {Ambiguous}
         \/ p \in ByRow(q.name, catalog) \/ p \in ByIdentity(<<"name", q.name>>, catalog)
  PROVE  p = q \/ Blurred(q)
  <1> SUFFICES ASSUME p # q PROVE Blurred(q)
    OBVIOUS
  <1>1. CASE Folded[p.name] = Folded[q.name] \/ p.path = PlaceIn(Word(q.name), LookupDir)
    BY <1>1, Zenon DEF Blurred
  <1>2. CASE p \in ByRow(q.name, catalog)
    BY <1>1, <1>2 DEF ByRow
  <1>3. CASE p \in ByIdentity(<<"name", q.name>>, catalog)
    <2>1. p.identity = <<"name", q.name>>
      BY <1>3 DEF ByIdentity
    <2>2. p.identity = <<"name", p.name>>
      BY <2>1, RowFacts
    <2>3. QED
      BY <1>1, <2>1, <2>2
  <1>4. CASE p \in Resolve(Word(q.name), LookupDir, catalog, TRUE) \ {Ambiguous}
    <2>1. CASE p \in ByPlace(PlaceIn(Word(q.name), LookupDir), catalog)
      BY <2>1 DEF Blurred
    <2>2. CASE p \in ByName(q.name, catalog)
      BY <1>1, <1>4, <2>2 DEF ByName
    <2>3. CASE p \in ByIndexedPath(PlaceIn(Word(q.name), LookupDir), catalog)
      BY <1>1, <2>3 DEF ByIndexedPath, FirstListed
    <2>4. QED
      BY <1>3, <1>4, <2>1, <2>2, <2>3, RefShapes, NothingAroundNowhere
      DEF Resolve, ResolveInList, OrElse
  <1>5. QED
    BY <1>2, <1>3, <1>4

(* What the index answers for a name handed on. *)
LEMMA WordAnswers ==
  ASSUME catalog \in AnyCatalog, known \in AnyCatalog, Base \in Kinds \ {"cli"}, NEW t \in ProjectTools,
         NEW q \in known, NEW p \in catalog, p \in Looked(t, Word(q.name))
  PROVE  p = q \/ Blurred(q)
  <1> DEFINE u == Word(q.name)
  <1>1. NameIn(u) = q.name /\ IdentityIn(u) = <<"name", q.name>>
    BY RefShapes
  <1>2. p \in ByNameOrIdentity(u) => p \in ByRow(q.name, catalog) \/ p \in ByIdentity(<<"name", q.name>>, catalog)
    BY <1>1 DEF ByNameOrIdentity, OrElse
  <1> HIDE DEF u
  <1>3. CASE Base = "local"
    <2>1. LookupDir = cwd
      BY <1>3 DEF LookupDir
    <2>2. p \in Locally(t, u)
      BY <1>3 DEF Looked, u
    <2>3. p \in Resolve(u, LookupDir, catalog, TRUE) \ {Ambiguous} \/ p \in ByNameOrIdentity(u)
      BY <2>1, <2>2 DEF Locally, ProjectTools
    <2>4. QED
      BY <2>3, <1>2, WordMeans DEF u
  <1>4. CASE Base # "local"
    <2>1. LookupDir = ServerDir
      BY <1>4 DEF LookupDir
    <2>2. p \in InServer(t, u)
      BY <1>4 DEF Looked, OverHTTP, Kinds, u
    <2>3. \/ p \in Resolve(u, LookupDir, catalog, TRUE) \ {Ambiguous}
          \/ p \in ByRow(q.name, catalog) \/ p \in ByIdentity(<<"name", q.name>>, catalog)
      BY <2>1, <2>2, <1>1 DEF InServer
    <2>4. QED
      BY <2>3, WordMeans DEF u
  <1>5. QED
    BY <1>3, <1>4

(* What the index answers for a reference as it was given. *)
LEMMA RefAnswers ==
  ASSUME catalog \in AnyCatalog, Base \in {"local", "remote", "http"}, NEW t \in ProjectTools, NEW r,
         NEW p \in catalog, p \in Looked(t, r)
  PROVE  Denotes(r, LookupDir, p)
  <1>1. p \in ByNameOrIdentity(r) => p \in ByRow(NameIn(r), catalog) \/ p \in ByIdentity(IdentityIn(r), catalog)
    BY DEF ByNameOrIdentity, OrElse
  <1>2. CASE Base = "local"
    <2>1. LookupDir = cwd
      BY <1>2 DEF LookupDir
    <2>2. p \in Locally(t, r)
      BY <1>2 DEF Looked
    <2>3. p \in Resolve(r, LookupDir, catalog, TRUE) \ {Ambiguous} \/ p \in ByNameOrIdentity(r)
      BY <2>1, <2>2 DEF Locally, ProjectTools
    <2>4. QED
      BY <2>3, <1>1, ResolveMeans, RowMeans
  <1>3. CASE Base # "local"
    <2>1. LookupDir = ServerDir
      BY <1>3 DEF LookupDir
    <2>2. p \in InServer(t, r)
      BY <1>3 DEF Looked, OverHTTP
    <2>3. \/ p \in Resolve(r, LookupDir, catalog, TRUE) \ {Ambiguous}
          \/ p \in ByRow(NameIn(r), catalog) \/ p \in ByIdentity(IdentityIn(r), catalog)
      BY <2>1, <2>2 DEF InServer
    <2>4. QED
      BY <2>3, ResolveMeans, RowMeans
  <1>4. QED
    BY <1>2, <1>3

(* What the index answers for an identity handed on. *)
LEMMA IdentityAnswers ==
  ASSUME Base \in Kinds, NEW t, Base = "cli" \/ (Base # "local" /\ t = "multi"),
         NEW id, NEW p \in Looked(t, Identified(id))
  PROVE  p.identity = id
  BY RefShapes DEF Looked, OverHTTP, InServer, ByIdentity, Kinds

(* The project of the caller's repository is the only one of its identity. *)
LEMMA IdentityAlone ==
  ASSUME NEW L \in AnyCatalog, NEW p \in L
  PROVE  ByIdentity(p.identity, L) = {p}
  BY RowFacts DEF ByIdentity

LEMMA HereFirst ==
  ASSUME NEW L \in AnyCatalog, NEW d, NEW p \in ByIdentity(GitIdentity(d), L)
  PROVE  /\ Here(d, L) = {p} /\ ByPlace(d, L) = {p} /\ FromCwd(d, L) = {p}
         /\ Resolve(Dot, d, L, TRUE) = {p} /\ p \in L /\ p # Ambiguous
         /\ Indexed(d, FALSE, FALSE).identity = p.identity
  <1>1. p \in L /\ p.identity = GitIdentity(d) /\ p.identity # NoIdentity
    BY RowFacts DEF ByIdentity
  <1>2. ByIdentity(GitIdentity(d), L) = {p}
    BY <1>1, IdentityAlone
  <1>3. Here(d, L) = {p} /\ ByPlace(d, L) = {p}
    BY <1>2 DEF Here, ByPlace, OrElse
  <1>4. Resolve(Dot, d, L, TRUE) = {p}
    BY <1>3, RefShapes DEF Resolve, ResolveInList, OrElse
  <1>5. p # Ambiguous
    <2>1. Ambiguous.identity = NoIdentity
      BY DEF Ambiguous
    <2>2. QED
      BY <1>1, <2>1
  <1>6. FromCwd(d, L) = {p}
    <2> DEFINE r == Identified(GitIdentity(d))
    <2>1. PlaceIn(r, d) = Nowhere /\ NameIn(r) = "" /\ IdentityIn(r) = GitIdentity(d)
      BY RefShapes
    <2> HIDE DEF r
    <2>2. ByPlace(Nowhere, L) = {}
      BY RowFacts, NowhereIsNoRepo DEF ByPlace, OrElse, ByIdentity
    <2>3. ByName("", L) = {}
      <3>1. {q \in L : "" \in DOMAIN Folded /\ Folded[q.name] = Folded[""]} = {}
        BY PlacesAreReal
      <3>2. PICK none : none = {q \in L : "" \in DOMAIN Folded /\ Folded[q.name] = Folded[""]}
        OBVIOUS
      <3>3. none = {} /\ Cardinality(none) = 0
        BY <3>1, <3>2, FS_EmptySet
      <3>4. ~(Cardinality(none) > 1)
        BY <3>3
      <3>5. QED
        BY <3>2, <3>3, <3>4, Zenon DEF ByName
    <2>4. ResolveInList(r, d, Nowhere, L) = {p}
      BY <1>2, <2>1, <2>2, <2>3 DEF ResolveInList, OrElse
    <2>5. Unambiguous(r, d, L) = {p}
      BY <1>5, <2>4 DEF Unambiguous
    <2>6. QED
      BY <1>1, <2>5 DEF FromCwd, OrElse, r
  <1>7. Indexed(d, FALSE, FALSE).identity = p.identity
    BY <1>1 DEF Indexed, GitIdentity
  <1>8. QED
    BY <1>1, <1>3, <1>4, <1>5, <1>6, <1>7

(***************************************************************************)
(* Choosing the project.                                                   *)
(***************************************************************************)
LEMMA BaseKinds ==
  ASSUME NEW ls \in Stacks
  PROVE  ls[Len(ls)] \in {"local", "remote", "http"} /\ (ls[Len(ls)] = "http" => ls = <<"http">>)
  BY SMTT(60) DEF Stacks

(* What a tool of the index is given for one reference. *)
LEMMA ForToolMeans ==
  ASSUME Base \in {"local", "remote", "http"}, NEW t, NEW r,
         r # Dot, r = Omitted => default # Omitted
  PROVE  Alternatives(t, r) = {{IF r = Omitted THEN default ELSE r}}
  BY DEF Alternatives, ForTool, Kinds

LocallyMeant(t, r, T) ==
  \E q \in catalog : /\ \/ Denotes(r, cwd, q)
                        \/ t = "status" /\ q.name = Indexed(PlaceIn(r, cwd), FALSE, FALSE).name
                     /\ T = {Identified(q.identity)}

(* The targets of the local command are projects the reference means. *)
LEMMA LocalMeans ==
  ASSUME catalog \in AnyCatalog, Base = "cli", NEW t \in {"search", "status", "graph"},
         NEW r, r # Omitted, NEW T \in LocalTarget(t, r)
  PROVE  LocallyMeant(t, r, T)
  <1>1. CASE t # "status"
    <2>1. PICK q \in Resolve(r, cwd, catalog, TRUE) \ {Ambiguous} : T = {Identified(q.identity)}
      BY <1>1 DEF LocalTarget, Held
    <2>2. q \in catalog /\ Denotes(r, cwd, q)
      BY ResolveMeans
    <2>3. QED
      BY <2>1, <2>2 DEF LocallyMeant
  <1>2. CASE t = "status"
    <2> DEFINE place == Indexed(PlaceIn(r, cwd), FALSE, FALSE)
    <2>1. PICK q \in catalog : /\ q.identity = place.identity \/ q.name = place.name
                               /\ T = {Identified(q.identity)}
      BY <1>2 DEF LocalTarget, Held, OrElse, ByIdentity, ByRow
    <2>2. CASE q.name = place.name
      BY <1>2, <2>1, <2>2 DEF LocallyMeant
    <2>3. CASE q.identity = place.identity
      <3>1. place.identity \in {GitIdentity(PlaceIn(r, cwd)), <<"path", PlaceIn(r, cwd)>>}
        BY DEF Indexed, GitIdentity
      <3>2. QED
        BY <2>1, <2>3, <3>1 DEF Denotes, LocallyMeant
    <2>4. QED
      BY <2>1, <2>2, <2>3
  <1>3. QED
    BY <1>1, <1>2

LEMMA RemoteMeans ==
  ASSUME catalog \in AnyCatalog, Base = "cliRemote", NEW t, NEW r, r \notin {Omitted, Dot},
         NEW T \in Alternatives(t, r)
  PROVE  \E q \in catalog : /\ Denotes(r, cwd, q) \/ q \in Enclosing(cwd, catalog)
                            /\ T = {Word(q.name)}
  <1>1. Alternatives(t, r) = Named(ResolveInList(r, cwd, cwd, catalog) \ {Ambiguous})
    BY DEF Alternatives, RemoteTarget, ResolveRemote
  <1>2. PICK q \in ResolveInList(r, cwd, cwd, catalog) \ {Ambiguous} : T = {Word(q.name)}
    BY <1>1 DEF Named
  <1>3. QED
    BY <1>2, ResolvedMeans

(* Asked where an indexed repository is, every surface chooses that repository. *)
LEMMA HereIsChosen ==
  ASSUME catalog \in AnyCatalog, Base \in Kinds,
         NEW t, Base = "cli" => t \in {"search", "status", "graph"} /\ default = Omitted,
         NEW r, r = Dot \/ (r = Omitted /\ (default = Omitted \/ Base = "cliRemote")),
         NEW p \in ByIdentity(GitIdentity(cwd), catalog), NEW T \in Alternatives(t, r)
  PROVE  T = {IF Base = "cli" THEN Identified(p.identity) ELSE Word(p.name)}
  <1>1. /\ Here(cwd, catalog) = {p} /\ FromCwd(cwd, catalog) = {p}
        /\ Resolve(Dot, cwd, catalog, TRUE) = {p} /\ p \in catalog /\ p # Ambiguous
        /\ Indexed(cwd, FALSE, FALSE).identity = p.identity
    BY HereFirst
  <1>2. CASE Base = "cli"
    <2>1. Held({p}) = {{Identified(p.identity)}}
      BY DEF Held
    <2>2. Alternatives(t, r) = LocalTarget(t, r)
      BY <1>2 DEF Alternatives
    <2>3. CASE t = "status"
      <3>1. PlaceIn(Dot, cwd) = cwd
        BY RefShapes
      <3>2. ByIdentity(p.identity, catalog) = {p}
        BY <1>1, IdentityAlone
      <3>3. LocalTarget(t, r) = Held({p})
        BY <1>1, <2>3, <3>1, <3>2 DEF LocalTarget, OrElse
      <3>4. QED
        BY <1>2, <2>1, <2>2, <3>3
    <2>4. CASE t # "status" /\ r = Dot
      <3>1. LocalTarget(t, r) = Held({p})
        BY <1>1, <2>4, RefShapes DEF LocalTarget
      <3>2. QED
        BY <1>2, <2>1, <2>2, <3>1
    <2>5. CASE t # "status" /\ r = Omitted
      <3>1. LocalTarget(t, r) = Held({p})
        BY <1>1, <1>2, <2>1, <2>5 DEF LocalTarget, OrElse
      <3>2. QED
        BY <1>2, <2>1, <2>2, <3>1
    <2>6. QED
      BY <2>3, <2>4, <2>5
  <1>3. CASE Base # "cli"
    <2>1. Alternatives(t, r) \in {Named({p}), {}}
      <3>1. CASE Base = "cliRemote"
        BY <1>1, <3>1 DEF Alternatives, RemoteTarget, ResolveRemote
      <3>2. CASE Base # "cliRemote"
        <4>1. Alternatives(t, r) = Named(CwdProject)
          BY <1>3, <3>2, RefShapes DEF Alternatives, ForTool
        <4>2. CwdProject \in {{p}, {}}
          BY <1>1 DEF CwdProject
        <4>3. Named({}) = {}
          BY DEF Named
        <4>4. QED
          BY <4>1, <4>2, <4>3
      <3>3. QED
        BY <3>1, <3>2
    <2>2. Named({p}) = {{Word(p.name)}}
      BY DEF Named
    <2>3. QED
      BY <1>3, <2>1, <2>2
  <1>4. QED
    BY <1>2, <1>3

(***************************************************************************)
(* The steps.                                                              *)
(***************************************************************************)
LEMMA StepOpen ==
  ASSUME ToolsInv,
         \/ \E ls \in Stacks, allowed \in AllowLists : Serve(ls, allowed)
         \/ \E kind \in {"cli", "cliRemote"} : Command(kind)
  PROVE  ToolsInv'
  <1>1. /\ step = "idle" /\ step' = "open" /\ catalog' \in Catalogs
        /\ known' = known /\ answer' = answer
    BY DEF Serve, Command
  <1>2. ASSUME NEW ls \in Stacks, NEW allowed \in AllowLists, Serve(ls, allowed) PROVE Surface'
    <2>1. /\ Base' = ls[Len(ls)]
          /\ ls = <<"http">> => default' = Omitted
      BY <1>2 DEF Serve, Base
    <2>2. Base' \in {"local", "remote", "http"} /\ (Base' = "http" => ls = <<"http">>)
      <3>1. ls[Len(ls)] \in {"local", "remote", "http"} /\ (ls[Len(ls)] = "http" => ls = <<"http">>)
        BY BaseKinds
      <3>2. QED
        BY <2>1, <3>1, Zenon
    <2>3. QED
      BY <2>1, <2>2 DEF Surface, Kinds
  <1>3. ASSUME NEW kind \in {"cli", "cliRemote"}, Command(kind) PROVE Surface'
    <2>1. Base' = kind
      BY <1>3 DEF Command, Base
    <2>2. kind = "cli" => default' = Omitted /\ tools' = {"search", "status", "graph"}
      BY <1>3 DEF Command, Offers
    <2>3. QED
      BY <2>1, <2>2 DEF Surface, Kinds
  <1>4. QED
    BY <1>1, <1>2, <1>3 DEF ToolsInv, AnyCatalog, HereIsHere, NamedIsMeant

(* One project. *)
LEMMA StepAsk ==
  ASSUME ToolsInv, NEW t \in ToolNames, NEW r \in Refs, NEW write \in BOOLEAN, AskAbout(t, r, write)
  PROVE  ToolsInv'
  <1>1. /\ step = "open" /\ answer = {} /\ catalog \in AnyCatalog /\ Surface
        /\ t \in tools \cap AboutProject
        /\ call'.tool = t /\ call'.refs = {r} /\ known' = catalog
        /\ layers' = layers /\ cwd' = cwd /\ default' = default /\ tools' = tools
        /\ catalog' = catalog /\ answer' = answer
    BY DEF AskAbout, ToolsInv
  <1>2. Base' = Base /\ (Surface' <=> Surface) /\ Base \in Kinds
    BY <1>1 DEF Base, Surface
  <1>3. /\ RefsAsked' = {IF r = Omitted THEN default ELSE r}
        /\ MeansHere' <=> (r = Dot \/ (r = Omitted /\ (default = Omitted \/ Base = "cliRemote")))
    BY <1>1, <1>2 DEF RefsAsked, MeansHere
  <1>4. t \in ProjectTools \ {"multi"}
    BY <1>1 DEF AboutProject, ToolNames, Always, ProjectTools
  <1>5. CASE step' = "answered"
    BY <1>1, <1>2, <1>5 DEF ToolsInv, HereIsHere, NamedIsMeant
  <1>6. CASE step' = "chosen"
    <2>1. PICK T \in Alternatives(t, r) : targets' = T
      BY <1>6 DEF AskAbout
    <2>2. TargetHere'
      <3>1. ASSUME MeansHere', NEW p \in ByIdentity(GitIdentity(cwd), catalog)
            PROVE  targets' = {IF Base = "cli" THEN Identified(p.identity) ELSE Word(p.name)}
        <4>1. Base = "cli" => t \in {"search", "status", "graph"} /\ default = Omitted
          BY <1>1 DEF Surface
        <4>2. QED
          BY <1>1, <1>2, <1>3, <2>1, <3>1, <4>1, HereIsChosen
      <3>2. QED
        BY <1>1, <1>2, <1>4, <3>1 DEF TargetHere
    <2>3. TargetsMeant'
      <3> SUFFICES ASSUME ~MeansHere', NEW u \in targets' PROVE Stands(u)'
        BY DEF TargetsMeant
      <3>1. r # Dot /\ (r = Omitted => default # Omitted /\ Base # "cliRemote")
        BY <1>3
      <3>2. CASE Base \in {"local", "remote", "http"}
        <4>1. u = IF r = Omitted THEN default ELSE r
          BY <2>1, <3>1, <3>2, ForToolMeans
        <4>2. QED
          BY <1>2, <1>3, <3>2, <4>1 DEF Stands
      <3>3. CASE Base = "cli"
        <4>1. r # Omitted /\ t \in {"search", "status", "graph"}
          BY <1>1, <3>1, <3>3 DEF Surface
        <4>2. targets' \in LocalTarget(t, r)
          BY <2>1, <3>3 DEF Alternatives
        <4>3. PICK q \in catalog :
                /\ \/ Denotes(r, cwd, q)
                   \/ t = "status" /\ q.name = Indexed(PlaceIn(r, cwd), FALSE, FALSE).name
                /\ targets' = {Identified(q.identity)}
          <5>1. LocallyMeant(t, r, targets')
            BY <1>1, <3>3, <4>1, <4>2, LocalMeans, ZenonT(60)
          <5>2. QED
            BY <5>1, Zenon DEF LocallyMeant
        <4>4. ChosenFor(r, q)'
          BY <1>1, <1>2, <3>3, <4>3 DEF ChosenFor, SharesName
        <4>5. r \in RefsAsked' /\ q \in known'
          BY <1>1, <1>3, <4>1
        <4>6. QED
          BY <1>2, <3>3, <4>3, <4>4, <4>5 DEF Stands
      <3>4. CASE Base = "cliRemote"
        <4>1. r \notin {Omitted, Dot}
          BY <3>1, <3>4
        <4>2. PICK q \in catalog : /\ Denotes(r, cwd, q) \/ q \in Enclosing(cwd, catalog)
                                   /\ targets' = {Word(q.name)}
          BY <1>1, <2>1, <3>4, <4>1, RemoteMeans
        <4>3. ChosenFor(r, q)'
          BY <1>1, <1>2, <3>4, <4>2 DEF ChosenFor
        <4>4. r \in RefsAsked' /\ q \in known'
          BY <1>1, <1>3, <4>1
        <4>5. QED
          BY <1>2, <3>4, <4>2, <4>3, <4>4 DEF Stands
      <3>5. QED
        BY <1>2, <3>2, <3>3, <3>4 DEF Kinds
    <2>4. QED
      BY <1>1, <1>2, <1>4, <1>6, <2>2, <2>3 DEF ToolsInv, HereIsHere, NamedIsMeant
  <1>7. QED
    BY <1>5, <1>6 DEF AskAbout

(* Several projects. *)
LEMMA StepAskSeveral ==
  ASSUME ToolsInv, NEW rs \in Groups \cup {{Everything}}, AskSeveral(rs)
  PROVE  ToolsInv'
  <1>1. /\ step = "open" /\ answer = {} /\ catalog \in AnyCatalog /\ Surface
        /\ "multi" \in tools
        /\ call'.tool = "multi" /\ call'.refs = rs /\ known' = catalog
        /\ layers' = layers /\ cwd' = cwd /\ default' = default /\ tools' = tools
        /\ catalog' = catalog /\ answer' = answer
    BY DEF AskSeveral, ToolsInv
  <1>2. Base' = Base /\ (Surface' <=> Surface) /\ Base \in Kinds
    BY <1>1 DEF Base, Surface
  <1>3. rs # {Omitted} /\ rs # {Dot}
    <2>1. Everything # Omitted /\ Everything # Dot
      BY DEF Everything, Omitted, Dot
    <2>2. QED
      BY <2>1, GroupsAreNamed
  <1>4. RefsAsked' = rs /\ ~MeansHere'
    BY <1>1, <1>3 DEF RefsAsked, MeansHere
  <1>5. CASE step' = "answered"
    BY <1>1, <1>2, <1>5 DEF ToolsInv, HereIsHere, NamedIsMeant
  <1>6. CASE step' = "chosen"
    <2>1. TargetsMeant'
      <3> SUFFICES ASSUME rs # {Everything}, NEW u \in targets' PROVE Stands(u)'
        BY <1>1 DEF TargetsMeant
      <3>1. targets' \in Several(rs)
        BY <1>6 DEF AskSeveral
      <3>2. CASE Base = "local"
        BY <1>2, <1>4, <3>1, <3>2 DEF Several, Stands
      <3>3. CASE Base # "local"
        <4>1. PICK g \in [rs -> catalog] : /\ \A x \in rs : g[x] \in ByNameOrIdentity(x)
                                           /\ targets' = {Identified(g[x].identity) : x \in rs}
          BY <3>1, <3>3 DEF Several
        <4>2. PICK x \in rs : u = Identified(g[x].identity)
          BY <4>1
        <4>3. PICK q \in catalog : q = g[x]
          BY <4>1
        <4>4. q \in ByRow(NameIn(x), catalog) \/ q \in ByIdentity(IdentityIn(x), catalog)
          BY <4>1, <4>3 DEF ByNameOrIdentity, OrElse
        <4>5. Denotes(x, cwd, q)
          BY <1>1, <4>4, RowMeans
        <4>6. ChosenFor(x, q)'
          BY <1>1, <4>5 DEF ChosenFor
        <4>7. QED
          BY <1>1, <1>2, <1>4, <3>3, <4>2, <4>3, <4>6 DEF Stands
      <3>4. QED
        BY <3>2, <3>3
    <2>2. QED
      BY <1>1, <1>2, <1>4, <1>6, <2>1 DEF ToolsInv, HereIsHere, NamedIsMeant, TargetHere, ProjectTools
  <1>7. QED
    BY <1>5, <1>6 DEF AskSeveral

(* The catalog changes under a question. *)
LEMMA StepChange ==
  ASSUME ToolsInv, NEW L \in Catalogs, Change(L)
  PROVE  ToolsInv'
  <1>1. /\ step = "chosen" /\ step' = "chosen" /\ catalog' = L /\ catalog = known
        /\ Cardinality((L \ catalog) \cup (catalog \ L)) = 1
        /\ layers' = layers /\ cwd' = cwd /\ default' = default /\ tools' = tools
        /\ call' = call /\ known' = known /\ targets' = targets /\ answer' = answer
    BY DEF Change
  <1>2. Base' = Base /\ (Surface' <=> Surface) /\ (MeansHere' <=> MeansHere) /\ RefsAsked' = RefsAsked
    BY <1>1 DEF Base, Surface, MeansHere, RefsAsked
  <1>3. Cardinality(Different(catalog', known')) = 1
    BY <1>1 DEF Different
  <1>4. TargetHere' <=> TargetHere
    BY <1>1, <1>2 DEF TargetHere
  <1>5. \A u : Stands(u)' <=> Stands(u)
    BY <1>1, <1>2 DEF Stands, ChosenFor, SharesName
  <1>6. TargetsMeant' <=> TargetsMeant
    BY <1>1, <1>2, <1>5 DEF TargetsMeant
  <1>7. QED
    BY <1>1, <1>2, <1>3, <1>4, <1>6 DEF ToolsInv, AnyCatalog, HereIsHere, NamedIsMeant

(* The answer. *)
LEMMA StepAnswer ==
  ASSUME ToolsInv, Answer
  PROVE  ToolsInv'
  <1>1. /\ step = "chosen" /\ step' = "answered" /\ answer = {} /\ Surface
        /\ catalog \in AnyCatalog /\ known \in AnyCatalog /\ call.tool \in ProjectTools
        /\ catalog = known \/ Cardinality(Different(catalog, known)) = 1
        /\ TargetsMeant /\ TargetHere
        /\ layers' = layers /\ cwd' = cwd /\ default' = default /\ tools' = tools
        /\ call' = call /\ known' = known /\ targets' = targets /\ catalog' = catalog
    BY DEF Answer, ToolsInv
  <1>2. /\ Base' = Base /\ Base \in Kinds /\ (Surface' <=> Surface)
        /\ (MeansHere' <=> MeansHere) /\ RefsAsked' = RefsAsked /\ LookupDir' = LookupDir
        /\ (TargetHere' <=> TargetHere)
    BY <1>1 DEF Base, Surface, MeansHere, RefsAsked, LookupDir, TargetHere
  <1>3. \A q : Blurred(q)' <=> Blurred(q)
    BY <1>1, <1>2 DEF Blurred
  <1>4. ASSUME NEW p \in answer'
        PROVE  \E u \in targets : p \in catalog /\ p \in Looked(call.tool, u)
    <2>1. PICK there : there = {u \in targets : Looked(call.tool, u) # {}}
      OBVIOUS
    <2>2. IF there # targets /\ call.tool # "multi" THEN answer' = {}
          ELSE \E f \in [there -> catalog] :
                 (\A u \in there : f[u] \in Looked(call.tool, u)) /\ answer' = {f[u] : u \in there}
      BY <2>1, Zenon DEF Answer
    <2>3. PICK f \in [there -> catalog] :
            (\A u \in there : f[u] \in Looked(call.tool, u)) /\ answer' = {f[u] : u \in there}
      BY <1>4, <2>2
    <2>4. PICK u \in there : p = f[u]
      BY <1>4, <2>3
    <2>5. QED
      BY <2>1, <2>3, <2>4
  <1>5. HereIsHere'
    <2> SUFFICES ASSUME answer' # {}, MeansHere, NEW p \in ByIdentity(GitIdentity(cwd), known)
                 PROVE  answer' = {p} \/ (Base # "cli" /\ Blurred(p))
      BY <1>1, <1>2, <1>3 DEF HereIsHere
    <2>1. PICK u : /\ targets = {u}
                   /\ u = IF Base = "cli" THEN Identified(p.identity) ELSE Word(p.name)
      BY <1>1 DEF TargetHere
    <2>2. p \in known
      BY DEF ByIdentity
    <2>3. ASSUME NEW a \in answer' PROVE a = p \/ (Base # "cli" /\ Blurred(p))
      <3>1. a \in catalog /\ a \in Looked(call.tool, u)
        BY <1>4, <2>1
      <3>2. CASE Base = "cli"
        <4>1. a.identity = p.identity
          BY <1>2, <2>1, <3>1, <3>2, IdentityAnswers
        <4>2. QED
          BY <1>1, <2>2, <3>1, <4>1, OneRow
      <3>3. CASE Base # "cli"
        <4>1. a \in Looked(call.tool, Word(p.name)) /\ Base \in Kinds \ {"cli"}
          BY <1>2, <2>1, <3>1, <3>3
        <4>2. QED
          BY <1>1, <2>2, <3>1, <3>3, <4>1, WordAnswers
      <3>4. QED
        BY <3>2, <3>3
    <2>4. QED
      BY <2>3
  <1>6. NamedIsMeant'
    <2> SUFFICES ASSUME ~MeansHere, call.refs # {Everything}, NEW p \in answer'
                 PROVE  \E r \in RefsAsked :
                          \/ p \in known /\ (Denotes(r, cwd, p) \/ (Base = "cliRemote" /\ p \in Enclosing(cwd, known)))
                          \/ Denotes(r, LookupDir, p) \/ SharesName(r, p)
                          \/ /\ Base = "cliRemote"
                             /\ \E q \in known : /\ Denotes(r, cwd, q) \/ q \in Enclosing(cwd, known)
                                                 /\ Blurred(q)
      BY <1>1, <1>2, <1>3 DEF NamedIsMeant, SharesName, RefsAsked
    <2>1. PICK u \in targets : p \in catalog /\ p \in Looked(call.tool, u)
      BY <1>4
    <2>2. Stands(u)
      BY <1>1, <2>1 DEF TargetsMeant
    <2>3. CASE Base \in {"local", "remote", "http"} /\ u \in RefsAsked
      BY <1>1, <2>1, <2>3, RefAnswers
    <2>4. ASSUME NEW r \in RefsAsked, NEW q \in known, ChosenFor(r, q),
                 Base = "cli" \/ (Base # "local" /\ call.tool = "multi"), u = Identified(q.identity)
          PROVE  p \in known /\ ChosenFor(r, p)
      <3>1. p.identity = q.identity
        BY <1>2, <2>1, <2>4, IdentityAnswers
      <3>2. p = q
        BY <1>1, <2>1, <3>1, OneRow
      <3>3. QED
        BY <2>4, <3>2
    <2>5. ASSUME NEW r \in RefsAsked, NEW q \in known, ChosenFor(r, q),
                 Base = "cliRemote", u = Word(q.name)
          PROVE  p = q \/ Blurred(q)
      <3>1. Base \in Kinds \ {"cli"} /\ p \in Looked(call.tool, Word(q.name))
        BY <2>1, <2>5 DEF Kinds
      <3>2. QED
        BY <1>1, <2>1, <3>1, WordAnswers
    <2>6. CASE \E r \in RefsAsked : p \in known /\ ChosenFor(r, p)
      BY <2>6 DEF ChosenFor
    <2>7. ASSUME NEW r \in RefsAsked, NEW q \in known, ChosenFor(r, q), Base = "cliRemote", Blurred(q)
          PROVE  Denotes(r, cwd, q) \/ q \in Enclosing(cwd, known)
      BY <2>7 DEF ChosenFor, SharesName
    <2>8. CASE \E r \in RefsAsked : \E q \in known : ChosenFor(r, q) /\ Base = "cliRemote" /\ Blurred(q)
      BY <2>7, <2>8, Zenon
    <2>9. QED
      <3>1. CASE Base \in {"local", "remote", "http"} /\ u \in RefsAsked
        BY <2>3, <3>1
      <3>2. CASE ~(Base \in {"local", "remote", "http"} /\ u \in RefsAsked)
        <4>1. PICK r \in RefsAsked, q \in known :
                /\ ChosenFor(r, q)
                /\ \/ (Base = "cli" \/ (Base # "local" /\ call.tool = "multi")) /\ u = Identified(q.identity)
                   \/ Base = "cliRemote" /\ u = Word(q.name)
          BY <2>2, <3>2 DEF Stands
        <4>2. CASE (Base = "cli" \/ (Base # "local" /\ call.tool = "multi")) /\ u = Identified(q.identity)
          <5>1. p \in known /\ ChosenFor(r, p)
            BY <2>4, <4>1, <4>2
          <5>2. QED
            BY <2>6, <5>1
        <4>3. CASE Base = "cliRemote" /\ u = Word(q.name)
          <5>1. p = q \/ Blurred(q)
            BY <2>5, <4>1, <4>3
          <5>2. QED
            BY <2>6, <2>8, <4>1, <4>3, <5>1
        <4>4. QED
          BY <4>1, <4>2, <4>3
      <3>3. QED
        BY <3>1, <3>2
  <1>7. QED
    BY <1>1, <1>2, <1>5, <1>6 DEF ToolsInv

LEMMA ToolsStart == ToolsInit => ToolsInv
  BY DEF ToolsInit, ToolsInv, AnyCatalog, HereIsHere, NamedIsMeant

LEMMA ToolsStutter == ASSUME ToolsInv, UNCHANGED toolVars PROVE ToolsInv'
  <1>1. /\ layers' = layers /\ cwd' = cwd /\ default' = default /\ tools' = tools /\ catalog' = catalog
        /\ call' = call /\ known' = known /\ targets' = targets /\ answer' = answer /\ step' = step
    BY DEF toolVars
  <1>2. Base' = Base /\ LookupDir' = LookupDir /\ RefsAsked' = RefsAsked /\ (MeansHere' <=> MeansHere)
    BY <1>1 DEF Base, LookupDir, RefsAsked, MeansHere
  <1>3. \A q : Blurred(q)' <=> Blurred(q)
    BY <1>1, <1>2 DEF Blurred
  <1>4. \A u : Stands(u)' <=> Stands(u)
    BY <1>1, <1>2 DEF Stands, ChosenFor, SharesName
  <1>5. (TargetHere' <=> TargetHere) /\ (TargetsMeant' <=> TargetsMeant) /\ (Surface' <=> Surface)
    BY <1>1, <1>2, <1>4 DEF TargetHere, TargetsMeant, Surface
  <1>6. HereIsHere' <=> HereIsHere
    BY <1>1, <1>2, <1>3 DEF HereIsHere
  <1>7. NamedIsMeant' <=> NamedIsMeant
    BY <1>1, <1>2, <1>3 DEF NamedIsMeant, SharesName
  <1>8. QED
    BY <1>1, <1>5, <1>6, <1>7 DEF ToolsInv

LEMMA ToolsStep == ASSUME ToolsInv, [ToolsNext]_toolVars PROVE ToolsInv'
  <1>1. CASE UNCHANGED toolVars
    BY <1>1, ToolsStutter
  <1>2. CASE ToolsNext
    <2>1. CASE \/ \E ls \in Stacks, allowed \in AllowLists : Serve(ls, allowed)
               \/ \E kind \in {"cli", "cliRemote"} : Command(kind)
      BY <2>1, StepOpen
    <2>2. CASE \E t \in ToolNames, r \in Refs, write \in BOOLEAN : AskAbout(t, r, write)
      BY <2>2, StepAsk
    <2>3. CASE \E rs \in Groups \cup {{Everything}} : AskSeveral(rs)
      BY <2>3, StepAskSeveral
    <2>4. CASE \E L \in Catalogs : Change(L)
      BY <2>4, StepChange
    <2>5. CASE Answer
      BY <2>5, StepAnswer
    <2>6. QED
      BY <1>2, <2>1, <2>2, <2>3, <2>4, <2>5 DEF ToolsNext
  <1>3. QED
    BY <1>1, <1>2

(* A question from inside an indexed repository (resolveProjectForTool, internal/mcpserver,     *)
(* ResolveProjects, internal/searchtargets, and the remote commands) is answered for that       *)
(* repository, in any catalog and whatever row comes or goes before the second lookup, unless   *)
(* the name that is handed on means another project or a place as well.                         *)
THEOREM HereIsAnswered == ToolsInit /\ [][ToolsNext]_toolVars => []HereIsHere
  <1>1. ToolsInv => HereIsHere
    BY DEF ToolsInv
  <1>2. QED
    BY <1>1, ToolsStart, ToolsStep, PTL

(* A question that names a project (Resolve, internal/projectref) is answered for none the      *)
(* name does not denote, in either lookup, but for the two fallbacks: the remote command takes  *)
(* the project around the caller, the local status a namesake of the place.                     *)
THEOREM NamesAreKept == ToolsInit /\ [][ToolsNext]_toolVars => []NamedIsMeant
  <1>1. ToolsInv => NamedIsMeant
    BY DEF ToolsInv
  <1>2. QED
    BY <1>1, ToolsStart, ToolsStep, PTL
==================================================================================
