------------------------------- MODULE MultiScope -------------------------------
(***************************************************************************)
(* A search over several projects (internal/search/multiscope.go): one     *)
(* search per scope, one after the other; those that fail are skipped, the *)
(* lists of the others are fused by rank, and at most so many results are  *)
(* taken of each file and of each project.                                 *)
(***************************************************************************)
EXTENDS Integers, Sequences, FiniteSets

CONSTANTS
  Labels,       \* identities, or names, by which projects are asked for
  Chunks,       \* <<file, line>> pairs of a project
  Scores,       \* similarity scores: a set of integers
  Wanted,       \* results asked for (TopK)
  PerFile,      \* results of one file, 0 for no limit
  PerProject,   \* results of one project, 0 for no limit
  MaxScopes,    \* bound: scopes of one request
  MaxList       \* bound: results of one search (at most 2 * TopK)

ASSUME WantedAssumption == Wanted \in Nat \ {0} /\ MaxList \in 0 .. (2 * Wanted)
ASSUME CapsAssumption == PerFile \in Nat /\ PerProject \in Nat

ScopeFlags == [route : {"hybrid", "vector", "keyword", "fallback"}, degraded : BOOLEAN]

VARIABLES
  scopes,    \* the labels asked for, in order; one may be there twice
  at,        \* the scope to be searched next; 0 before the request
  answers,   \* per scope: its list and flags, or that it was skipped
  fused      \* the response, once it is there

multiVars == <<scopes, at, answers, fused>>
Skipped == [ok |-> FALSE, list |-> <<>>, flags |-> [route |-> "hybrid", degraded |-> FALSE]]
NoResponse == [results |-> <<>>, route |-> "none", fallback |-> FALSE, keyword |-> FALSE,
               degraded |-> FALSE, skipped |-> -1]

MultiInit == scopes = <<>> /\ at = 0 /\ answers = <<>> /\ fused = NoResponse

\* SearchMulti names each scope, also twice; SearchAllProjects each project once.
Ask ==
  /\ at = 0 /\ at' = 1
  /\ scopes' \in UNION {[1 .. n -> Labels] : n \in 1 .. MaxScopes}
  /\ UNCHANGED <<answers, fused>>

\* The lists a search may answer: distinct chunks, best first.
Lists == UNION {{l \in [1 .. n -> [chunk : Chunks, score : Scores]] :
                   /\ \A i, j \in 1 .. n : l[i].chunk = l[j].chunk => i = j
                   /\ \A i, j \in 1 .. n : i < j => l[i].score >= l[j].score} : n \in 0 .. MaxList}

SearchScope ==
  /\ at \in 1 .. Len(scopes)
  /\ at' = at + 1
  /\ \E a \in {Skipped} \cup [ok : {TRUE}, list : Lists, flags : ScopeFlags] :
       /\ a.flags.degraded => a.flags.route = "fallback"
       /\ answers' = Append(answers, a)
  /\ UNCHANGED <<scopes, fused>>

------------------------------------------------------------------------------
\* aggFlags.absorb: the routes of the scopes that answered.
Answered == {i \in DOMAIN answers : answers[i].ok}
RoutesTaken == {answers[i].flags.route : i \in Answered}
RouteOf(routes) == IF Cardinality(routes) = 1 THEN CHOOSE r \in routes : TRUE
                   ELSE IF routes = {} THEN "none" ELSE "mixed"

\* Every result of every scope, in the order of the scopes.
Ranked(i) == [j \in DOMAIN answers[i].list |->
                [label |-> scopes[i], chunk |-> answers[i].list[j].chunk,
                 score |-> answers[i].list[j].score, rank |-> j]]
All[i \in Nat] == IF i = 0 THEN <<>> ELSE All[i - 1] \o Ranked(i)

\* 1 / (60 + rank), times a number that keeps sums of two ranks apart.
RankPoints(r) == (61 * 62 * 63 * 64) \div (60 + r)

\* candidateKey.
Key(c) == <<c.label, c.chunk>>

\* One candidate per key: the points of all its entries, the score of the best.
Pool(s) ==
  LET Entries(k) == {i \in DOMAIN s : Key(s[i]) = k}
      Total(k) == LET sum[T \in SUBSET Entries(k)] ==
                        IF T = {} THEN 0
                        ELSE LET i == CHOOSE i \in T : TRUE
                             IN RankPoints(s[i].rank) + sum[T \ {i}]
                  IN sum[Entries(k)]
      Top(k) == CHOOSE i \in Entries(k) :
                  /\ \A j \in Entries(k) : s[j].score <= s[i].score
                  /\ \A j \in Entries(k) : s[j].score = s[i].score => i <= j
      Entry(k) == CHOOSE i \in Entries(k) : \A j \in Entries(k) : i <= j
  IN {[label |-> s[Entry(k)].label, chunk |-> s[Entry(k)].chunk, rank |-> s[Entry(k)].rank,
       score |-> s[Top(k)].score, fusion |-> Total(k)] : k \in {Key(s[i]) : i \in DOMAIN s}}

\* The comparison of fuseRankedResults; names break the last ties.
Before(c, d) == c.fusion > d.fusion \/ (c.fusion = d.fusion /\ c.score > d.score)
Sorted(S) == {o \in [1 .. Cardinality(S) -> S] :
                /\ \A i, j \in DOMAIN o : o[i] = o[j] => i = j
                /\ \A i, j \in DOMAIN o : Before(o[i], o[j]) => i < j}

\* applyRankedDiversity.
Room(taken, c) ==
  /\ PerProject > 0 => Cardinality({i \in DOMAIN taken : taken[i].label = c.label}) < PerProject
  /\ PerFile > 0 => Cardinality({i \in DOMAIN taken : /\ taken[i].label = c.label
                                                      /\ taken[i].chunk[1] = c.chunk[1]}) < PerFile
Select(o) ==
  LET take[i \in 0 .. Len(o)] ==
        IF i = 0 THEN <<>>
        ELSE IF Len(take[i - 1]) < Wanted /\ Room(take[i - 1], o[i])
             THEN Append(take[i - 1], o[i]) ELSE take[i - 1]
  IN take[Len(o)]

FuseScopes ==
  /\ at > 0 /\ at > Len(scopes) /\ fused = NoResponse
  /\ \E o \in Sorted(Pool(All[Len(scopes)])) :
       fused' = [results |-> Select(o), route |-> RouteOf(RoutesTaken),
                 fallback |-> "fallback" \in RoutesTaken,
                 keyword |-> RoutesTaken \cap {"keyword", "fallback"} # {},
                 degraded |-> \E i \in Answered : answers[i].flags.degraded,
                 skipped |-> Len(scopes) - Cardinality(Answered)]
  /\ UNCHANGED <<scopes, at, answers>>

MultiNext == Ask \/ SearchScope \/ FuseScopes

------------------------------------------------------------------------------
(* The response of a search over several projects holds the best of what     *)
(* they found, whatever their order: no chunk twice, no file and no project  *)
(* above its limit, and what was left out is either no better than all that  *)
(* was taken or belongs to a file or project whose places better results     *)
(* have.  A scope asked for twice supports its chunks twice (fuseRanked-     *)
(* Results), and a scope's flags are those of the response if it is alone.   *)
Support(l, c) == {<<i, j>> \in (DOMAIN answers) \X (1 .. MaxList) :
                    scopes[i] = l /\ j \in DOMAIN answers[i].list /\ answers[i].list[j].chunk = c}
Strength(l, c) == LET ranks == {<<p[2], p[1]>> : p \in Support(l, c)}
                      sum[T \in SUBSET ranks] ==
                        IF T = {} THEN 0
                        ELSE LET p == CHOOSE p \in T : TRUE IN RankPoints(p[1]) + sum[T \ {p}]
                  IN sum[ranks]
Taken == {<<fused.results[i].label, fused.results[i].chunk>> : i \in DOMAIN fused.results}
CrowdedOut(l, c) ==
  LET stronger == {t \in Taken : t[1] = l /\ Strength(t[1], t[2]) >= Strength(l, c)}
  IN \/ PerProject > 0 /\ Cardinality(stronger) >= PerProject
     \/ PerFile > 0 /\ Cardinality({t \in stronger : t[2][1] = c[1]}) >= PerFile
     \/ /\ Cardinality(Taken) = Wanted
        /\ \A t \in Taken : Strength(t[1], t[2]) >= Strength(l, c)
FusedBest ==
  fused # NoResponse =>
    /\ Cardinality(Taken) = Len(fused.results) /\ Len(fused.results) <= Wanted
    /\ \A l \in Labels :
         LET mine == {t \in Taken : t[1] = l}
         IN /\ PerProject > 0 => Cardinality(mine) <= PerProject
            /\ PerFile > 0 =>
                 \A t \in mine : Cardinality({u \in mine : u[2][1] = t[2][1]}) <= PerFile
    /\ \A l \in Labels, c \in Chunks :
         Support(l, c) # {} => <<l, c>> \in Taken \/ CrowdedOut(l, c)
    /\ Cardinality({i \in DOMAIN answers : ~answers[i].ok}) = fused.skipped
    /\ Len(scopes) = 1 /\ answers[1].ok => fused.route = answers[1].flags.route
==============================================================================
