-------------------------------- MODULE Migrate --------------------------------
(***************************************************************************)
(* `semidx migrate` (cmd/semidx/migrate.go): the chunks of a local index,  *)
(* with their vectors, are copied into PostgreSQL, one group of rows after *)
(* the other.  A run may fail or be killed between two statements and may  *)
(* be repeated; the source may be indexed anew in between.                 *)
(*                                                                         *)
(* A version of a file is a path and a number (its hash); the text of a    *)
(* chunk is its version and its index.                                     *)
(***************************************************************************)
EXTENDS Naturals, Sequences, FiniteSets

CONSTANTS
  Files,      \* paths
  Revisions,  \* versions of a path
  Chunks,     \* version to its number of chunks
  Sensitive,  \* versions whose chunks are stored without a vector
  Beside,     \* BOOLEAN: may versions of one path stand beside one another (worktrees)?
  MaxMoves    \* bound: runs started, changes of the source

Vers == Files \X Revisions
ASSUME ChunksAssumption == Chunks \in [Vers -> Nat \ {0}] /\ Sensitive \subseteq Vers
ASSUME MovesAssumption == MaxMoves \in Nat /\ Beside \in BOOLEAN

VARIABLES
  src,     \* the versions the local index holds
  dst,     \* rows of the target: version (by hash), chunk_index, text, with a vector?
  listed,  \* files of the target
  run,     \* the migration: paths to do, the group in hand
  moves,
  due,     \* history: the versions the run in hand is to copy
  fresh    \* history: those of the last run, when it ended well

mvars == <<src, dst, listed, run, moves, due, fresh>>

NoRun == [st |-> "idle", rows |-> <<>>, group |-> <<>>]
TextsOf(v) == {<<v, i>> : i \in 0 .. Chunks[v] - 1}

MigrateTypeOK ==
  /\ src \subseteq Vers /\ listed \subseteq Vers
  /\ \A r \in dst : r.ver \in listed
  /\ \A r, s \in dst : (r.ver = s.ver /\ r.index = s.index) => r = s
  /\ moves \in 0 .. MaxMoves

MigrateInit ==
  /\ src = {} /\ dst = {} /\ listed = {} /\ due = {} /\ fresh = {}
  /\ run = NoRun /\ moves = 0

\* The source is indexed: the version of a path takes the place of the one before,
\* or stands beside it when another worktree still has that.
IndexSource(v) ==
  /\ moves < MaxMoves /\ v \notin src
  /\ src' = IF Beside THEN src \cup {v} ELSE {w \in src : w[1] # v[1]} \cup {v}
  /\ moves' = moves + 1
  /\ UNCHANGED <<dst, listed, run, due, fresh>>

\* ExportChunks: ORDER BY path, dims, chunk_index; rows that agree in them come in any order.
Exports(vs) ==
  LET texts == UNION {TextsOf(v) : v \in vs}
      before(t, u) == t[1][1] = u[1][1] /\ t[2] < u[2]
      orders == {f \in [1 .. Cardinality(texts) -> texts] :
                   /\ \A i, j \in DOMAIN f : f[i] = f[j] => i = j
                   /\ \A i, j \in DOMAIN f : before(f[i], f[j]) => i < j
                   /\ \A i, j, k \in DOMAIN f :        \* a path in one piece
                        (i < j /\ j < k /\ f[i][1][1] = f[k][1][1]) => f[j][1][1] = f[i][1][1]} IN
  orders

StartMigrate ==
  /\ run.st = "idle" /\ moves < MaxMoves /\ src # {}
  /\ \E rows \in Exports(src) : run' = [st |-> "group", rows |-> rows, group |-> <<>>]
  /\ moves' = moves + 1
  /\ due' = src /\ fresh' = {}
  /\ UNCHANGED <<src, dst, listed>>

\* nextFileGroup: the rows in front that share path and dims.
Prefix(rows) ==
  LET n == CHOOSE k \in 1 .. Len(rows) :
             /\ \A i \in 1 .. k : rows[i][1][1] = rows[1][1][1]
             /\ k < Len(rows) => rows[k + 1][1][1] # rows[1][1][1] IN
  SubSeq(rows, 1, n)

\* The file of a group is the one of its first row.
HeadFile(group) == group[1][1]

UpsertHead ==
  LET group == Prefix(run.rows) IN
  /\ run.st = "group" /\ run.rows # <<>>
  /\ listed' = listed \cup {HeadFile(group)}
  /\ run' = [st |-> "chunks", group |-> group,
             rows |-> SubSeq(run.rows, Len(group) + 1, Len(run.rows))]
  /\ UNCHANGED <<src, dst, moves, due, fresh>>

\* Mutant of InsertGroup: chunks are counted from one.
InsertFromOne ==
  LET v == HeadFile(run.group)
      new == {[ver |-> v, index |-> i, text |-> run.group[i], vector |-> v \notin Sensitive] :
                i \in DOMAIN run.group} IN
  /\ run.st = "chunks"
  /\ dst' = {r \in dst : ~\E n \in new : n.ver = r.ver /\ n.index = r.index} \cup new
  /\ run' = [run EXCEPT !.st = "group", !.group = <<>>]
  /\ UNCHANGED <<src, listed, moves, due, fresh>>

\* One batch: the i-th row of the group is chunk i; without a vector when one of them lacks it.
InsertGroup ==
  LET v == HeadFile(run.group)
      vector == \A i \in DOMAIN run.group : run.group[i][1] \notin Sensitive
      new == {[ver |-> v, index |-> i - 1, text |-> run.group[i], vector |-> vector] : i \in DOMAIN run.group} IN
  /\ run.st = "chunks"
  /\ dst' = {r \in dst : ~\E n \in new : n.ver = r.ver /\ n.index = r.index} \cup new
  /\ run' = [run EXCEPT !.st = "group", !.group = <<>>]
  /\ UNCHANGED <<src, listed, moves, due, fresh>>

Migrated ==
  /\ run.st = "group" /\ run.rows = <<>>
  /\ run' = NoRun
  /\ fresh' = due /\ due' = {}
  /\ UNCHANGED <<src, dst, listed, moves>>

\* A failing statement or a kill.
Breaks ==
  /\ run.st # "idle"
  /\ run' = NoRun /\ due' = {}
  /\ UNCHANGED <<src, dst, listed, moves, fresh>>

MigrateNext ==
  \/ \E v \in Vers : IndexSource(v)
  \/ StartMigrate \/ UpsertHead \/ InsertGroup \/ Migrated \/ Breaks

MigrateSpec == MigrateInit /\ [][MigrateNext]_mvars

(***************************************************************************)
(* Property.                                                               *)
(***************************************************************************)

\* "Copy every project, file and chunk (with its embedding)", however often a
\* run breaks off and is repeated: what stands under a version is that version's
\* text, with its vector, and after a run that ended well nothing of it is missing.
CopiedAsIs ==
  /\ \A r \in dst : /\ r.text = <<r.ver, r.index>>
                    /\ r.vector <=> r.ver \notin Sensitive
  /\ \A v \in fresh : TextsOf(v) \subseteq {r.text : r \in dst}
================================================================================
