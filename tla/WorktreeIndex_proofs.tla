-------------------------- MODULE WorktreeIndex_proofs --------------------------
(***************************************************************************)
(* Proofs about WorktreeIndex for every number of worktrees, paths, texts, *)
(* edits, failing calls and runs that are cut short.                       *)
(***************************************************************************)
EXTENDS WorktreeIndex, FiniteSetTheorems, TLAPS

\* The places where a task holds a version, and those where it is at work.
Holding == {"check", "upsert", "clear", "insert", "unchunk", "unfile"}
Working == Holding \cup {"todo", "unlist", "sweep"}

(* A task counts fewer chunks than it has tried, and has a version where it *)
(* needs one.                                                              *)
ValidTask(t) == t \in Tasks /\ t.created < t.next /\ (t.st \in Holding => t.ver \in Versions)

TasksValid == \A r \in Runners, p \in Paths : ValidTask(task[r][p])

(* Files are worked on in the first phase of a run only, and a run that     *)
(* unlocks writes no manifest.                                             *)
PhasesFit ==
  /\ \A r \in Runners, p \in Paths : task[r][p].st \in Working => phase[r] = "files"
  /\ \A r \in Runners : phase[r] \in {"manifest", "prune"} => mode[r] # "unlock"

IndexInv == TypeOK /\ TasksValid /\ PhasesFit

TaskFun == [Runners -> [Paths -> Tasks]]

------------------------------------------------------------------------------
(* What a step does to the tasks *)

\* Task p of run r becomes t, and nothing else changes.
Becomes(r, p, t) ==
  /\ task' \in TaskFun /\ task'[r][p] = t
  /\ \A s \in Runners, q \in Paths : s # r \/ q # p => task'[s][q] = task[s][q]

LEMMA SetTask ==
  ASSUME task \in TaskFun, NEW r \in Runners, NEW p \in Paths, NEW t \in Tasks, task' = [task EXCEPT ![r][p] = t]
  PROVE  Becomes(r, p, t)
  <1>1. task[r] \in [Paths -> Tasks]
    BY DEF TaskFun
  <1> DEFINE f == [task[r] EXCEPT ![p] = t]
  <1>2. f \in [Paths -> Tasks] /\ f[p] = t /\ \A q \in Paths : q # p => f[q] = task[r][q]
    BY <1>1
  <1>3. task' = [task EXCEPT ![r] = f]
    OBVIOUS
  <1> HIDE DEF f
  <1>4. QED
    BY <1>2, <1>3 DEF TaskFun, Becomes

LEMMA NextTypes == 1 \in 1 .. (NChunks + BatchSize) /\ 0 \in 0 .. NChunks /\ NoTask \in Tasks
  <1>1. 1 \in 1 .. (NChunks + BatchSize) /\ 0 \in 0 .. NChunks
    BY NChunksAssumption, BatchSizeAssumption
  <1>2. QED
    BY <1>1 DEF NoTask, Tasks, TaskSteps

\* Every file step but a removal of rows sets the place of its own task.
LEMMA GotoTask ==
  ASSUME task \in TaskFun, NEW r \in Runners, NEW p \in Paths, NEW step \in TaskSteps, Goto(r, p, step)
  PROVE  Becomes(r, p, [task[r][p] EXCEPT !.st = step])
  <1>1. task[r][p] \in Tasks
    BY DEF TaskFun
  <1>2. [task[r][p] EXCEPT !.st = step] \in Tasks
    BY <1>1 DEF Tasks
  <1>3. task' = [task EXCEPT ![r][p] = [task[r][p] EXCEPT !.st = step]]
    BY DEF Goto, TaskFun
  <1>4. QED
    BY <1>2, <1>3, SetTask

\* Rows that go leave tasks as they were but for live.
Kept(a, b) ==
  /\ b \in Tasks /\ b.st = a.st /\ b.ver = a.ver /\ b.next = a.next /\ b.created = a.created
  /\ b.live => a.live

LEMMA OrphanTasks ==
  ASSUME NEW t \in TaskFun, NEW gone
  PROVE  /\ Orphan(gone, t) \in TaskFun
         /\ \A s \in Runners, q \in Paths : Kept(t[s][q], Orphan(gone, t)[s][q])
  <1>1. ASSUME NEW s \in Runners, NEW q \in Paths
        PROVE  Kept(t[s][q], IF <<q, t[s][q].ver>> \in gone THEN [t[s][q] EXCEPT !.live = FALSE] ELSE t[s][q])
    <2>1. t[s][q] \in Tasks
      BY DEF TaskFun
    <2>2. QED
      BY <2>1 DEF Kept, Tasks
  <1>2. \A s \in Runners, q \in Paths :
          Orphan(gone, t)[s][q] = IF <<q, t[s][q].ver>> \in gone THEN [t[s][q] EXCEPT !.live = FALSE] ELSE t[s][q]
    BY DEF Orphan
  <1>3. \A s \in Runners, q \in Paths : Kept(t[s][q], Orphan(gone, t)[s][q])
    BY <1>1, <1>2
  <1>4. Orphan(gone, t) \in TaskFun
    <2>1. \A s \in Runners, q \in Paths :
            (IF <<q, t[s][q].ver>> \in gone THEN [t[s][q] EXCEPT !.live = FALSE] ELSE t[s][q]) \in Tasks
      BY <1>1 DEF Kept
    <2>2. QED
      BY <2>1 DEF Orphan, TaskFun
  <1>5. QED
    BY <1>3, <1>4

\* A batch is the interval that begins at the next chunk.
LEMMA BatchSizes ==
  ASSUME NEW t \in Tasks
  PROVE  /\ Cardinality(Batch(t)) \in 0 .. BatchSize
         /\ Batch(t) # {} => t.next <= NChunks /\ t.next + Cardinality(Batch(t)) <= NChunks + 1
         /\ Batch(t) = {} => t.next > NChunks
  <1> USE NChunksAssumption, BatchSizeAssumption DEF Tasks
  <1>1. t.next \in Nat /\ t.next >= 1
    OBVIOUS
  <1>2. CASE t.next > NChunks
    <2>1. Batch(t) = {}
      BY <1>1, <1>2 DEF Batch
    <2>2. QED
      BY <1>2, <2>1, FS_EmptySet
  <1>3. CASE t.next <= NChunks /\ t.next + BatchSize - 1 <= NChunks
    <2>1. Batch(t) = t.next .. (t.next + BatchSize - 1)
      BY <1>1, <1>3 DEF Batch
    <2>2. Cardinality(t.next .. (t.next + BatchSize - 1)) = BatchSize
      <3>1. t.next \in Int /\ t.next + BatchSize - 1 \in Int /\ ~(t.next > t.next + BatchSize - 1)
        BY <1>1
      <3>2. (t.next + BatchSize - 1) - t.next + 1 = BatchSize
        BY <1>1
      <3>3. QED
        BY <3>1, <3>2, FS_Interval
    <2>3. QED
      BY <1>1, <1>3, <2>1, <2>2
  <1>4. CASE t.next <= NChunks /\ t.next + BatchSize - 1 > NChunks
    <2>1. Batch(t) = t.next .. NChunks
      BY <1>1, <1>4 DEF Batch
    <2>2. Cardinality(t.next .. NChunks) = NChunks - t.next + 1
      BY <1>1, <1>4, FS_Interval
    <2>3. QED
      BY <1>1, <1>4, <2>1, <2>2
  <1>5. QED
    BY <1>1, <1>2, <1>3, <1>4

\* Where a task goes from where it is.
TaskWays == {<<"todo", "check">>, <<"todo", "locked">>, <<"todo", "unlist">>, <<"todo", "error">>,
             <<"check", "done">>, <<"check", "upsert">>, <<"upsert", "clear">>, <<"upsert", "error">>,
             <<"clear", "insert">>, <<"clear", "error">>, <<"insert", "insert">>, <<"insert", "unchunk">>,
             <<"insert", "done">>, <<"unchunk", "unfile">>, <<"unfile", "done">>, <<"unlist", "sweep">>,
             <<"unlist", "error">>, <<"sweep", "done">>, <<"sweep", "error">>}

Advances(r, p) ==
  /\ task' \in TaskFun /\ ValidTask(task'[r][p])
  /\ <<task[r][p].st, task'[r][p].st>> \in TaskWays
  /\ \A s \in Runners, q \in Paths : s # r \/ q # p => Kept(task[s][q], task'[s][q])

LEMMA AdvanceTo ==
  ASSUME IndexInv, NEW r \in Runners, NEW p \in Paths, NEW t, ValidTask(t), Becomes(r, p, t),
         <<task[r][p].st, t.st>> \in TaskWays
  PROVE  Advances(r, p)
  <1>1. task \in TaskFun
    BY DEF IndexInv, TypeOK, TaskFun
  <1>2. \A s \in Runners, q \in Paths : task[s][q] \in Tasks
    BY <1>1 DEF TaskFun
  <1>3. \A s \in Runners, q \in Paths : s # r \/ q # p => Kept(task[s][q], task'[s][q])
    BY <1>2 DEF Becomes, Kept
  <1>4. QED
    BY <1>3 DEF Becomes, Advances

LEMMA GotoAdvances ==
  ASSUME IndexInv, NEW r \in Runners, NEW p \in Paths, NEW step \in TaskSteps, Goto(r, p, step),
         <<task[r][p].st, step>> \in TaskWays, step \in Holding => task[r][p].st \in Holding
  PROVE  Advances(r, p)
  <1>1. task \in TaskFun /\ task[r][p] \in Tasks /\ ValidTask(task[r][p])
    BY DEF IndexInv, TypeOK, TaskFun, TasksValid
  <1> DEFINE t == [task[r][p] EXCEPT !.st = step]
  <1>2. ValidTask(t) /\ t.st = step
    BY <1>1 DEF ValidTask, Tasks
  <1>3. Becomes(r, p, t)
    BY <1>1, GotoTask
  <1> HIDE DEF t
  <1>4. QED
    BY <1>2, <1>3, AdvanceTo

LEMMA FreshTask ==
  ASSUME NEW v \in Versions
  PROVE  /\ ValidTask([NoTask EXCEPT !.st = "check", !.ver = v])
         /\ [NoTask EXCEPT !.st = "check", !.ver = v].st = "check"
  <1> DEFINE t == [NoTask EXCEPT !.st = "check", !.ver = v]
  <1>1. NoTask \in Tasks /\ NoTask.created = 0 /\ NoTask.next = 1
    BY NextTypes DEF NoTask
  <1>2. t \in Tasks /\ t.created = NoTask.created /\ t.next = NoTask.next /\ t.ver = v /\ t.st = "check"
    BY <1>1 DEF Tasks, TaskSteps
  <1>3. t.created = 0 /\ t.next = 1
    BY <1>1, <1>2
  <1> HIDE DEF t
  <1>4. ValidTask(t) /\ t.st = "check"
    BY <1>2, <1>3 DEF ValidTask
  <1>5. QED
    BY <1>4 DEF t

LEMMA OpenAdvances ==
  ASSUME IndexInv, NEW r \in Runners, NEW p \in Paths, Open(r, p)
  PROVE  Advances(r, p)
  <1>1. task \in TaskFun /\ task[r][p].st = "todo"
    BY DEF IndexInv, TypeOK, TaskFun, Open
  <1>2. \/ \E v \in Versions : OpenText(r, p, v)
        \/ \E step \in {"locked", "unlist", "error"} : Goto(r, p, step)
    BY DEF Open, Fails, Versions
  <1>3. ASSUME NEW v \in Versions, OpenText(r, p, v) PROVE Advances(r, p)
    <2> DEFINE t == [NoTask EXCEPT !.st = "check", !.ver = v]
    <2>1. ValidTask(t) /\ t.st = "check"
      BY FreshTask
    <2>2. task' = [task EXCEPT ![r][p] = t]
      BY <1>3 DEF OpenText
    <2> HIDE DEF t
    <2>3. Becomes(r, p, t)
      BY <1>1, <2>1, <2>2, SetTask DEF ValidTask
    <2>4. QED
      BY <1>1, <2>1, <2>3, AdvanceTo DEF TaskWays
  <1>4. ASSUME NEW step \in {"locked", "unlist", "error"}, Goto(r, p, step) PROVE Advances(r, p)
    BY <1>1, <1>4, GotoAdvances DEF TaskWays, Holding, TaskSteps
  <1>5. QED
    BY <1>2, <1>3, <1>4

LEMMA UpsertAdvances ==
  ASSUME IndexInv, NEW r \in Runners, NEW p \in Paths, Upsert(r, p)
  PROVE  Advances(r, p)
  <1>1. task \in TaskFun /\ task[r][p] \in Tasks /\ ValidTask(task[r][p]) /\ task[r][p].st = "upsert"
    BY DEF IndexInv, TypeOK, TaskFun, TasksValid, Upsert
  <1>2. CASE task' = [task EXCEPT ![r][p].st = "clear", ![r][p].live = TRUE]
    <2> DEFINE t == [task[r][p] EXCEPT !.st = "clear", !.live = TRUE]
    <2>1. ValidTask(t) /\ t.st = "clear"
      BY <1>1 DEF ValidTask, Tasks, TaskSteps, Holding
    <2>2. task' = [task EXCEPT ![r][p] = t]
      BY <1>1, <1>2 DEF TaskFun
    <2> HIDE DEF t
    <2>3. Becomes(r, p, t)
      BY <1>1, <2>1, <2>2, SetTask DEF ValidTask
    <2>4. QED
      BY <1>1, <2>1, <2>3, AdvanceTo DEF TaskWays
  <1>3. CASE Goto(r, p, "error")
    BY <1>1, <1>3, GotoAdvances DEF TaskWays, Holding, TaskSteps
  <1>4. QED
    BY <1>2, <1>3 DEF Upsert, Fails

LEMMA InsertAdvances ==
  ASSUME IndexInv, NEW r \in Runners, NEW p \in Paths, Insert(r, p)
  PROVE  Advances(r, p)
  <1>1. task \in TaskFun /\ task[r][p] \in Tasks /\ ValidTask(task[r][p]) /\ task[r][p].st = "insert"
    BY DEF IndexInv, TypeOK, TaskFun, TasksValid, Insert
  <1> DEFINE size == Cardinality(Batch(task[r][p]))
             made == [task[r][p] EXCEPT !.next = task[r][p].next + size, !.created = task[r][p].created + size]
             lost == [task[r][p] EXCEPT !.next = task[r][p].next + size]
  <1>2. size \in Nat /\ size <= BatchSize /\ task[r][p].next + size <= NChunks + 1
    BY <1>1, BatchSizes, BatchSizeAssumption DEF Insert
  <1>3. task' = [task EXCEPT ![r][p] = made] \/ task' = [task EXCEPT ![r][p] = lost]
    BY <1>1, Zenon DEF Insert, TaskFun
  <1>4. ValidTask(made) /\ made.st = "insert" /\ ValidTask(lost) /\ lost.st = "insert"
    <2> HIDE DEF size
    <2>1. /\ task[r][p].next + size \in 1 .. (NChunks + BatchSize)
          /\ task[r][p].created + size \in 0 .. NChunks
      BY <1>1, <1>2, NChunksAssumption, BatchSizeAssumption DEF ValidTask, Tasks
    <2>2. /\ made \in Tasks /\ made.st = "insert" /\ made.ver = task[r][p].ver
          /\ made.next = task[r][p].next + size /\ made.created = task[r][p].created + size
      BY <1>1, <2>1 DEF Tasks
    <2>3. /\ lost \in Tasks /\ lost.st = "insert" /\ lost.ver = task[r][p].ver
          /\ lost.next = task[r][p].next + size /\ lost.created = task[r][p].created
      BY <1>1, <2>1 DEF Tasks
    <2>4. /\ task[r][p].next \in Nat /\ task[r][p].created \in Nat /\ task[r][p].created < task[r][p].next
          /\ task[r][p].ver \in Versions
      BY <1>1, NChunksAssumption, BatchSizeAssumption DEF Tasks, ValidTask, Holding
    <2> HIDE DEF made, lost
    <2>5. QED
      BY <1>2, <2>2, <2>3, <2>4 DEF ValidTask
  <1> HIDE DEF made, lost
  <1>5. ASSUME NEW t, ValidTask(t), t.st = "insert", task' = [task EXCEPT ![r][p] = t] PROVE Advances(r, p)
    BY <1>1, <1>5, SetTask, AdvanceTo DEF TaskWays, ValidTask
  <1>6. QED
    BY <1>3, <1>4, <1>5

\* A task ends while rows go: the other tasks keep all but their live.
LEMMA OrphanAdvances ==
  ASSUME IndexInv, NEW r \in Runners, NEW p \in Paths, NEW gone,
         task' = Orphan(gone, [task EXCEPT ![r][p].st = "done"]), <<task[r][p].st, "done">> \in TaskWays
  PROVE  Advances(r, p)
  <1>1. task \in TaskFun /\ task[r][p] \in Tasks /\ ValidTask(task[r][p])
    BY DEF IndexInv, TypeOK, TaskFun, TasksValid
  <1> DEFINE t == [task[r][p] EXCEPT !.st = "done"]
             mid == [task EXCEPT ![r][p].st = "done"]
  <1>2. ValidTask(t) /\ t.st = "done"
    BY <1>1 DEF ValidTask, Tasks, TaskSteps, Holding
  <1>3. mid \in TaskFun /\ mid[r][p] = t /\ \A s \in Runners, q \in Paths : s # r \/ q # p => mid[s][q] = task[s][q]
    <2>1. mid = [task EXCEPT ![r][p] = t]
      BY <1>1 DEF TaskFun
    <2> DEFINE f == [task[r] EXCEPT ![p] = t]
    <2>2. f \in [Paths -> Tasks] /\ f[p] = t /\ \A q \in Paths : q # p => f[q] = task[r][q]
      BY <1>1, <1>2 DEF TaskFun, ValidTask
    <2>3. mid = [task EXCEPT ![r] = f]
      BY <2>1
    <2> HIDE DEF f, mid
    <2>4. QED
      BY <1>1, <2>2, <2>3 DEF TaskFun
  <1> HIDE DEF t
  <1>4. task' = Orphan(gone, mid)
    OBVIOUS
  <1> HIDE DEF mid
  <1>5. task' \in TaskFun /\ \A s \in Runners, q \in Paths : Kept(mid[s][q], task'[s][q])
    BY <1>3, <1>4, OrphanTasks
  <1>6. ValidTask(task'[r][p]) /\ task'[r][p].st = "done"
    BY <1>2, <1>3, <1>5 DEF Kept, ValidTask
  <1>7. QED
    BY <1>3, <1>5, <1>6 DEF Advances

LEMMA FileAdvances ==
  ASSUME IndexInv, NEW r \in Runners, NEW p \in Paths, FileStep(r, p)
  PROVE  Advances(r, p)
  <1> USE DEF TaskSteps, TaskWays, Holding
  <1>1. CASE Open(r, p) \/ Upsert(r, p) \/ Insert(r, p)
    BY <1>1, OpenAdvances, UpsertAdvances, InsertAdvances
  <1>2. CASE Check(r, p)
    <2>1. task[r][p].st = "check" /\ \E step \in {"done", "upsert"} : Goto(r, p, step)
      BY <1>2 DEF Check, Keep
    <2>2. QED
      BY <2>1, GotoAdvances
  <1>3. CASE Clear(r, p)
    <2>1. task[r][p].st = "clear" /\ \E step \in {"insert", "error"} : Goto(r, p, step)
      BY <1>3 DEF Clear, Fails
    <2>2. QED
      BY <2>1, GotoAdvances
  <1>4. CASE Stored(r, p)
    <2>1. task[r][p].st = "insert" /\ \E step \in {"unchunk", "done"} : Goto(r, p, step)
      BY <1>4 DEF Stored, Keep
    <2>2. QED
      BY <2>1, GotoAdvances
  <1>5. CASE RemoveChunks(r, p)
    <2>1. task[r][p].st = "unchunk" /\ Goto(r, p, "unfile")
      BY <1>5 DEF RemoveChunks
    <2>2. QED
      BY <2>1, GotoAdvances
  <1>6. CASE RemoveRow(r, p)
    <2>1. task[r][p].st = "unfile" /\ (Goto(r, p, "done") \/ \E gone : task' = Orphan(gone, [task EXCEPT ![r][p].st = "done"]))
      BY <1>6, Zenon DEF RemoveRow
    <2>2. QED
      BY <2>1, GotoAdvances, OrphanAdvances
  <1>7. CASE Unlist(r, p)
    <2>1. task[r][p].st = "unlist" /\ \E step \in {"sweep", "error"} : Goto(r, p, step)
      BY <1>7 DEF Unlist, Fails
    <2>2. QED
      BY <2>1, GotoAdvances
  <1>8. CASE Sweep(r, p)
    <2>1. task[r][p].st = "sweep" /\ (Goto(r, p, "error") \/ \E gone : task' = Orphan(gone, [task EXCEPT ![r][p].st = "done"]))
      BY <1>8, Zenon DEF Sweep, Fails, Prune
    <2>2. QED
      BY <2>1, GotoAdvances, OrphanAdvances
  <1>9. QED
    BY <1>1, <1>2, <1>3, <1>4, <1>5, <1>6, <1>7, <1>8 DEF FileStep

------------------------------------------------------------------------------
(* Types *)

Held == [Index -> 0 .. NChunks]

LEMMA InsertedHeld ==
  ASSUME NEW row \in Held, NEW t \in Tasks
  PROVE  Inserted(row, t) \in Held /\ NoChunks \in Held
  <1>1. \A i \in Index : (IF t.next + i \in Batch(t) THEN t.next + i ELSE row[i]) \in 0 .. NChunks
    BY NChunksAssumption DEF Batch, Held, Tasks, Index
  <1>2. \A i \in Index : 0 \in 0 .. NChunks
    BY NChunksAssumption
  <1>3. QED
    BY <1>1, <1>2 DEF Inserted, NoChunks, Held

LEMMA NoChunksHeld == NoChunks \in Held
  BY NChunksAssumption DEF NoChunks, Held

\* One place of a table is set.
LEMMA SetPlace ==
  ASSUME NEW D, NEW E, NEW V, NEW f \in [D -> [E -> V]], NEW d \in D, NEW e \in E, NEW v \in V,
         NEW g, g = [f EXCEPT ![d][e] = v]
  PROVE  /\ g \in [D -> [E -> V]] /\ g[d][e] = v
         /\ \A d2 \in D, e2 \in E : d2 # d \/ e2 # e => g[d2][e2] = f[d2][e2]
  <1> DEFINE h == [f[d] EXCEPT ![e] = v]
  <1>1. h \in [E -> V] /\ h[e] = v /\ \A e2 \in E : e2 # e => h[e2] = f[d][e2]
    OBVIOUS
  <1>2. g = [f EXCEPT ![d] = h]
    OBVIOUS
  <1> HIDE DEF h
  <1>3. QED
    BY <1>1, <1>2

\* What a step on a file leaves alone.
LEMMA FileKeeps ==
  ASSUME NEW r, NEW p, FileStep(r, p)
  PROVE  UNCHANGED <<disk, pend, phase, mode, wt, edits, stops, unseen, current, skipped>>
  <1> USE DEF run, store, history, bounds, Fails, Keep, OpenText
  <1>1. CASE Open(r, p)
    BY <1>1 DEF Open
  <1>2. CASE Check(r, p) \/ Upsert(r, p) \/ Clear(r, p)
    BY <1>2 DEF Check, Upsert, Clear
  <1>3. CASE Insert(r, p)
    BY <1>3, Zenon DEF Insert
  <1>4. CASE Stored(r, p)
    BY <1>4, Zenon DEF Stored
  <1>5. CASE RemoveChunks(r, p) \/ RemoveRow(r, p)
    BY <1>5, Zenon DEF RemoveChunks, RemoveRow
  <1>6. CASE Unlist(r, p) \/ Sweep(r, p)
    BY <1>6 DEF Unlist, Sweep
  <1>7. QED
    BY <1>1, <1>2, <1>3, <1>4, <1>5, <1>6 DEF FileStep

\* A prune removes rows and what hangs on them.
LEMMA PruneTypes ==
  ASSUME TypeOK, NEW t, Prune(t)
  PROVE  /\ files' = files \cap Referenced /\ manifest' = manifest
         /\ files' \subseteq Rows /\ chunks' \in [Rows -> Held] /\ deps' \in [Paths -> Versions \cup {NoVersion}]
         /\ \A v \in Rows : chunks'[v] = IF v \in files \ Referenced THEN NoChunks ELSE chunks[v]
         /\ \A q \in Paths : deps'[q] = IF \E v \in files' : v[1] = q THEN deps[q] ELSE NoVersion
  <1>1. files' = files \ (files \ Referenced) /\ manifest' = manifest
    BY DEF Prune, DropRows
  <1>2. chunks' = [v \in Rows |-> IF v \in files \ Referenced THEN NoChunks ELSE chunks[v]]
    BY DEF Prune, DropRows
  <1>3. deps' = [q \in Paths |-> IF \E v \in files' : v[1] = q THEN deps[q] ELSE NoVersion]
    BY <1>1 DEF Prune
  <1>4. NoChunks \in Held
    BY NChunksAssumption DEF NoChunks, Held
  <1>5. chunks \in [Rows -> Held] /\ deps \in [Paths -> Versions \cup {NoVersion}] /\ files \subseteq Rows
    BY DEF TypeOK, Held
  <1>6. chunks' \in [Rows -> Held]
    BY <1>2, <1>4, <1>5
  <1>7. deps' \in [Paths -> Versions \cup {NoVersion}]
    BY <1>3, <1>5
  <1>8. QED
    BY <1>1, <1>2, <1>3, <1>5, <1>6, <1>7

LEMMA FileTypes ==
  ASSUME IndexInv, NEW r \in Runners, NEW p \in Paths, FileStep(r, p)
  PROVE  /\ files' \subseteq Rows /\ chunks' \in [Rows -> Held]
         /\ deps' \in [Paths -> Versions \cup {NoVersion}]
         /\ manifest' \in [Worktrees -> [Paths -> Versions \cup {NoVersion}]]
         /\ units' \in [Runners -> [Paths -> Versions \cup {NoVersion}]]
         /\ failed' \in [Runners -> BOOLEAN] /\ errs' \in 0 .. MaxErrs
  <1>1. /\ files \subseteq Rows /\ chunks \in [Rows -> Held] /\ deps \in [Paths -> Versions \cup {NoVersion}]
        /\ manifest \in [Worktrees -> [Paths -> Versions \cup {NoVersion}]]
        /\ units \in [Runners -> [Paths -> Versions \cup {NoVersion}]]
        /\ failed \in [Runners -> BOOLEAN] /\ errs \in 0 .. MaxErrs
        /\ task[r][p] \in Tasks /\ ValidTask(task[r][p]) /\ wt[r] \in Worktrees
    BY DEF IndexInv, TypeOK, Held, TasksValid, ValidTask
  <1>2. errs' = errs \/ CallFails
    BY Zenon DEF FileStep, Open, OpenText, Check, Upsert, Clear, Insert, Stored, RemoveChunks, RemoveRow, Unlist, Sweep,
       bounds, CallFails
  <1>3. errs' \in 0 .. MaxErrs
    BY <1>1, <1>2, BoundsAssumption DEF CallFails
  <1>4. failed' = failed \/ failed' = [failed EXCEPT ![r] = TRUE]
    BY Zenon DEF FileStep, Open, OpenText, Check, Upsert, Clear, Insert, Stored, RemoveChunks, RemoveRow, Unlist, Sweep,
       Fails, Keep, run
  <1>5. units' = units \/ units' = [units EXCEPT ![r][p] = task[r][p].ver]
    BY Zenon DEF FileStep, Open, OpenText, Check, Upsert, Clear, Insert, Stored, RemoveChunks, RemoveRow, Unlist, Sweep,
       Fails, Keep, run
  <1>6. failed' \in [Runners -> BOOLEAN] /\ units' \in [Runners -> [Paths -> Versions \cup {NoVersion}]]
    <2>1. task[r][p].ver \in Versions \cup {NoVersion}
      BY <1>1 DEF Tasks
    <2>2. QED
      <3>1. failed' \in [Runners -> BOOLEAN]
        BY <1>1, <1>4
      <3>2. CASE units' = [units EXCEPT ![r][p] = task[r][p].ver]
        BY <1>1, <2>1, <3>1, <3>2, SetPlace
      <3>3. QED
        BY <1>1, <1>5, <3>1, <3>2
  <1>7. CASE Sweep(r, p)
    <2>1. manifest' = manifest /\ (UNCHANGED <<files, chunks, deps>> \/ \E t : Prune(t))
      BY <1>7 DEF Sweep, store, Prune
    <2>2. ASSUME NEW t, Prune(t)
          PROVE  files' \subseteq Rows /\ chunks' \in [Rows -> Held] /\ deps' \in [Paths -> Versions \cup {NoVersion}]
      BY <2>2, PruneTypes DEF IndexInv
    <2>3. QED
      BY <1>1, <1>3, <1>6, <2>1, <2>2
  <1>8. CASE ~Sweep(r, p)
    <2>1. deps' \in [Paths -> Versions \cup {NoVersion}]
      <3>1. deps' = deps \/ \E v \in Versions : deps' = [deps EXCEPT ![p] = v]
        BY <1>8, Zenon DEF FileStep, Open, OpenText, Check, Upsert, Clear, Insert, Stored, RemoveChunks, RemoveRow, Unlist,
           store, Versions
      <3>2. QED
        BY <1>1, <3>1
    <2>2. manifest' \in [Worktrees -> [Paths -> Versions \cup {NoVersion}]]
      <3>1. manifest' = manifest \/ manifest' = [manifest EXCEPT ![wt[r]][p] = NoVersion]
        BY <1>8, Zenon DEF FileStep, Open, Check, Upsert, Clear, Insert, Stored, RemoveChunks, RemoveRow, Unlist, store
      <3>2. CASE manifest' = [manifest EXCEPT ![wt[r]][p] = NoVersion]
        <4>1. NoVersion \in Versions \cup {NoVersion}
          OBVIOUS
        <4>2. QED
          BY <1>1, <3>2, <4>1, SetPlace
      <3>3. QED
        BY <1>1, <3>1, <3>2
    <2> DEFINE RowsTyped == files' \subseteq Rows /\ chunks' \in [Rows -> Held]
    <2>3. CASE Upsert(r, p)
      <3>1. <<p, task[r][p].ver>> \in Rows
        BY <1>1, <2>3 DEF Upsert, ValidTask, Holding, Rows
      <3>2. chunks' = chunks /\ (files' = files \/ files' = files \cup {<<p, task[r][p].ver>>})
        BY <2>3 DEF Upsert
      <3>3. RowsTyped
        BY <1>1, <3>1, <3>2
      <3>4. QED
        BY <1>3, <1>6, <2>1, <2>2, <3>3
    <2>4. CASE Clear(r, p) \/ RemoveChunks(r, p)
      <3>1. files' = files /\ (chunks' = chunks \/ chunks' = [chunks EXCEPT ![<<p, task[r][p].ver>>] = NoChunks])
        BY <2>4, Zenon DEF Clear, RemoveChunks
      <3>2. RowsTyped
        BY <1>1, <3>1, NoChunksHeld
      <3>3. QED
        BY <1>3, <1>6, <2>1, <2>2, <3>2
    <2>5. CASE Insert(r, p)
      <3>1. /\ files' = files
            /\ \/ chunks' = chunks
               \/ chunks' = [chunks EXCEPT ![<<p, task[r][p].ver>>] = Inserted(chunks[<<p, task[r][p].ver>>], task[r][p])]
        BY <2>5, Zenon DEF Insert
      <3>2. <<p, task[r][p].ver>> \in Rows
        BY <1>1, <2>5 DEF Insert, ValidTask, Holding, Rows
      <3>3. Inserted(chunks[<<p, task[r][p].ver>>], task[r][p]) \in Held
        BY <1>1, <3>2, InsertedHeld
      <3>4. RowsTyped
        BY <1>1, <3>1, <3>3
      <3>5. QED
        BY <1>3, <1>6, <2>1, <2>2, <3>4
    <2>6. CASE RemoveRow(r, p)
      <3>1. UNCHANGED <<files, chunks>> \/ \E gone : DropRows(gone)
        BY <2>6, Zenon DEF RemoveRow
      <3>2. ASSUME NEW gone, DropRows(gone) PROVE RowsTyped
        BY <1>1, <3>2, NoChunksHeld DEF DropRows
      <3>3. RowsTyped
        BY <1>1, <3>1, <3>2
      <3>4. QED
        BY <1>3, <1>6, <2>1, <2>2, <3>3
    <2>7. CASE Open(r, p) \/ Check(r, p) \/ Stored(r, p) \/ Unlist(r, p)
      <3>1. UNCHANGED <<files, chunks>>
        BY <2>7, Zenon DEF Open, Check, Stored, Unlist, store
      <3>2. RowsTyped
        BY <1>1, <3>1
      <3>3. QED
        BY <1>3, <1>6, <2>1, <2>2, <3>2
    <2>8. QED
      BY <1>8, <2>3, <2>4, <2>5, <2>6, <2>7 DEF FileStep
  <1>9. QED
    BY <1>7, <1>8

\* Every task of a run is new: what a run does to its tasks when it starts or ends.
LEMMA ResetTasks ==
  ASSUME task \in TaskFun, NEW r \in Runners, NEW f \in [Paths -> {"idle", "todo", "done"}],
         task' = [task EXCEPT ![r] = [p \in Paths |-> [NoTask EXCEPT !.st = f[p]]]]
  PROVE  /\ task' \in TaskFun /\ \A s \in Runners : s # r => task'[s] = task[s]
         /\ \A p \in Paths : task'[r][p].st = f[p] /\ ValidTask(task'[r][p]) /\ task'[r][p].ver = NoVersion
  <1>1. \A p \in Paths : /\ [NoTask EXCEPT !.st = f[p]] \in Tasks /\ [NoTask EXCEPT !.st = f[p]].st = f[p]
                         /\ [NoTask EXCEPT !.st = f[p]].created = NoTask.created
                         /\ [NoTask EXCEPT !.st = f[p]].next = NoTask.next
                         /\ [NoTask EXCEPT !.st = f[p]].ver = NoTask.ver
    BY NextTypes DEF Tasks, TaskSteps
  <1>2. NoTask.created = 0 /\ NoTask.next = 1 /\ NoTask.ver = NoVersion
    BY DEF NoTask
  <1> DEFINE g == [p \in Paths |-> [NoTask EXCEPT !.st = f[p]]]
  <1>3. g \in [Paths -> Tasks] /\ \A p \in Paths : /\ g[p].st = f[p] /\ g[p] \in Tasks
                                                   /\ g[p].created = 0 /\ g[p].next = 1 /\ g[p].ver = NoVersion
    BY <1>1, <1>2
  <1>4. task' = [task EXCEPT ![r] = g]
    OBVIOUS
  <1> HIDE DEF g
  <1>5. task' \in TaskFun /\ task'[r] = g /\ \A s \in Runners : s # r => task'[s] = task[s]
    BY <1>3, <1>4 DEF TaskFun
  <1>6. \A p \in Paths : ValidTask(g[p])
    <2>1. \A p \in Paths : f[p] \notin Holding
      BY DEF Holding
    <2>2. QED
      BY <1>3, <2>1 DEF ValidTask
  <1>7. QED
    BY <1>3, <1>5, <1>6

LEMMA IdleTasks ==
  ASSUME task \in TaskFun, NEW r \in Runners, task' = [task EXCEPT ![r] = [p \in Paths |-> NoTask]]
  PROVE  /\ task' \in TaskFun /\ \A s \in Runners : s # r => task'[s] = task[s]
         /\ \A p \in Paths : task'[r][p].st = "idle" /\ ValidTask(task'[r][p])
  <1>1. NoTask.st = "idle" /\ NoTask.created = 0 /\ NoTask.next = 1
    BY DEF NoTask
  <1> DEFINE g == [p \in Paths |-> NoTask]
  <1>2. g \in [Paths -> Tasks] /\ \A p \in Paths : g[p] = NoTask
    BY NextTypes
  <1>3. task' = [task EXCEPT ![r] = g]
    OBVIOUS
  <1> HIDE DEF g
  <1>4. task' \in TaskFun /\ task'[r] = g /\ \A s \in Runners : s # r => task'[s] = task[s]
    BY <1>2, <1>3 DEF TaskFun
  <1>5. QED
    BY <1>1, <1>2, <1>4, NextTypes DEF ValidTask, Holding

LEMMA TodoTasks ==
  ASSUME task \in TaskFun, NEW r \in Runners, NEW P, Todo(r, P)
  PROVE  /\ task' \in TaskFun /\ \A s \in Runners : s # r => task'[s] = task[s]
         /\ \A p \in Paths : /\ task'[r][p].st = IF p \in P THEN "todo" ELSE "done"
                             /\ ValidTask(task'[r][p]) /\ task'[r][p].ver = NoVersion
  <1> DEFINE f == [p \in Paths |-> IF p \in P THEN "todo" ELSE "done"]
  <1>1. f \in [Paths -> {"idle", "todo", "done"}] /\ \A p \in Paths : f[p] = IF p \in P THEN "todo" ELSE "done"
    OBVIOUS
  <1>2. \A p \in Paths : (IF p \in P THEN [NoTask EXCEPT !.st = "todo"] ELSE [NoTask EXCEPT !.st = "done"])
                           = [NoTask EXCEPT !.st = f[p]]
    OBVIOUS
  <1> HIDE DEF f
  <1>3. task' = [task EXCEPT ![r] = [p \in Paths |-> [NoTask EXCEPT !.st = f[p]]]]
    BY <1>2 DEF Todo
  <1>4. /\ task' \in TaskFun /\ \A s \in Runners : s # r => task'[s] = task[s]
        /\ \A p \in Paths : task'[r][p].st = f[p] /\ ValidTask(task'[r][p]) /\ task'[r][p].ver = NoVersion
    BY <1>1, <1>3, ResetTasks, Zenon
  <1>5. QED
    BY <1>1, <1>4

\* A run starts.
LEMMA StartTypes ==
  ASSUME IndexInv, NEW r \in Runners, NEW w \in Worktrees, StartIndex(r, w) \/ StartUnlock(r, w)
  PROVE  IndexInv'
  <1>1. PICK m \in {"index", "force", "unlock"}, P \in SUBSET Paths : Begin(r, w, m) /\ Todo(r, P)
    <2>1. Scan(w) \in SUBSET Paths /\ {p \in Paths : <<w, p>> \in pend} \in SUBSET Paths
      BY DEF Scan
    <2>2. CASE StartIndex(r, w)
      <3>1. \E m \in {"index", "force"} : Begin(r, w, m)
        BY <2>2 DEF StartIndex
      <3>2. QED
        BY <2>1, <2>2, <3>1 DEF StartIndex
    <2>3. CASE StartUnlock(r, w)
      BY <2>1, <2>3 DEF StartUnlock
    <2>4. QED
      BY <2>2, <2>3
  <1>2. TypeOK /\ task \in TaskFun /\ TasksValid /\ PhasesFit
    BY DEF IndexInv, TypeOK, TaskFun
  <1>3. /\ task' \in TaskFun /\ \A s \in Runners : s # r => task'[s] = task[s]
        /\ \A p \in Paths : ValidTask(task'[r][p])
    BY <1>1, <1>2, TodoTasks
  <1>4. current' \subseteq Worktrees
    BY <1>2 DEF TypeOK, StartIndex, StartUnlock
  <1>5. Nothing \in [Paths -> Versions \cup {NoVersion}]
    BY DEF Nothing
  <1>6. TypeOK'
    BY <1>1, <1>2, <1>3, <1>4, <1>5 DEF TypeOK, Begin, store, bounds, TaskFun
  <1>7. phase' = [phase EXCEPT ![r] = "files"] /\ mode' = [mode EXCEPT ![r] = m]
    BY <1>1 DEF Begin
  <1>8. TasksValid'
    BY <1>2, <1>3 DEF TasksValid
  <1>9. PhasesFit'
    BY <1>2, <1>3, <1>7 DEF PhasesFit, TypeOK
  <1>10. QED
    BY <1>6, <1>8, <1>9 DEF IndexInv

LEMMA FileNext ==
  ASSUME IndexInv, NEW r \in Runners, NEW p \in Paths, FileStep(r, p)
  PROVE  IndexInv'
  <1>1. TypeOK /\ TasksValid /\ PhasesFit
    BY DEF IndexInv
  <1>2. Advances(r, p)
    BY FileAdvances
  <1>3. TypeOK'
    BY <1>1, <1>2, FileTypes, FileKeeps DEF TypeOK, Held, TaskFun, Advances
  <1>4. \A s \in Runners, q \in Paths : s # r \/ q # p => ValidTask(task'[s][q]) /\ task'[s][q].st = task[s][q].st
    BY <1>1, <1>2 DEF Advances, Kept, TasksValid, ValidTask
  <1>5. TasksValid'
    BY <1>2, <1>4 DEF TasksValid, Advances
  <1>6. task[r][p].st \in Working
    BY <1>2 DEF Advances, TaskWays, Working, Holding
  <1>7. PhasesFit'
    BY <1>1, <1>4, <1>6, FileKeeps DEF PhasesFit
  <1>8. QED
    BY <1>3, <1>5, <1>7 DEF IndexInv

LEMMA EndTypes ==
  ASSUME IndexInv, NEW r \in Runners, FilesDone(r) \/ SetManifest(r) \/ PruneVersions(r) \/ Finish(r) \/ Stop(r)
  PROVE  IndexInv'
  <1>1. TypeOK /\ task \in TaskFun /\ TasksValid /\ PhasesFit
    BY DEF IndexInv, TypeOK, TaskFun
  <1> USE BoundsAssumption DEF Enter, store, run, history, bounds
  <1>2. CASE FilesDone(r)
    <2>1. TypeOK'
      BY <1>1, <1>2 DEF FilesDone, TypeOK
    <2>2. TasksValid' /\ \A p \in Paths : task'[r][p].st \notin Working
      BY <1>1, <1>2 DEF FilesDone, TasksValid, Ended, Working, Holding
    <2>3. PhasesFit'
      BY <1>1, <1>2, <2>2 DEF FilesDone, PhasesFit, TypeOK
    <2>4. QED
      BY <2>1, <2>2, <2>3 DEF IndexInv
  <1>3. CASE SetManifest(r)
    <2>1. errs' \in 0 .. MaxErrs /\ current' \subseteq Worktrees
      BY <1>1, <1>3 DEF SetManifest, CallFails, TypeOK
    <2>2. manifest' \in [Worktrees -> [Paths -> Versions \cup {NoVersion}]]
      BY <1>1, <1>3 DEF SetManifest, TypeOK
    <2>3. phase' \in [Runners -> {"idle", "files", "manifest", "prune", "finish"}]
      BY <1>1, <1>3 DEF SetManifest, TypeOK
    <2>4. UNCHANGED <<disk, files, chunks, deps, pend, task, edits, stops, unseen, skipped, mode, wt, units, failed>>
      BY <1>3 DEF SetManifest
    <2>5. TypeOK'
      BY <1>1, <2>1, <2>2, <2>3, <2>4 DEF TypeOK
    <2>6. \A p \in Paths : task[r][p].st \notin Working
      BY <1>1, <1>3 DEF SetManifest, PhasesFit
    <2>7. TasksValid' /\ PhasesFit'
      BY <1>1, <1>3, <2>4, <2>6 DEF SetManifest, PhasesFit, TasksValid, TypeOK
    <2>8. QED
      BY <2>5, <2>7 DEF IndexInv
  <1>4. CASE PruneVersions(r)
    <2>1. errs' \in 0 .. MaxErrs
      BY <1>1, <1>4 DEF PruneVersions, CallFails, TypeOK
    <2>2. /\ files' \subseteq Rows /\ chunks' \in [Rows -> Held] /\ deps' \in [Paths -> Versions \cup {NoVersion}]
          /\ manifest' = manifest
      <3>1. CASE Prune(task)
        BY <1>1, <3>1, PruneTypes
      <3>2. CASE UNCHANGED store
        BY <1>1, <3>2 DEF TypeOK, Held
      <3>3. QED
        BY <1>4, <3>1, <3>2 DEF PruneVersions
    <2>3. task' \in TaskFun /\ \A s \in Runners, q \in Paths : Kept(task[s][q], task'[s][q])
      <3>1. CASE \E gone : task' = Orphan(gone, task)
        BY <1>1, <3>1, OrphanTasks
      <3>2. CASE task' = task
        BY <1>1, <3>2 DEF Kept, TaskFun
      <3>3. QED
        BY <1>4, <3>1, <3>2 DEF PruneVersions, Prune
    <2>4. phase' = [phase EXCEPT ![r] = "finish"] /\ phase[r] = "prune"
          /\ UNCHANGED <<disk, pend, edits, stops, unseen, current, skipped, mode, wt, units, failed>>
      BY <1>4 DEF PruneVersions
    <2>5. TypeOK'
      BY <1>1, <2>1, <2>2, <2>3, <2>4 DEF TypeOK, Held, TaskFun
    <2>6. \A s \in Runners, q \in Paths : ValidTask(task'[s][q]) /\ task'[s][q].st = task[s][q].st
      BY <1>1, <2>3, SMTT(60) DEF Kept, TasksValid, ValidTask
    <2>7. TasksValid' /\ PhasesFit'
      BY <1>1, <2>4, <2>6, ZenonT(60) DEF TasksValid, PhasesFit, TypeOK
    <2>8. QED
      BY <2>5, <2>7 DEF IndexInv
  <1>5. CASE Finish(r)
    <2>1. /\ task' \in TaskFun /\ \A s \in Runners : s # r => task'[s] = task[s]
          /\ \A p \in Paths : task'[r][p].st = "idle" /\ ValidTask(task'[r][p])
      BY <1>1, <1>5, IdleTasks DEF Finish
    <2>2. pend' \subseteq Worktrees \X Paths /\ skipped' \subseteq Worktrees \X Paths
      BY <1>1, <1>5 DEF Finish, Pending, Unlocked, With, TypeOK
    <2>3. phase' = [phase EXCEPT ![r] = "idle"]
          /\ UNCHANGED <<disk, files, chunks, deps, manifest, edits, errs, stops, unseen, current, mode, wt, units, failed>>
      BY <1>5 DEF Finish
    <2>4. TypeOK'
      BY <1>1, <2>1, <2>2, <2>3 DEF TypeOK, TaskFun
    <2>5. TasksValid' /\ PhasesFit'
      BY <1>1, <2>1, <2>3 DEF TasksValid, PhasesFit, TypeOK, Working, Holding
    <2>6. QED
      BY <2>4, <2>5 DEF IndexInv
  <1>6. CASE Stop(r)
    <2>1. /\ task' \in TaskFun /\ \A s \in Runners : s # r => task'[s] = task[s]
          /\ \A p \in Paths : task'[r][p].st = "idle" /\ ValidTask(task'[r][p])
      BY <1>1, <1>6, IdleTasks DEF Stop
    <2>2. phase' = [phase EXCEPT ![r] = "idle"] /\ stops' \in 0 .. MaxStops
      BY <1>1, <1>6 DEF Stop, TypeOK
    <2>3. UNCHANGED <<disk, files, chunks, deps, manifest, pend, mode, wt, units, failed, edits, errs, unseen, current, skipped>>
      BY <1>6 DEF Stop
    <2>4. TypeOK'
      BY <1>1, <2>1, <2>2, <2>3 DEF TypeOK, TaskFun
    <2>5. TasksValid' /\ PhasesFit'
      BY <1>1, <2>1, <2>2, <2>3 DEF TasksValid, PhasesFit, TypeOK, Working, Holding
    <2>6. QED
      BY <2>4, <2>5 DEF IndexInv
  <1>7. QED
    BY <1>2, <1>3, <1>4, <1>5, <1>6

LEMMA EditTypes ==
  ASSUME IndexInv, NEW w \in Worktrees, NEW p \in Paths, Edit(w, p)
  PROVE  IndexInv'
  <1>1. TypeOK /\ TasksValid /\ PhasesFit
    BY DEF IndexInv
  <1>2. disk' \in [Worktrees -> [Paths -> Contents]]
    <2>1. PICK c \in Contents : disk' = [disk EXCEPT ![w][p] = c]
      BY DEF Edit
    <2>2. disk \in [Worktrees -> [Paths -> Contents]]
      BY <1>1 DEF TypeOK
    <2>3. QED
      BY <2>1, <2>2, SetPlace
  <1>3. /\ UNCHANGED <<files, chunks, deps, manifest, pend, phase, mode, wt, units, failed, task, errs, stops>>
        /\ edits' \in 0 .. MaxEdits /\ current' \subseteq Worktrees /\ skipped' \subseteq Worktrees \X Paths
    BY <1>1, BoundsAssumption DEF Edit, store, run, TypeOK
  <1>4. unseen' \in [Runners -> BOOLEAN]
    BY <1>1 DEF Edit, TypeOK
  <1>5. TypeOK'
    BY <1>1, <1>2, <1>3, <1>4 DEF TypeOK
  <1>6. QED
    BY <1>1, <1>3, <1>5 DEF IndexInv, TasksValid, PhasesFit

LEMMA IndexInvInit == Init => IndexInv
  <1> SUFFICES ASSUME Init PROVE IndexInv
    OBVIOUS
  <1>1. task = [r \in Runners |-> [p \in Paths |-> NoTask]]
    BY DEF Init
  <1>2. \A r \in Runners, p \in Paths : task[r][p] = NoTask
    BY <1>1
  <1>3. task \in TaskFun /\ TasksValid
    <2>1. NoTask \in Tasks /\ NoTask.created < NoTask.next /\ NoTask.st \notin Holding
      BY NextTypes DEF NoTask, Holding
    <2>2. QED
      BY <1>1, <1>2, <2>1 DEF TaskFun, TasksValid, ValidTask
  <1>4. Nothing \in [Paths -> Versions \cup {NoVersion}]
    BY DEF Nothing
  <1>5. chunks \in [Rows -> Held]
    BY NoChunksHeld DEF Init
  <1>6. wt \in [Runners -> Worktrees]
    BY DEF Init
  <1>7. TypeOK
    BY <1>3, <1>4, <1>5, <1>6, BoundsAssumption DEF Init, TypeOK, TaskFun, Held
  <1>8. PhasesFit
    BY <1>2 DEF Init, PhasesFit, NoTask, Working, Holding
  <1>9. QED
    BY <1>3, <1>7, <1>8 DEF IndexInv

LEMMA IndexInvNext == IndexInv /\ [Next]_vars => IndexInv'
  <1> SUFFICES ASSUME IndexInv, [Next]_vars PROVE IndexInv'
    OBVIOUS
  <1>1. CASE UNCHANGED vars
    BY <1>1 DEF vars, store, run, bounds, history, IndexInv, TypeOK, TasksValid, PhasesFit
  <1>2. CASE Next
    BY <1>2, EditTypes, StartTypes, EndTypes, FileNext DEF Next, RunStep
  <1>3. QED
    BY <1>1, <1>2

\* No run, however many there are and wherever each of them is, works on a file
\* outside its first phase or counts chunks it has not tried (indexer.go).
THEOREM IndexTypeCorrect == Spec => []TypeOK
  <1>1. IndexInv => TypeOK
    BY DEF IndexInv
  <1>2. QED
    BY <1>1, IndexInvInit, IndexInvNext, PTL DEF Spec

------------------------------------------------------------------------------
(* Nothing leaks *)

\* A run that may still leave rows without a reference: it has its prune before
\* it, or it unlocked and does not prune.
Owing(r) == mode[r] = "unlock" \/ phase[r] \in {"files", "manifest", "prune"}

(* While nothing fails, what no manifest references is the debt of a run.   *)
LeakInv == errs = 0 /\ stops = 0 => (\E r \in Runners : Owing(r)) \/ files \subseteq Referenced

LEMMA LeakNext == IndexInv /\ LeakInv /\ [Next]_vars => LeakInv'
  <1> SUFFICES ASSUME IndexInv, LeakInv, [Next]_vars, errs' = 0, stops' = 0
               PROVE  (\E r \in Runners : Owing(r)') \/ files' \subseteq Referenced'
    BY DEF LeakInv
  <1> USE DEF Enter, bounds
  <1>1. errs \in Nat /\ stops \in Nat /\ phase \in [Runners -> {"idle", "files", "manifest", "prune", "finish"}]
        /\ mode \in [Runners -> {"index", "force", "unlock"}]
    BY BoundsAssumption DEF IndexInv, TypeOK
  <1>2. CASE UNCHANGED <<phase, mode, files, manifest, errs, stops>>
    <2>1. (\E r \in Runners : Owing(r)) \/ files \subseteq Referenced
      BY <1>2 DEF LeakInv
    <2>2. Referenced' = Referenced
      BY <1>2 DEF Referenced
    <2>3. QED
      BY <1>2, <2>1, <2>2 DEF Owing
  <1>3. CASE UNCHANGED vars
    BY <1>2, <1>3 DEF vars, store, run
  <1>4. ASSUME NEW w \in Worktrees, NEW p \in Paths, Edit(w, p)
        PROVE  (\E r \in Runners : Owing(r)') \/ files' \subseteq Referenced'
    BY <1>2, <1>4 DEF Edit, store, run
  <1>5. ASSUME NEW r \in Runners, NEW w \in Worktrees, StartIndex(r, w) \/ StartUnlock(r, w)
        PROVE  \E s \in Runners : Owing(s)'
    <2>1. phase' = [phase EXCEPT ![r] = "files"]
      BY <1>5 DEF StartIndex, StartUnlock, Begin
    <2>2. QED
      BY <1>1, <2>1 DEF Owing
  <1>6. ASSUME NEW r \in Runners, NEW p \in Paths, FileStep(r, p)
        PROVE  \E s \in Runners : Owing(s)'
    <2>1. task[r][p].st \in Working
      BY <1>6, FileAdvances DEF Advances, TaskWays, Working, Holding
    <2>2. phase[r] = "files" /\ phase' = phase
      BY <1>6, <2>1, FileKeeps DEF IndexInv, PhasesFit
    <2>3. QED
      BY <2>2 DEF Owing
  <1>7. ASSUME NEW r \in Runners, FilesDone(r)
        PROVE  \E s \in Runners : Owing(s)'
    <2>1. mode' = mode /\ phase' = [phase EXCEPT ![r] = IF mode[r] = "unlock" THEN "finish" ELSE "manifest"]
      BY <1>7 DEF FilesDone
    <2>2. QED
      BY <1>1, <2>1 DEF Owing
  <1>8. ASSUME NEW r \in Runners, SetManifest(r)
        PROVE  \E s \in Runners : Owing(s)'
    <2>1. phase' = [phase EXCEPT ![r] = "prune"]
      BY <1>1, <1>8 DEF SetManifest, CallFails
    <2>2. QED
      BY <1>1, <2>1 DEF Owing
  <1>9. ASSUME NEW r \in Runners, PruneVersions(r)
        PROVE  files' \subseteq Referenced'
    <2>1. Prune(task)
      BY <1>1, <1>9 DEF PruneVersions, CallFails
    <2>2. files' = files \cap Referenced /\ manifest' = manifest
      BY <2>1, PruneTypes DEF IndexInv
    <2>3. QED
      BY <2>2 DEF Referenced
  <1>10. ASSUME NEW r \in Runners, Finish(r)
         PROVE  (\E s \in Runners : Owing(s)') \/ files' \subseteq Referenced'
    <2>1. /\ phase[r] = "finish" /\ phase' = [phase EXCEPT ![r] = "idle"]
          /\ UNCHANGED <<mode, files, manifest, errs, stops>>
      BY <1>10 DEF Finish, store
    <2>2. (\E s \in Runners : Owing(s)) \/ files \subseteq Referenced
      BY <2>1 DEF LeakInv
    <2>3. \A s \in Runners : Owing(s) => Owing(s)'
      BY <1>1, <2>1 DEF Owing
    <2>4. Referenced' = Referenced
      BY <2>1 DEF Referenced
    <2>5. QED
      BY <2>1, <2>2, <2>3, <2>4
  <1>11. ASSUME NEW r \in Runners, Stop(r) PROVE FALSE
    BY <1>1, <1>11 DEF Stop
  <1>12. QED
    BY <1>3, <1>4, <1>5, <1>6, <1>7, <1>8, <1>9, <1>10, <1>11 DEF Next, RunStep

\* However many runs of however many worktrees overlap, as long as no call fails
\* and no run is cut short, every stored version is in a manifest when the last
\* run that prunes is over: the index does not grow with the history of the
\* checkouts (indexer.go recordWorktree, store.go PruneUnreferencedFiles).
THEOREM OldVersionsGo == Spec => []NothingLeaks
  <1>1. Init => LeakInv
    BY DEF Init, LeakInv
  <1>2. LeakInv => NothingLeaks
    BY DEF LeakInv, NothingLeaks, AllIdle, Owing, Referenced
  <1>3. QED
    BY <1>1, <1>2, IndexInvInit, IndexInvNext, LeakNext, PTL DEF Spec

------------------------------------------------------------------------------
(* The pending list *)

SkippedListed == skipped \subseteq pend

LEMMA SkippedNext ==
  ASSUME NEW w, Worktrees = {w}, IndexInv, SkippedListed, [Next]_vars
  PROVE  SkippedListed'
  <1> USE DEF store, run, history, SkippedListed
  <1>1. CASE UNCHANGED vars
    BY <1>1 DEF vars
  <1>2. ASSUME NEW v \in Worktrees, NEW p \in Paths, Edit(v, p) PROVE SkippedListed'
    BY <1>2 DEF Edit
  <1>3. ASSUME NEW r \in Runners, NEW v \in Worktrees, StartIndex(r, v) \/ StartUnlock(r, v) PROVE SkippedListed'
    BY <1>3 DEF StartIndex, StartUnlock, Begin
  <1>4. ASSUME NEW r \in Runners, NEW p \in Paths, FileStep(r, p) PROVE SkippedListed'
    BY <1>4, FileKeeps
  <1>5. ASSUME NEW r \in Runners, FilesDone(r) \/ SetManifest(r) \/ PruneVersions(r) \/ Stop(r) PROVE SkippedListed'
    BY <1>5 DEF FilesDone, SetManifest, PruneVersions, Stop
  <1>6. ASSUME NEW r \in Runners, Finish(r) PROVE SkippedListed'
    <2>1. skipped \subseteq Of(wt[r])
      <3>1. skipped \subseteq Worktrees \X Paths /\ wt[r] \in Worktrees
        BY DEF IndexInv, TypeOK
      <3>2. wt[r] = w
        BY <3>1
      <3>3. QED
        BY <3>1, <3>2 DEF Of
    <2>2. CASE mode[r] = "unlock"
      BY <1>6, <2>2 DEF Finish, Pending
    <2>3. CASE mode[r] # "unlock"
      BY <1>6, <2>1, <2>3 DEF Finish, Pending
    <2>4. QED
      BY <2>2, <2>3
  <1>7. QED
    BY <1>1, <1>2, <1>3, <1>4, <1>5, <1>6 DEF Next, RunStep

\* In a project with one worktree the pending list never misses a file the last
\* run skipped for want of a password, even while runs go on.  (With two it does:
\* the list is the project's and every run replaces it, commands.go:132.)
THEOREM SkippedIsPending == (\E w : Worktrees = {w}) /\ Spec => []PendingKnowsSkipped
  <1> SUFFICES ASSUME NEW w, Worktrees = {w} PROVE Spec => []PendingKnowsSkipped
    OBVIOUS
  <1>1. Init => SkippedListed
    BY DEF Init, SkippedListed
  <1>2. SkippedListed => PendingKnowsSkipped
    BY DEF SkippedListed, PendingKnowsSkipped
  <1>3. IndexInv /\ SkippedListed /\ [Next]_vars => SkippedListed'
    BY SkippedNext
  <1>4. QED
    BY <1>1, <1>2, <1>3, IndexInvInit, IndexInvNext, PTL DEF Spec

------------------------------------------------------------------------------
(* Runs one after the other.  As long as one run is over before the next   *)
(* begins, a text is one batch, no blank file is pruned for in the middle  *)
(* of a run and no version that is up to date is stored again.             *)

Sequential ==
  /\ \E r : Runners = {r}
  /\ NChunks <= BatchSize
  /\ Blank \notin Specials
  /\ ~AllowRework

\* The version is stored and its chunks are where they belong.
Has(v) == v \in files /\ \A i \in Index : chunks[v][i] = i + 1

Fresh(t) == t.next = 1 /\ t.created = 0

(* A task that stores a version works on one that no manifest shows, holds  *)
(* its row, and has inserted nothing or all of it.                         *)
TaskFits(r, p) ==
  LET t == task[r][p] IN
  /\ t.st \notin {"unlist", "sweep"}
  /\ t.st \in {"check", "upsert", "clear"} => Fresh(t)
  /\ t.st \in Holding \ {"check"} => \A w \in Worktrees : manifest[w][p] # t.ver
  /\ t.st \in Holding \ {"check", "upsert"} => t.live /\ <<p, t.ver>> \in files
  /\ t.st = "insert" => Fresh(t) \/ (t.next = NChunks + 1 /\ (t.created = 0 \/ Has(<<p, t.ver>>)))

(* All versions of a path have no chunks or all of them, those in manifests *)
(* have them, and so do those the run has collected.                       *)
PathInv(r, p) ==
  /\ TaskFits(r, p)
  /\ \A x \in Versions : chunks[<<p, x>>] = NoChunks \/ Has(<<p, x>>)
  /\ \A w \in Worktrees : manifest[w][p] # NoVersion => Has(<<p, manifest[w][p]>>)
  /\ phase[r] \in {"files", "manifest"} /\ units[r][p] # NoVersion
       => task[r][p].st = "done" /\ Has(<<p, units[r][p]>>)

SeqInv == IndexInv /\ \A r \in Runners : mode[r] # "force" /\ \A p \in Paths : PathInv(r, p)

(* A file of a run that goes well and whose worktree nobody edits: its edges *)
(* are those of its content, and so is the unit it ends with.              *)
EdgesFit(r, p) ==
  LET t == task[r][p]
      c == disk[wt[r]][p] IN
  \/ c \notin Texts
  \/ t.st = "todo"
  \/ /\ t.st \in {"check", "upsert", "clear", "insert", "done"} /\ t.ver = c /\ deps[p] = c
     /\ t.st = "done" => units[r][p] = c
     /\ t.st = "insert" => t.next = t.created + 1

EdgesRight(w) == \A p \in Paths : disk[w][p] \in Texts => deps[p] = disk[w][p]

DepsInv ==
  \A r \in Runners :
    /\ phase[r] # "idle" /\ mode[r] = "unlock" => wt[r] \notin current
    /\ phase[r] \in {"files", "manifest"} /\ mode[r] # "unlock" /\ ~failed[r] /\ ~unseen[r]
         => \A p \in Paths : EdgesFit(r, p)
    /\ phase[r] \in {"idle", "prune", "finish"} /\ stops = 0 /\ wt[r] \in current => EdgesRight(wt[r])
    /\ phase[r] = "prune" /\ wt[r] \in current
         => \A p \in Paths : disk[wt[r]][p] \in Texts => manifest[wt[r]][p] = disk[wt[r]][p]

LEMMA FirstIndex == 0 \in Index /\ Index \subseteq Nat /\ \A c \in 1 .. NChunks : c - 1 \in Index /\ (c - 1) + 1 = c
  BY NChunksAssumption DEF Index

LEMMA HasIsWhole ==
  ASSUME NEW v, Has(v)
  PROVE  Whole(v) /\ UpToDate(v) /\ chunks[v] # NoChunks
  <1>1. Whole(v)
    BY FirstIndex DEF Has, Whole
  <1>2. chunks[v][0] = 1 /\ NoChunks[0] = 0
    BY FirstIndex DEF Has, NoChunks
  <1>3. QED
    BY <1>1, <1>2, FirstIndex DEF UpToDate, Has

\* A task at work belongs to a run in its first phase, which has no unit for it yet.
LEMMA AtWork ==
  ASSUME SeqInv, NEW r \in Runners, NEW p \in Paths, FileStep(r, p)
  PROVE  /\ IndexInv /\ PathInv(r, p) /\ ValidTask(task[r][p]) /\ task[r][p] \in Tasks
         /\ task[r][p].st \in Working \ {"unlist", "sweep"}
         /\ phase[r] = "files" /\ phase' = phase /\ units[r][p] = NoVersion
         /\ ~Unlist(r, p) /\ ~Sweep(r, p)
  <1>1. IndexInv /\ PathInv(r, p) /\ ValidTask(task[r][p])
    BY DEF SeqInv, IndexInv, TasksValid
  <1>2. task[r][p].st \in Working /\ task[r][p].st # "done"
    BY <1>1, FileAdvances DEF Advances, TaskWays, Working, Holding
  <1>3. task[r][p].st \notin {"unlist", "sweep"}
    BY <1>1 DEF PathInv, TaskFits
  <1>4. phase[r] = "files" /\ phase' = phase
    BY <1>1, <1>2, FileKeeps DEF IndexInv, PhasesFit
  <1>5. units[r][p] = NoVersion
    BY <1>1, <1>2, <1>4 DEF PathInv
  <1>6. ~Unlist(r, p) /\ ~Sweep(r, p)
    BY <1>3 DEF Unlist, Sweep
  <1>7. QED
    BY <1>1, <1>2, <1>3, <1>4, <1>5, <1>6 DEF ValidTask

\* What a step on a file does is about its path only.
Local(r, p) ==
  /\ manifest' = manifest /\ phase' = phase /\ mode' = mode
  /\ \A q \in Paths, x \in Versions : q # p =>
       (<<q, x>> \in files' <=> <<q, x>> \in files) /\ chunks'[<<q, x>>] = chunks[<<q, x>>]
  /\ \A q \in Paths : q # p => task'[r][q] = task[r][q] /\ units'[r][q] = units[r][q]

LEMMA FileLocal ==
  ASSUME SeqInv, NEW r \in Runners, NEW p \in Paths, FileStep(r, p)
  PROVE  Local(r, p)
  <1>1. /\ IndexInv /\ task \in TaskFun /\ task[r][p] \in Tasks /\ task[r][p].st \in Working
        /\ chunks \in [Rows -> Held] /\ units \in [Runners -> [Paths -> Versions \cup {NoVersion}]]
    BY AtWork DEF IndexInv, TypeOK, TaskFun, Held
  <1>2. FileStep(r, p) /\ ~Unlist(r, p) /\ ~Sweep(r, p)
    BY AtWork
  <1>3. manifest' = manifest /\ phase' = phase /\ mode' = mode
    <2>1. manifest' = manifest
      BY <1>2, Zenon DEF FileStep, Open, Check, Upsert, Clear, Insert, Stored, RemoveChunks, RemoveRow, store
    <2>2. QED
      BY <2>1, FileKeeps
  <1>4. \A q \in Paths : q # p => units'[r][q] = units[r][q]
    <2>1. units' = units \/ units' = [units EXCEPT ![r][p] = task[r][p].ver]
      BY <1>2, Zenon DEF FileStep, Open, OpenText, Check, Upsert, Clear, Insert, Stored, RemoveChunks, RemoveRow, Fails,
         Keep, run
    <2>2. QED
      BY <1>1, <2>1
  <1>5. \A q \in Paths, x \in Versions : q # p =>
          (<<q, x>> \in files' <=> <<q, x>> \in files) /\ chunks'[<<q, x>>] = chunks[<<q, x>>]
    <2>1. \/ UNCHANGED <<files, chunks>>
          \/ files' = files \cup {<<p, task[r][p].ver>>} /\ chunks' = chunks
          \/ files' = files /\ \E row : chunks' = [chunks EXCEPT ![<<p, task[r][p].ver>>] = row]
          \/ \E gone \in SUBSET {<<p, task[r][p].ver>>} : DropRows(gone)
      <3>1. CASE Open(r, p) \/ Check(r, p) \/ Stored(r, p)
        BY <3>1, Zenon DEF Open, Check, Stored, store
      <3>2. CASE Upsert(r, p)
        BY <3>2 DEF Upsert
      <3>3. CASE Clear(r, p) \/ RemoveChunks(r, p) \/ Insert(r, p)
        BY <3>3, Zenon DEF Clear, RemoveChunks, Insert
      <3>4. CASE RemoveRow(r, p)
        <4>1. UNCHANGED <<files, chunks>> \/ DropRows(IF task[r][p].live THEN {<<p, task[r][p].ver>>} ELSE {})
          BY <3>4, Zenon DEF RemoveRow
        <4>2. QED
          BY <4>1
      <3>5. QED
        BY <1>2, <3>1, <3>2, <3>3, <3>4 DEF FileStep
    <2>2. \A q \in Paths, x \in Versions : q # p => <<q, x>> # <<p, task[r][p].ver>> /\ <<q, x>> \in Rows
      BY DEF Rows
    <2>3. CASE \E gone \in SUBSET {<<p, task[r][p].ver>>} : DropRows(gone)
      <3>1. PICK gone \in SUBSET {<<p, task[r][p].ver>>} : DropRows(gone)
        BY <2>3
      <3>2. /\ files' = files \ gone
            /\ chunks' = [v \in Rows |-> IF v \in gone THEN NoChunks ELSE chunks[v]]
        BY <3>1 DEF DropRows
      <3>3. \A q \in Paths, x \in Versions : q # p => <<q, x>> \notin gone /\ <<q, x>> \in Rows
        BY <2>2
      <3>4. QED
        BY <3>2, <3>3
    <2>4. CASE files' = files /\ \E row : chunks' = [chunks EXCEPT ![<<p, task[r][p].ver>>] = row]
      BY <1>1, <2>2, <2>4
    <2>5. QED
      BY <2>1, <2>2, <2>3, <2>4
  <1>6. \A q \in Paths : q # p => task'[r][q] = task[r][q]
    <2>1. CASE RemoveRow(r, p)
      <3>1. CASE Goto(r, p, "done")
        BY <1>1, <3>1 DEF Goto, TaskFun
      <3>2. CASE \E gone \in SUBSET {<<p, task[r][p].ver>>} : task' = Orphan(gone, [task EXCEPT ![r][p].st = "done"])
        <4>1. PICK gone \in SUBSET {<<p, task[r][p].ver>>} : task' = Orphan(gone, [task EXCEPT ![r][p].st = "done"])
          BY <3>2
        <4> DEFINE mid == [task EXCEPT ![r][p].st = "done"]
        <4>2. \A q \in Paths : q # p => mid[r][q] = task[r][q]
          BY <1>1 DEF TaskFun
        <4>3. \A q \in Paths : q # p => <<q, mid[r][q].ver>> \notin gone
          OBVIOUS
        <4>4. \A q \in Paths : task'[r][q] = IF <<q, mid[r][q].ver>> \in gone THEN [mid[r][q] EXCEPT !.live = FALSE]
                                                                              ELSE mid[r][q]
          BY <4>1 DEF Orphan
        <4> HIDE DEF mid
        <4>5. QED
          BY <4>2, <4>3, <4>4
      <3>3. Goto(r, p, "done") \/ task' = Orphan(IF task[r][p].live THEN {<<p, task[r][p].ver>>} ELSE {},
                                                [task EXCEPT ![r][p].st = "done"])
        BY <2>1, Zenon DEF RemoveRow
      <3>4. (IF task[r][p].live THEN {<<p, task[r][p].ver>>} ELSE {}) \in SUBSET {<<p, task[r][p].ver>>}
        OBVIOUS
      <3>5. QED
        BY <3>1, <3>2, <3>3, <3>4
    <2>2. CASE ~RemoveRow(r, p)
      <3>1. \E f : task' = [task EXCEPT ![r] = [task[r] EXCEPT ![p] = f]]
        <4>1. CASE Open(r, p) \/ Check(r, p) \/ Clear(r, p) \/ Stored(r, p) \/ RemoveChunks(r, p)
          BY <4>1, Zenon DEF Open, OpenText, Check, Clear, Stored, RemoveChunks, Fails, Keep, Goto
        <4>2. CASE Upsert(r, p)
          <5>1. \/ task' = [task EXCEPT ![r][p].st = "clear", ![r][p].live = TRUE]
                \/ Goto(r, p, "error")
            BY <4>2 DEF Upsert, Fails
          <5>2. CASE task' = [task EXCEPT ![r][p].st = "clear", ![r][p].live = TRUE]
            <6>1. task' = [task EXCEPT ![r] = [task[r] EXCEPT ![p] = [task[r][p] EXCEPT !.st = "clear", !.live = TRUE]]]
              BY <1>1, <5>2 DEF TaskFun
            <6>2. QED
              BY <6>1
          <5>3. QED
            BY <5>1, <5>2 DEF Goto
        <4>3. CASE Insert(r, p)
          <5>1. \E n, c : \/ task' = [task EXCEPT ![r][p].next = n, ![r][p].created = c]
                          \/ task' = [task EXCEPT ![r][p].next = n]
            BY <4>3, Zenon DEF Insert
          <5>2. ASSUME NEW n, NEW c, task' = [task EXCEPT ![r][p].next = n, ![r][p].created = c]
                PROVE  task' = [task EXCEPT ![r] = [task[r] EXCEPT ![p] = [task[r][p] EXCEPT !.next = n, !.created = c]]]
            BY <1>1, <5>2 DEF TaskFun
          <5>3. QED
            BY <5>1, <5>2
        <4>4. QED
          BY <1>2, <2>2, <4>1, <4>2, <4>3 DEF FileStep
      <3>2. QED
        BY <1>1, <3>1 DEF TaskFun
    <2>3. QED
      BY <2>1, <2>2
  <1>7. QED
    BY <1>3, <1>4, <1>5, <1>6 DEF Local

\* So the other files of the run are as they were.
LEMMA OtherPaths ==
  ASSUME SeqInv, NEW r \in Runners, NEW p \in Paths, FileStep(r, p), NEW q \in Paths, q # p
  PROVE  PathInv(r, q)'
  <1>1. /\ IndexInv /\ PathInv(r, q) /\ Local(r, p)
        /\ manifest \in [Worktrees -> [Paths -> Versions \cup {NoVersion}]]
        /\ units \in [Runners -> [Paths -> Versions \cup {NoVersion}]]
    BY FileLocal DEF SeqInv, IndexInv, TypeOK
  <1>2. \A x \in Versions : Has(<<q, x>>)' <=> Has(<<q, x>>)
    BY <1>1 DEF Local, Has
  <1>3. ValidTask(task[r][q])
    BY <1>1 DEF IndexInv, TasksValid
  <1>4. TaskFits(r, q)'
    <2>1. task'[r][q] = task[r][q] /\ manifest' = manifest
      BY <1>1 DEF Local
    <2>2. task[r][q].st \in Holding => /\ task[r][q].ver \in Versions
                                       /\ <<q, task[r][q].ver>> \in files' <=> <<q, task[r][q].ver>> \in files
                                       /\ Has(<<q, task[r][q].ver>>) => Has(<<q, task[r][q].ver>>)'
      BY <1>1, <1>2, <1>3 DEF ValidTask, Local
    <2>3. QED
      BY <1>1, <2>1, <2>2 DEF PathInv, TaskFits, Holding
  <1>5. \A x \in Versions : chunks'[<<q, x>>] = NoChunks \/ Has(<<q, x>>)'
    BY <1>1, <1>2 DEF PathInv, Local
  <1>6. \A w \in Worktrees : manifest'[w][q] # NoVersion => Has(<<q, manifest[w][q]>>)'
    BY <1>1, <1>2 DEF PathInv, Local
  <1>7. ASSUME phase'[r] \in {"files", "manifest"}, units'[r][q] # NoVersion
        PROVE  task'[r][q].st = "done" /\ Has(<<q, units[r][q]>>)'
    <2>1. phase' = phase /\ units'[r][q] = units[r][q] /\ task'[r][q] = task[r][q]
      BY <1>1 DEF Local
    <2>2. units[r][q] # NoVersion /\ phase[r] \in {"files", "manifest"}
      BY <1>7, <2>1
    <2>3. task[r][q].st = "done" /\ Has(<<q, units[r][q]>>)
      BY <1>1, <2>2, Zenon DEF PathInv
    <2>4. units[r][q] \in Versions
      BY <1>1, <2>2
    <2>5. Has(<<q, units[r][q]>>)'
      <3>1. PICK x \in Versions : x = units[r][q]
        BY <2>4
      <3>2. Has(<<q, x>>)'
        BY <1>2, <2>3, <3>1
      <3>3. QED
        BY <2>1, <3>1, <3>2
    <2>6. QED
      BY <2>1, <2>3, <2>5
  <1>8. QED
    BY <1>4, <1>5, <1>6, <1>7 DEF PathInv

\* A task that stores its version changes the rows of that version alone.
LEMMA OwnRows ==
  ASSUME SeqInv, NEW r \in Runners, NEW p \in Paths, FileStep(r, p), units' = units,
         NEW v \in Versions, \A w \in Worktrees : manifest[w][p] # v,
         \A x \in Versions : x # v => (<<p, x>> \in files' <=> <<p, x>> \in files) /\ chunks'[<<p, x>>] = chunks[<<p, x>>],
         chunks'[<<p, v>>] = NoChunks \/ Has(<<p, v>>)',
         TaskFits(r, p)'
  PROVE  PathInv(r, p)'
  <1>1. /\ PathInv(r, p) /\ units[r][p] = NoVersion /\ manifest' = manifest
        /\ manifest \in [Worktrees -> [Paths -> Versions \cup {NoVersion}]]
    BY AtWork, FileLocal DEF Local, SeqInv, IndexInv, TypeOK
  <1>2. \A x \in Versions : x # v => (Has(<<p, x>>)' <=> Has(<<p, x>>))
    BY DEF Has
  <1>3. \A x \in Versions : chunks'[<<p, x>>] = NoChunks \/ Has(<<p, x>>)'
    BY <1>1, <1>2 DEF PathInv
  <1>4. \A w \in Worktrees : manifest'[w][p] # NoVersion => Has(<<p, manifest[w][p]>>)'
    <2>1. ASSUME NEW w \in Worktrees, NEW x, x = manifest[w][p], x # NoVersion PROVE Has(<<p, x>>)'
      <3>1. x \in Versions /\ x # v /\ Has(<<p, x>>)
        BY <1>1, <2>1 DEF PathInv
      <3>2. QED
        BY <1>2, <3>1
    <2>2. QED
      BY <1>1, <2>1
  <1>5. QED
    BY <1>1, <1>3, <1>4 DEF PathInv

\* A step that changes no row.
LEMMA OwnTask ==
  ASSUME SeqInv, NEW r \in Runners, NEW p \in Paths, FileStep(r, p), UNCHANGED <<files, chunks, units>>, TaskFits(r, p)'
  PROVE  PathInv(r, p)'
  <1>1. PathInv(r, p) /\ units[r][p] = NoVersion /\ manifest' = manifest
    BY AtWork, FileLocal DEF Local
  <1>2. \A v : Has(v)' <=> Has(v)
    BY DEF Has
  <1>3. \A w \in Worktrees : manifest'[w][p] # NoVersion => Has(<<p, manifest[w][p]>>)'
    BY <1>1, <1>2 DEF PathInv
  <1>4. QED
    BY <1>1, <1>2, <1>3 DEF PathInv

\* A version that is kept has its chunks.
LEMMA OwnUnit ==
  ASSUME SeqInv, NEW r \in Runners, NEW p \in Paths, FileStep(r, p), UNCHANGED <<files, chunks>>, Keep(r, p),
         Has(<<p, task[r][p].ver>>)
  PROVE  PathInv(r, p)'
  <1>1. /\ PathInv(r, p) /\ manifest' = manifest /\ task \in TaskFun /\ task[r][p] \in Tasks
        /\ units \in [Runners -> [Paths -> Versions \cup {NoVersion}]]
    BY AtWork, FileLocal DEF Local, SeqInv, IndexInv, TypeOK, TaskFun
  <1>2. \A v : Has(v)' <=> Has(v)
    BY DEF Has
  <1>3. task'[r][p].st = "done" /\ units'[r][p] = task[r][p].ver
    <2>1. Becomes(r, p, [task[r][p] EXCEPT !.st = "done"])
      BY <1>1, GotoTask DEF Keep, TaskSteps
    <2>2. QED
      BY <1>1, <2>1 DEF Becomes, Tasks, Keep
  <1>4. TaskFits(r, p)'
    BY <1>3 DEF TaskFits, Holding
  <1>5. \A w \in Worktrees : manifest'[w][p] # NoVersion => Has(<<p, manifest[w][p]>>)'
    BY <1>1, <1>2 DEF PathInv
  <1>6. QED
    BY <1>1, <1>2, <1>3, <1>4, <1>5 DEF PathInv

LEMMA OwnOpen ==
  ASSUME SeqInv, Sequential, NEW r \in Runners, NEW p \in Paths, Open(r, p)
  PROVE  PathInv(r, p)'
  <1>1. task \in TaskFun /\ disk[wt[r]][p] \in Contents /\ FileStep(r, p)
    BY DEF SeqInv, IndexInv, TypeOK, TaskFun, FileStep, Open
  <1>2. disk[wt[r]][p] # Blank
    BY <1>1, NamesAssumption DEF Contents, Versions, Sequential
  <1>3. UNCHANGED <<files, chunks, units>>
    BY DEF Open, OpenText, Fails, run
  <1>4. \/ \E v \in Versions : OpenText(r, p, v)
        \/ \E step \in {"locked", "error"} : Goto(r, p, step)
    BY <1>2 DEF Open, Fails, Versions
  <1>5. TaskFits(r, p)'
    <2>1. ASSUME NEW v \in Versions, OpenText(r, p, v) PROVE TaskFits(r, p)'
      <3> DEFINE t == [NoTask EXCEPT !.st = "check", !.ver = v]
      <3>1. t \in Tasks /\ t.st = "check" /\ Fresh(t)
        <4>1. NoTask \in Tasks /\ NoTask.next = 1 /\ NoTask.created = 0
          BY NextTypes DEF NoTask
        <4>2. t \in Tasks /\ t.st = "check" /\ t.next = NoTask.next /\ t.created = NoTask.created
          BY <4>1 DEF Tasks, TaskSteps
        <4>3. QED
          BY <4>1, <4>2 DEF Fresh
      <3>2. task' = [task EXCEPT ![r][p] = t]
        BY <2>1 DEF OpenText
      <3> HIDE DEF t
      <3>3. task'[r][p] = t
        <4>1. t \in Tasks /\ task \in TaskFun
          BY <1>1, <3>1
        <4>2. Becomes(r, p, t)
          BY <4>1, <3>2, SetTask
        <4>3. QED
          BY <4>2 DEF Becomes
      <3>4. task'[r][p].st = "check" /\ task'[r][p].next = 1 /\ task'[r][p].created = 0
        BY <3>1, <3>3 DEF Fresh
      <3>5. QED
        BY <3>4 DEF TaskFits, Holding, Fresh
    <2>2. ASSUME NEW step \in {"locked", "error"}, Goto(r, p, step) PROVE TaskFits(r, p)'
      <3>1. task'[r][p].st = step
        BY <1>1, <2>2 DEF Goto, TaskFun, Tasks
      <3>2. QED
        BY <3>1 DEF TaskFits, Holding
    <2>3. QED
      BY <1>4, <2>1, <2>2
  <1>6. QED
    BY <1>1, <1>3, <1>5, OwnTask

\* What Goto leaves of a task.
LEMMA GotoOnly ==
  ASSUME task \in TaskFun, NEW r \in Runners, NEW p \in Paths, NEW step \in TaskSteps, Goto(r, p, step)
  PROVE  /\ task'[r][p].st = step /\ task'[r][p].ver = task[r][p].ver /\ task'[r][p].live = task[r][p].live
         /\ task'[r][p].next = task[r][p].next /\ task'[r][p].created = task[r][p].created
  <1>1. task[r][p] \in Tasks
    BY DEF TaskFun
  <1>2. Becomes(r, p, [task[r][p] EXCEPT !.st = step])
    BY GotoTask
  <1>3. QED
    BY <1>1, <1>2 DEF Becomes, Tasks

LEMMA OwnCheck ==
  ASSUME SeqInv, Sequential, NEW r \in Runners, NEW p \in Paths, Check(r, p)
  PROVE  PathInv(r, p)'
  <1>1. /\ task \in TaskFun /\ task[r][p].st = "check" /\ FileStep(r, p) /\ PathInv(r, p) /\ ValidTask(task[r][p])
        /\ mode[r] # "force" /\ manifest' = manifest
    BY AtWork, FileLocal DEF SeqInv, IndexInv, TypeOK, TaskFun, FileStep, Check, Local
  <1>2. UNCHANGED <<files, chunks>>
    BY DEF Check, store
  <1>3. task[r][p].ver \in Versions
    BY <1>1 DEF ValidTask, Holding
  <1>4. CASE UpToDate(<<p, task[r][p].ver>>)
    <2>1. Keep(r, p)
      BY <1>1, <1>4 DEF Check, Sequential
    <2>2. chunks[<<p, task[r][p].ver>>] # NoChunks
      BY <1>4 DEF UpToDate, NoChunks
    <2>3. Has(<<p, task[r][p].ver>>)
      BY <1>1, <1>3, <2>2 DEF PathInv
    <2>4. QED
      BY <1>1, <1>2, <2>1, <2>3, OwnUnit
  <1>5. CASE ~UpToDate(<<p, task[r][p].ver>>)
    <2>1. Goto(r, p, "upsert") /\ UNCHANGED units
      BY <1>1, <1>5 DEF Check, Sequential, run
    <2>2. /\ task'[r][p].st = "upsert" /\ task'[r][p].ver = task[r][p].ver
          /\ task'[r][p].next = task[r][p].next /\ task'[r][p].created = task[r][p].created
      BY <1>1, <2>1, GotoOnly DEF TaskSteps
    <2>3. ASSUME NEW w \in Worktrees, manifest[w][p] = task[r][p].ver PROVE FALSE
      <3>1. Has(<<p, task[r][p].ver>>)
        BY <1>1, <1>3, <2>3, NamesAssumption DEF PathInv
      <3>2. QED
        BY <1>5, <3>1, HasIsWhole
    <2>4. Fresh(task[r][p])
      BY <1>1 DEF PathInv, TaskFits
    <2>5. TaskFits(r, p)'
      BY <1>1, <2>2, <2>3, <2>4 DEF TaskFits, Fresh, Holding
    <2>6. QED
      BY <1>1, <1>2, <2>1, <2>5, OwnTask
  <1>6. QED
    BY <1>4, <1>5

\* What a task that stores a version knows of it.
LEMMA AtStore ==
  ASSUME SeqInv, NEW r \in Runners, NEW p \in Paths, FileStep(r, p), NEW v, v = task[r][p].ver,
         task[r][p].st \in Holding \ {"check"}
  PROVE  /\ task \in TaskFun /\ task[r][p] \in Tasks /\ v \in Versions /\ <<p, v>> \in Rows
         /\ chunks \in [Rows -> Held] /\ manifest' = manifest
         /\ \A w \in Worktrees : manifest[w][p] # v
         /\ chunks[<<p, v>>] = NoChunks \/ Has(<<p, v>>)
         /\ \A x \in Versions : x # v => <<p, x>> # <<p, v>> /\ <<p, x>> \in Rows
         /\ task[r][p].st # "upsert" => task[r][p].live /\ <<p, v>> \in files
         /\ task[r][p].st \in {"upsert", "clear"} => Fresh(task[r][p])
         /\ task[r][p].st = "insert" => \/ Fresh(task[r][p])
                                        \/ task[r][p].next = NChunks + 1 /\ (task[r][p].created = 0 \/ Has(<<p, v>>))
  <1>1. /\ task \in TaskFun /\ chunks \in [Rows -> Held] /\ PathInv(r, p) /\ ValidTask(task[r][p])
        /\ manifest' = manifest
    BY AtWork, FileLocal DEF SeqInv, IndexInv, TypeOK, TaskFun, Held, Local
  <1>2. v \in Versions /\ task[r][p] \in Tasks
    BY <1>1 DEF ValidTask
  <1>3. QED
    BY <1>1, <1>2 DEF PathInv, TaskFits, Rows

LEMMA OwnUpsert ==
  ASSUME SeqInv, NEW r \in Runners, NEW p \in Paths, Upsert(r, p)
  PROVE  PathInv(r, p)'
  <1>1. PICK v : v = task[r][p].ver
    OBVIOUS
  <1>2. FileStep(r, p) /\ task[r][p].st = "upsert"
    BY DEF FileStep, Upsert
  <1>3. /\ task \in TaskFun /\ task[r][p] \in Tasks /\ v \in Versions /\ manifest' = manifest
        /\ \A w \in Worktrees : manifest[w][p] # v
        /\ chunks[<<p, v>>] = NoChunks \/ Has(<<p, v>>)
        /\ \A x \in Versions : x # v => <<p, x>> # <<p, v>>
        /\ Fresh(task[r][p])
    BY <1>2, <1>1, AtStore DEF Holding
  <1>4. CASE files' = files \cup {<<p, task[r][p].ver>>} /\ task' = [task EXCEPT ![r][p].st = "clear", ![r][p].live = TRUE]
             /\ UNCHANGED <<run, errs>>
    <2>1. task'[r][p].st = "clear" /\ task'[r][p].live /\ task'[r][p].ver = v
          /\ task'[r][p].next = task[r][p].next /\ task'[r][p].created = task[r][p].created
      <3> DEFINE t == [task[r][p] EXCEPT !.st = "clear", !.live = TRUE]
      <3>1. /\ t \in Tasks /\ t.st = "clear" /\ t.live /\ t.ver = v
            /\ t.next = task[r][p].next /\ t.created = task[r][p].created
        BY <1>3, <1>1 DEF Tasks, TaskSteps
      <3>2. task' = [task EXCEPT ![r][p] = t]
        BY <1>3, <1>4 DEF TaskFun
      <3> HIDE DEF t
      <3>3. Becomes(r, p, t)
        BY <1>3, <3>1, <3>2, SetTask
      <3>4. QED
        BY <3>1, <3>3 DEF Becomes
    <2>2. chunks' = chunks /\ units' = units /\ files' = files \cup {<<p, v>>}
      BY <1>4, <1>1 DEF Upsert, run
    <2>3. TaskFits(r, p)'
      BY <1>3, <2>1, <2>2 DEF TaskFits, Holding, Fresh
    <2>4. chunks'[<<p, v>>] = NoChunks \/ Has(<<p, v>>)'
      BY <1>3, <2>2 DEF Has
    <2>5. \A x \in Versions : x # v => (<<p, x>> \in files' <=> <<p, x>> \in files) /\ chunks'[<<p, x>>] = chunks[<<p, x>>]
      BY <1>3, <2>2
    <2>6. QED
      BY <1>2, <1>3, <2>2, <2>3, <2>4, <2>5, OwnRows
  <1>5. CASE Fails(r, p) /\ UNCHANGED files
    <2>1. Goto(r, p, "error") /\ UNCHANGED <<files, chunks, units>>
      BY <1>5 DEF Upsert, Fails
    <2>2. task'[r][p].st = "error"
      BY <1>3, <2>1, GotoOnly DEF TaskSteps
    <2>3. TaskFits(r, p)'
      BY <2>2 DEF TaskFits, Holding
    <2>4. QED
      BY <1>2, <2>1, <2>3, OwnTask
  <1>6. QED
    BY <1>4, <1>5 DEF Upsert

\* Chunks that are removed: the version has none left.
LEMMA Emptied ==
  ASSUME SeqInv, NEW r \in Runners, NEW p \in Paths, FileStep(r, p), NEW v, v = task[r][p].ver,
         task[r][p].st \in Holding \ {"check", "upsert"}, units' = units, files' = files,
         chunks' = [chunks EXCEPT ![<<p, v>>] = NoChunks], TaskFits(r, p)'
  PROVE  PathInv(r, p)'
  <1>1. /\ v \in Versions /\ <<p, v>> \in Rows /\ chunks \in [Rows -> Held]
        /\ \A w \in Worktrees : manifest[w][p] # v
        /\ \A x \in Versions : x # v => <<p, x>> # <<p, v>> /\ <<p, x>> \in Rows
    BY AtStore
  <1>2. chunks'[<<p, v>>] = NoChunks /\ \A x \in Versions : x # v => chunks'[<<p, x>>] = chunks[<<p, x>>]
    BY <1>1
  <1>3. QED
    BY <1>1, <1>2, OwnRows

LEMMA OwnClear ==
  ASSUME SeqInv, NEW r \in Runners, NEW p \in Paths, Clear(r, p)
  PROVE  PathInv(r, p)'
  <1> DEFINE v == task[r][p].ver
  <1>1. FileStep(r, p) /\ task[r][p].st = "clear"
    BY DEF FileStep, Clear
  <1>2. /\ task \in TaskFun /\ task[r][p].live /\ <<p, v>> \in files /\ manifest' = manifest
        /\ \A w \in Worktrees : manifest[w][p] # v
        /\ Fresh(task[r][p])
    BY <1>1, AtStore DEF Holding
  <1>3. CASE chunks' = [chunks EXCEPT ![<<p, v>>] = NoChunks] /\ Goto(r, p, "insert") /\ UNCHANGED run
    <2>1. files' = files /\ units' = units
      BY <1>3 DEF Clear, run
    <2>2. task'[r][p].st = "insert" /\ task'[r][p].live /\ task'[r][p].ver = v
          /\ task'[r][p].next = task[r][p].next /\ task'[r][p].created = task[r][p].created
      BY <1>2, <1>3, GotoOnly DEF TaskSteps
    <2>3. TaskFits(r, p)'
      BY <1>2, <2>1, <2>2 DEF TaskFits, Holding, Fresh
    <2>4. QED
      BY <1>1, <1>3, <2>1, <2>3, Emptied DEF Holding
  <1>4. CASE Fails(r, p) /\ UNCHANGED chunks
    <2>1. Goto(r, p, "error") /\ UNCHANGED <<files, chunks, units>>
      BY <1>4 DEF Clear, Fails
    <2>2. task'[r][p].st = "error"
      BY <1>2, <2>1, GotoOnly DEF TaskSteps
    <2>3. TaskFits(r, p)'
      BY <2>2 DEF TaskFits, Holding
    <2>4. QED
      BY <1>1, <2>1, <2>3, OwnTask
  <1>5. QED
    BY <1>2, <1>3, <1>4 DEF Clear

LEMMA OwnRemoveChunks ==
  ASSUME SeqInv, NEW r \in Runners, NEW p \in Paths, RemoveChunks(r, p)
  PROVE  PathInv(r, p)'
  <1> DEFINE v == task[r][p].ver
  <1>1. FileStep(r, p) /\ task[r][p].st = "unchunk"
    BY DEF FileStep, RemoveChunks
  <1>2. /\ task \in TaskFun /\ task[r][p].live /\ <<p, v>> \in files /\ manifest' = manifest
        /\ \A w \in Worktrees : manifest[w][p] # v
    BY <1>1, AtStore DEF Holding
  <1>3. Goto(r, p, "unfile") /\ files' = files /\ units' = units
    BY DEF RemoveChunks, run
  <1>4. task'[r][p].st = "unfile" /\ task'[r][p].live /\ task'[r][p].ver = v
    BY <1>2, <1>3, GotoOnly DEF TaskSteps
  <1>5. TaskFits(r, p)'
    BY <1>2, <1>3, <1>4 DEF TaskFits, Holding
  <1>6. CASE chunks' = [chunks EXCEPT ![<<p, v>>] = NoChunks]
    BY <1>1, <1>3, <1>5, <1>6, Emptied DEF Holding
  <1>7. CASE chunks' = chunks
    BY <1>1, <1>3, <1>5, <1>7, OwnTask
  <1>8. QED
    BY <1>2, <1>6, <1>7 DEF RemoveChunks

\* A text is one batch: the first one inserts every chunk where it belongs.
LEMMA OneBatch ==
  ASSUME Sequential, NEW t \in Tasks, NEW row
  PROVE  /\ t.next = 1 => /\ Batch(t) = 1 .. NChunks /\ Cardinality(Batch(t)) = NChunks
                          /\ \A i \in Index : Inserted(row, t)[i] = i + 1
         /\ t.next = NChunks + 1 => Batch(t) = {}
  <1> USE NChunksAssumption, BatchSizeAssumption DEF Sequential
  <1>1. ASSUME t.next = 1
        PROVE  /\ Batch(t) = 1 .. NChunks /\ Cardinality(Batch(t)) = NChunks
               /\ \A i \in Index : Inserted(row, t)[i] = i + 1
    <2>1. Batch(t) = 1 .. NChunks
      BY <1>1 DEF Batch
    <2>2. Cardinality(1 .. NChunks) = NChunks
      BY FS_Interval
    <2>3. \A i \in Index : t.next + i \in Batch(t) /\ t.next + i = i + 1
      BY <1>1, <2>1 DEF Index
    <2>4. QED
      BY <2>1, <2>2, <2>3 DEF Inserted
  <1>2. ASSUME t.next = NChunks + 1 PROVE Batch(t) = {}
    BY <1>2 DEF Batch
  <1>3. QED
    BY <1>1, <1>2

LEMMA OwnInsert ==
  ASSUME SeqInv, Sequential, NEW r \in Runners, NEW p \in Paths, Insert(r, p)
  PROVE  PathInv(r, p)'
  <1>1. PICK v, t : v = task[r][p].ver /\ t = task[r][p]
    OBVIOUS
  <1>2. FileStep(r, p) /\ task[r][p].st = "insert" /\ Batch(t) # {}
    BY <1>1, Zenon DEF FileStep, Insert
  <1>3. /\ task \in TaskFun /\ t \in Tasks /\ v \in Versions /\ manifest' = manifest
        /\ \A w \in Worktrees : manifest[w][p] # v
        /\ <<p, v>> \in Rows /\ chunks \in [Rows -> Held]
        /\ chunks[<<p, v>>] = NoChunks \/ Has(<<p, v>>)
        /\ \A x \in Versions : x # v => <<p, x>> # <<p, v>> /\ <<p, x>> \in Rows
        /\ t.live /\ <<p, v>> \in files
        /\ Fresh(t) \/ t.next = NChunks + 1
    BY <1>1, <1>2, AtStore DEF Holding
  <1>4. t.next = 1 /\ t.created = 0 /\ Cardinality(Batch(t)) = NChunks /\ \A i \in Index : Inserted(chunks[<<p, v>>], t)[i] = i + 1
    BY <1>2, <1>3, OneBatch DEF Fresh
  <1>5. files' = files /\ units' = units
    BY Zenon DEF Insert
  <1>6. t.next + NChunks = NChunks + 1 /\ t.created + NChunks = NChunks
        /\ NChunks + 1 \in 1 .. (NChunks + BatchSize) /\ NChunks \in 0 .. NChunks
    BY <1>4, NChunksAssumption, BatchSizeAssumption
  <1>7. CASE /\ chunks' = [chunks EXCEPT ![<<p, v>>] = Inserted(@, t)]
             /\ task' = [task EXCEPT ![r][p].next = NChunks + 1, ![r][p].created = NChunks]
    <2> DEFINE u == [t EXCEPT !.next = NChunks + 1, !.created = NChunks]
    <2>1. u \in Tasks /\ u.st = "insert" /\ u.ver = v /\ u.live /\ u.next = NChunks + 1
      BY <1>1, <1>2, <1>3, <1>6 DEF Tasks
    <2>2. task' = [task EXCEPT ![r][p] = u]
      BY <1>1, <1>3, <1>7 DEF TaskFun
    <2> HIDE DEF u
    <2>3. task'[r][p] = u
      <3>1. Becomes(r, p, u)
        BY <1>3, <2>1, <2>2, SetTask
      <3>2. QED
        BY <3>1 DEF Becomes
    <2>4. chunks'[<<p, v>>] = Inserted(chunks[<<p, v>>], t)
      BY <1>3, <1>7
    <2>5. Has(<<p, v>>)'
      BY <1>3, <1>4, <1>5, <2>4 DEF Has
    <2>6. TaskFits(r, p)'
      BY <1>3, <1>5, <2>1, <2>3, <2>5 DEF TaskFits, Holding
    <2>7. \A x \in Versions : x # v => chunks'[<<p, x>>] = chunks[<<p, x>>]
      BY <1>3, <1>7
    <2>8. QED
      BY <1>2, <1>3, <1>5, <2>5, <2>6, <2>7, OwnRows
  <1>8. CASE chunks' = chunks /\ task' = [task EXCEPT ![r][p].next = NChunks + 1]
    <2> DEFINE u == [t EXCEPT !.next = NChunks + 1]
    <2>1. u \in Tasks /\ u.st = "insert" /\ u.ver = v /\ u.live /\ u.next = NChunks + 1 /\ u.created = 0
      BY <1>1, <1>2, <1>3, <1>4, <1>6 DEF Tasks
    <2>2. task' = [task EXCEPT ![r][p] = u]
      BY <1>1, <1>3, <1>8 DEF TaskFun
    <2> HIDE DEF u
    <2>3. task'[r][p] = u
      <3>1. Becomes(r, p, u)
        BY <1>3, <2>1, <2>2, SetTask
      <3>2. QED
        BY <3>1 DEF Becomes
    <2>4. TaskFits(r, p)'
      BY <1>3, <1>5, <2>1, <2>3 DEF TaskFits, Holding
    <2>5. QED
      BY <1>2, <1>5, <1>8, <2>4, OwnTask
  <1>9. QED
    <2>1. \/ /\ chunks' = [chunks EXCEPT ![<<p, v>>] = Inserted(@, t)]
             /\ task' = [task EXCEPT ![r][p].next = t.next + Cardinality(Batch(t)),
                                     ![r][p].created = t.created + Cardinality(Batch(t))]
          \/ chunks' = chunks /\ task' = [task EXCEPT ![r][p].next = t.next + Cardinality(Batch(t))]
      BY <1>1, Zenon DEF Insert
    <2>2. QED
      BY <1>4, <1>6, <1>7, <1>8, <2>1

LEMMA OwnStored ==
  ASSUME SeqInv, Sequential, NEW r \in Runners, NEW p \in Paths, Stored(r, p)
  PROVE  PathInv(r, p)'
  <1>1. PICK v, t : v = task[r][p].ver /\ t = task[r][p]
    OBVIOUS
  <1>2. FileStep(r, p) /\ task[r][p].st = "insert" /\ Batch(t) = {} /\ UNCHANGED <<files, chunks>>
    BY <1>1, Zenon DEF FileStep, Stored, store
  <1>3. /\ task \in TaskFun /\ t \in Tasks /\ v \in Versions /\ manifest' = manifest
        /\ \A w \in Worktrees : manifest[w][p] # v
        /\ t.live /\ <<p, v>> \in files
        /\ Fresh(t) \/ (t.next = NChunks + 1 /\ (t.created = 0 \/ Has(<<p, v>>)))
    BY <1>1, <1>2, AtStore DEF Holding
  <1>4. CASE t.created < NChunks
    <2>1. Goto(r, p, "unchunk") /\ units' = units
      BY <1>1, <1>4, Zenon DEF Stored, run
    <2>2. task'[r][p].st = "unchunk" /\ task'[r][p].live /\ task'[r][p].ver = v
      BY <1>1, <1>3, <2>1, GotoOnly DEF TaskSteps
    <2>3. TaskFits(r, p)'
      BY <1>2, <1>3, <2>2 DEF TaskFits, Holding
    <2>4. QED
      BY <1>2, <2>1, <2>3, OwnTask
  <1>5. CASE ~(t.created < NChunks)
    <2>1. Keep(r, p)
      BY <1>1, <1>5, Zenon DEF Stored
    <2>2. t.created # 0
      BY <1>5, NChunksAssumption
    <2>3. Has(<<p, v>>)
      BY <1>3, <2>2 DEF Fresh
    <2>4. QED
      BY <1>1, <1>2, <2>1, <2>3, OwnUnit
  <1>6. QED
    BY <1>4, <1>5

LEMMA OwnRemoveRow ==
  ASSUME SeqInv, NEW r \in Runners, NEW p \in Paths, RemoveRow(r, p)
  PROVE  PathInv(r, p)'
  <1>1. PICK v : v = task[r][p].ver
    OBVIOUS
  <1>2. FileStep(r, p) /\ task[r][p].st = "unfile" /\ units' = units
    BY Zenon DEF FileStep, RemoveRow, run
  <1>3. /\ task \in TaskFun /\ v \in Versions /\ <<p, v>> \in Rows /\ task[r][p].live
        /\ \A w \in Worktrees : manifest[w][p] # v
        /\ \A x \in Versions : x # v => <<p, x>> # <<p, v>> /\ <<p, x>> \in Rows
    BY <1>1, <1>2, AtStore DEF Holding
  <1>4. TaskFits(r, p)'
    <2>1. Advances(r, p)
      BY <1>2, AtWork, FileAdvances
    <2>2. task'[r][p].st = "done"
      BY <1>2, <2>1 DEF Advances, TaskWays
    <2>3. QED
      BY <2>2 DEF TaskFits, Holding
  <1>5. CASE UNCHANGED <<files, chunks>>
    BY <1>2, <1>4, <1>5, OwnTask
  <1>6. CASE DropRows({<<p, v>>})
    <2>1. files' = files \ {<<p, v>>} /\ chunks' = [x \in Rows |-> IF x \in {<<p, v>>} THEN NoChunks ELSE chunks[x]]
      BY <1>6 DEF DropRows
    <2>2. chunks'[<<p, v>>] = NoChunks /\ \A x \in Versions : x # v => chunks'[<<p, x>>] = chunks[<<p, x>>]
      BY <1>3, <2>1
    <2>3. QED
      BY <1>2, <1>3, <1>4, <2>1, <2>2, OwnRows
  <1>7. UNCHANGED <<files, chunks>> \/ DropRows(IF task[r][p].live THEN {<<p, task[r][p].ver>>} ELSE {})
    BY Zenon DEF RemoveRow
  <1>8. QED
    BY <1>1, <1>3, <1>5, <1>6, <1>7

\* A step that leaves the rows and the manifests alone and has no task at work.
LEMMA RestFits ==
  ASSUME SeqInv, NEW r \in Runners, NEW p \in Paths, UNCHANGED <<files, chunks, manifest>>,
         task'[r][p].st \notin Holding \cup {"unlist", "sweep"},
         phase'[r] \in {"files", "manifest"} /\ units'[r][p] # NoVersion
           => task'[r][p].st = "done" /\ Has(<<p, units'[r][p]>>)
  PROVE  PathInv(r, p)'
  <1>1. PathInv(r, p)
    BY DEF SeqInv
  <1>2. TaskFits(r, p)'
    BY DEF TaskFits, Holding
  <1>3. \A v : Has(v)' <=> Has(v)
    BY DEF Has
  <1>4. \A w \in Worktrees : manifest'[w][p] # NoVersion => Has(<<p, manifest[w][p]>>)'
    BY <1>1, <1>3 DEF PathInv
  <1>5. phase'[r] \in {"files", "manifest"} /\ units'[r][p] # NoVersion
          => task'[r][p].st = "done" /\ Has(<<p, units[r][p]>>)'
    BY <1>3 DEF Has
  <1>6. QED
    BY <1>1, <1>2, <1>3, <1>4, <1>5 DEF PathInv

LEMMA SeqFile ==
  ASSUME SeqInv, Sequential, NEW r \in Runners, NEW p \in Paths, FileStep(r, p)
  PROVE  SeqInv'
  <1>1. PathInv(r, p)'
    BY AtWork, OwnOpen, OwnCheck, OwnUpsert, OwnClear, OwnInsert, OwnStored, OwnRemoveChunks, OwnRemoveRow DEF FileStep
  <1>2. \A q \in Paths : PathInv(r, q)'
    BY <1>1, OtherPaths
  <1>3. IndexInv' /\ mode' = mode
    BY FileNext, FileKeeps DEF SeqInv
  <1>4. \A s \in Runners : s = r
    BY DEF Sequential
  <1>5. QED
    BY <1>2, <1>3, <1>4 DEF SeqInv

LEMMA SeqStart ==
  ASSUME SeqInv, Sequential, NEW r \in Runners, NEW w \in Worktrees, StartIndex(r, w) \/ StartUnlock(r, w)
  PROVE  SeqInv'
  <1>1. PICK m \in {"index", "unlock"}, P \in SUBSET Paths : Begin(r, w, m) /\ Todo(r, P)
    BY DEF StartIndex, StartUnlock, Scan, Sequential
  <1>2. /\ IndexInv /\ task \in TaskFun /\ mode \in [Runners -> {"index", "force", "unlock"}]
        /\ units \in [Runners -> [Paths -> Versions \cup {NoVersion}]]
    BY DEF SeqInv, IndexInv, TypeOK, TaskFun
  <1>3. IndexInv'
    BY <1>2, StartTypes
  <1>4. \A p \in Paths : task'[r][p].st \in {"todo", "done"}
    BY <1>1, <1>2, TodoTasks
  <1>5. UNCHANGED <<files, chunks, manifest>> /\ mode'[r] # "force" /\ \A p \in Paths : units'[r][p] = NoVersion
    BY <1>1, <1>2 DEF Begin, store, Nothing
  <1>6. \A p \in Paths : PathInv(r, p)'
    BY <1>4, <1>5, RestFits DEF Holding
  <1>7. \A s \in Runners : s = r
    BY DEF Sequential
  <1>8. QED
    BY <1>3, <1>5, <1>6, <1>7 DEF SeqInv

LEMMA SeqEnd ==
  ASSUME SeqInv, Sequential, NEW r \in Runners,
         FilesDone(r) \/ SetManifest(r) \/ PruneVersions(r) \/ Finish(r) \/ Stop(r)
  PROVE  SeqInv'
  <1> USE DEF Enter, store, run
  <1>1. /\ IndexInv /\ task \in TaskFun /\ wt[r] \in Worktrees /\ PhasesFit
        /\ phase \in [Runners -> {"idle", "files", "manifest", "prune", "finish"}]
        /\ manifest \in [Worktrees -> [Paths -> Versions \cup {NoVersion}]]
        /\ units \in [Runners -> [Paths -> Versions \cup {NoVersion}]]
        /\ \A p \in Paths : PathInv(r, p)
        /\ \A p \in Paths : task[r][p].st \notin {"unlist", "sweep"}
    BY DEF SeqInv, IndexInv, TypeOK, TaskFun, PathInv, TaskFits
  <1>2. IndexInv' /\ mode' = mode
    BY <1>1, EndTypes DEF FilesDone, SetManifest, PruneVersions, Finish, Stop
  <1>3. CASE FilesDone(r)
    <2>1. /\ UNCHANGED <<files, chunks, manifest, task, units>> /\ phase[r] = "files"
          /\ \A p \in Paths : task[r][p].st \in Ended
      BY <1>3 DEF FilesDone
    <2>2. \A p \in Paths : task'[r][p].st \notin Holding \cup {"unlist", "sweep"}
      BY <2>1 DEF Ended, Holding
    <2>3. \A p \in Paths : units'[r][p] # NoVersion => task'[r][p].st = "done" /\ Has(<<p, units'[r][p]>>)
      BY <1>1, <2>1 DEF PathInv
    <2>4. \A p \in Paths : PathInv(r, p)'
      BY <2>1, <2>2, <2>3, RestFits
    <2>5. QED
      BY <1>2, <2>4 DEF SeqInv, Sequential
  <1>4. CASE SetManifest(r)
    <2>1. /\ UNCHANGED <<files, chunks, task, units>> /\ phase[r] = "manifest" /\ phase'[r] \in {"prune", "finish"}
          /\ manifest' = manifest \/ manifest' = [manifest EXCEPT ![wt[r]] = units[r]]
      BY <1>1, <1>4 DEF SetManifest
    <2>2. \A p \in Paths : task[r][p].st \notin Holding \cup {"unlist", "sweep"}
      BY <1>1, <2>1 DEF PhasesFit, Working
    <2>3. ASSUME NEW p \in Paths PROVE PathInv(r, p)'
      <3>1. PathInv(r, p) /\ TaskFits(r, p)'
        BY <1>1, <2>1, <2>2 DEF TaskFits, Holding
      <3>2. \A v : Has(v)' <=> Has(v)
        BY <2>1 DEF Has
      <3>3. \A w \in Worktrees : manifest'[w][p] = manifest[w][p] \/ manifest'[w][p] = units[r][p]
        BY <1>1, <2>1
      <3>4. \A w \in Worktrees : manifest'[w][p] # NoVersion => Has(<<p, manifest'[w][p]>>)
        BY <2>1, <3>1, <3>3 DEF PathInv
      <3>5. \A w \in Worktrees : manifest'[w][p] # NoVersion => Has(<<p, manifest[w][p]>>)'
        BY <2>1, <3>4 DEF Has
      <3>6. QED
        BY <2>1, <3>1, <3>2, <3>5 DEF PathInv
    <2>4. QED
      BY <1>2, <2>3 DEF SeqInv, Sequential
  <1>5. CASE PruneVersions(r)
    <2>1. phase[r] = "prune" /\ phase'[r] = "finish" /\ manifest' = manifest
      BY <1>1, <1>5 DEF PruneVersions, Prune
    <2>2. \A p \in Paths : task[r][p].st \notin Holding \cup {"unlist", "sweep"}
      BY <1>1, <2>1 DEF PhasesFit, Working
    <2>3. CASE UNCHANGED <<files, chunks, task>>
      <3>1. \A p \in Paths : PathInv(r, p)'
        BY <2>1, <2>2, <2>3, RestFits
      <3>2. QED
        BY <1>2, <3>1 DEF SeqInv, Sequential
    <2>4. CASE Prune(task)
      <3>1. \A p \in Paths : task'[r][p].st = task[r][p].st
        BY <1>1, <2>4, OrphanTasks DEF Prune, Kept
      <3>2. /\ files' = files \cap Referenced
            /\ \A v \in Rows : chunks'[v] = IF v \in files \ Referenced THEN NoChunks ELSE chunks[v]
        BY <1>1, <2>4, PruneTypes DEF IndexInv
      <3>3. ASSUME NEW p \in Paths PROVE PathInv(r, p)'
        <4>1. PathInv(r, p) /\ TaskFits(r, p)'
          BY <1>1, <2>2, <3>1 DEF TaskFits, Holding
        <4>2. ASSUME NEW x \in Versions, NEW w \in Worktrees, manifest[w][p] = x, Has(<<p, x>>) PROVE Has(<<p, x>>)'
          <5>1. <<p, x>> \in Rows /\ <<p, x>> \in Referenced
            BY <4>2 DEF Rows, Referenced
          <5>2. QED
            BY <3>2, <4>2, <5>1 DEF Has
        <4>3. \A w \in Worktrees : manifest'[w][p] # NoVersion => Has(<<p, manifest[w][p]>>)'
          <5>1. ASSUME NEW w \in Worktrees, NEW x, x = manifest[w][p], x # NoVersion PROVE Has(<<p, x>>)'
            BY <1>1, <4>1, <4>2, <5>1 DEF PathInv
          <5>2. QED
            BY <2>1, <5>1
        <4>4. ASSUME NEW x \in Versions PROVE chunks'[<<p, x>>] = NoChunks \/ Has(<<p, x>>)'
          <5>1. <<p, x>> \in Rows /\ (chunks[<<p, x>>] = NoChunks \/ Has(<<p, x>>))
            BY <4>1 DEF Rows, PathInv
          <5>2. QED
            BY <3>2, <5>1 DEF Has
        <4>5. QED
          BY <2>1, <4>1, <4>3, <4>4 DEF PathInv
      <3>4. QED
        BY <1>2, <3>3 DEF SeqInv, Sequential
    <2>5. QED
      BY <1>5, <2>3, <2>4 DEF PruneVersions
  <1>6. CASE Finish(r) \/ Stop(r)
    <2>1. UNCHANGED <<files, chunks, manifest>> /\ phase'[r] = "idle"
      BY <1>1, <1>6 DEF Finish, Stop
    <2>2. \A p \in Paths : task'[r][p].st = "idle"
      BY <1>1, <1>6, IdleTasks DEF Finish, Stop
    <2>3. \A p \in Paths : PathInv(r, p)'
      BY <2>1, <2>2, RestFits DEF Holding
    <2>4. QED
      BY <1>2, <2>3 DEF SeqInv, Sequential
  <1>7. QED
    BY <1>3, <1>4, <1>5, <1>6

LEMMA SeqNext == Sequential /\ SeqInv /\ [Next]_vars => SeqInv'
  <1> SUFFICES ASSUME Sequential, SeqInv, [Next]_vars PROVE SeqInv'
    OBVIOUS
  <1>1. ASSUME UNCHANGED <<store, task, phase, mode, units>> PROVE SeqInv'
    <2>1. IndexInv'
      BY IndexInvNext DEF SeqInv
    <2>2. \A r \in Runners, p \in Paths : PathInv(r, p)'
      BY <1>1 DEF SeqInv, PathInv, TaskFits, Has, store
    <2>3. QED
      BY <1>1, <2>1, <2>2 DEF SeqInv
  <1>2. CASE UNCHANGED vars
    BY <1>1, <1>2 DEF vars, run
  <1>3. ASSUME NEW w \in Worktrees, NEW p \in Paths, Edit(w, p) PROVE SeqInv'
    BY <1>1, <1>3 DEF Edit, run
  <1>4. CASE Next
    BY <1>3, <1>4, SeqStart, SeqFile, SeqEnd DEF Next, RunStep
  <1>5. QED
    BY <1>2, <1>4

LEMMA SeqInit == Init => SeqInv
  <1> SUFFICES ASSUME Init PROVE SeqInv
    OBVIOUS
  <1>1. IndexInv
    BY IndexInvInit
  <1>2. /\ \A r \in Runners, p \in Paths : task[r][p].st = "idle" /\ phase[r] = "idle"
        /\ \A w \in Worktrees, p \in Paths : manifest[w][p] = NoVersion
        /\ \A p \in Paths, x \in Versions : chunks[<<p, x>>] = NoChunks
        /\ \A r \in Runners : mode[r] = "index"
    BY DEF Init, NoTask, Nothing, Rows
  <1>3. \A r \in Runners, p \in Paths : PathInv(r, p)
    BY <1>2 DEF PathInv, TaskFits, Holding
  <1>4. QED
    BY <1>1, <1>2, <1>3 DEF SeqInv

\* When runs do not overlap, a text is one batch, no file of blanks is pruned for
\* and nothing up to date is stored again, every version in a manifest has its row
\* and all its chunks, at every point of a run and after any that failed or died:
\* the rollback and the prune take only what no worktree references (indexer.go
\* rollbackIncompleteUnit, store.go PruneUnreferencedFiles).  Without any one of
\* these hypotheses a run finds a counterexample.
THEOREM ManifestsWhole == Sequential /\ Spec => []ManifestComplete
  <1> SUFFICES ASSUME Sequential PROVE Spec => []ManifestComplete
    OBVIOUS
  <1>1. SeqInv => ManifestComplete
    <2>1. ASSUME SeqInv, NEW w \in Worktrees, NEW p \in Paths, manifest[w][p] # NoVersion
          PROVE  Whole(<<p, manifest[w][p]>>)
      <3>1. PICK r \in Runners : PathInv(r, p)
        BY <2>1 DEF SeqInv, Sequential
      <3>2. Has(<<p, manifest[w][p]>>)
        BY <2>1, <3>1 DEF PathInv
      <3>3. QED
        BY <3>2, HasIsWhole
    <2>2. QED
      BY <2>1 DEF ManifestComplete
  <1>2. SeqInv /\ [Next]_vars => SeqInv'
    BY SeqNext
  <1>3. QED
    BY <1>1, <1>2, SeqInit, PTL DEF Spec

------------------------------------------------------------------------------
(* The views of the worktrees *)

\* The worktree of the run that is under way, if one is.
Indexing == {wt[r] : r \in {s \in Runners : phase[s] # "idle"}}

LEMMA SeenIsManifest ==
  ASSUME Sequential, SeqInv
  PROVE  [w \in Worktrees |-> Seen(w)] = manifest
  <1>1. manifest \in [Worktrees -> [Paths -> Versions \cup {NoVersion}]]
    BY DEF SeqInv, IndexInv, TypeOK
  <1>2. ASSUME NEW w \in Worktrees, NEW p \in Paths, manifest[w][p] # NoVersion PROVE Whole(<<p, manifest[w][p]>>)
    <2>1. PICK r \in Runners : PathInv(r, p)
      BY DEF SeqInv, Sequential
    <2>2. QED
      BY <1>2, <2>1, HasIsWhole DEF PathInv
  <1>3. \A w \in Worktrees : Seen(w) = manifest[w]
    <2>1. ASSUME NEW w \in Worktrees PROVE Seen(w) = manifest[w]
      <3>1. \A p \in Paths :
              (IF Whole(<<p, manifest[w][p]>>) THEN manifest[w][p] ELSE NoVersion) = manifest[w][p]
        BY <1>2
      <3>2. manifest[w] = [p \in Paths |-> manifest[w][p]]
        BY <1>1
      <3>3. QED
        BY <3>1, <3>2 DEF Seen
    <2>2. QED
      BY <2>1
  <1>4. QED
    BY <1>1, <1>3

LEMMA ViewStep ==
  ASSUME Sequential, SeqInv, SeqInv', [Next]_vars
  PROVE  [View!ViewNext]_View!viewVars
  <1>1. /\ [w \in Worktrees |-> Seen(w)] = manifest
        /\ manifest \in [Worktrees -> [Paths -> Versions \cup {NoVersion}]]
        /\ units \in [Runners -> [Paths -> Versions \cup {NoVersion}]]
        /\ phase \in [Runners -> {"idle", "files", "manifest", "prune", "finish"}]
        /\ wt \in [Runners -> Worktrees]
    BY SeenIsManifest DEF SeqInv, IndexInv, TypeOK
  <1>2. [w \in Worktrees |-> Seen(w)]' = manifest'
    <2>1. (Sequential /\ SeqInv => [w \in Worktrees |-> Seen(w)] = manifest)'
      BY SeenIsManifest, PTL
    <2>2. Sequential'
      BY DEF Sequential
    <2>3. QED
      BY <2>1, <2>2
  <1>3. ASSUME manifest' = manifest, Indexing' = Indexing PROVE UNCHANGED View!viewVars
    BY <1>1, <1>2, <1>3 DEF View!viewVars, Indexing
  <1>4. ASSUME UNCHANGED <<manifest, phase, wt>> PROVE UNCHANGED View!viewVars
    BY <1>3, <1>4 DEF Indexing
  <1>5. CASE UNCHANGED vars
    BY <1>4, <1>5 DEF vars, store, run
  <1>6. ASSUME NEW w \in Worktrees, NEW p \in Paths, Edit(w, p) PROVE UNCHANGED View!viewVars
    BY <1>4, <1>6 DEF Edit, store, run
  <1>7. ASSUME NEW r \in Runners, NEW p \in Paths, FileStep(r, p) PROVE UNCHANGED View!viewVars
    BY <1>4, <1>7, FileLocal, FileKeeps DEF Local
  <1>8. ASSUME NEW r \in Runners PROVE Indexing = IF phase[r] = "idle" THEN {} ELSE {wt[r]}
    BY DEF Indexing, Sequential
  <1>9. ASSUME NEW r \in Runners PROVE Indexing' = IF phase'[r] = "idle" THEN {} ELSE {wt'[r]}
    BY DEF Indexing, Sequential
  <1>10. ASSUME NEW r \in Runners, NEW w \in Worktrees, StartIndex(r, w) \/ StartUnlock(r, w)
         PROVE  View!ViewNext
    <2>1. phase[r] = "idle" /\ phase'[r] = "files" /\ wt'[r] = w /\ manifest' = manifest
      BY <1>1, <1>10 DEF StartIndex, StartUnlock, Begin, store
    <2>2. Indexing' = Indexing \cup {w}
      BY <1>8, <1>9, <2>1
    <2>3. View!Begin(w)
      BY <1>1, <1>2, <2>1, <2>2 DEF View!Begin, Indexing
    <2>4. QED
      BY <2>3 DEF View!ViewNext
  <1>11. ASSUME NEW r \in Runners, FilesDone(r) \/ PruneVersions(r) PROVE UNCHANGED View!viewVars
    <2>1. phase[r] # "idle" /\ phase'[r] # "idle" /\ wt' = wt /\ manifest' = manifest
      BY <1>1, <1>11 DEF FilesDone, PruneVersions, Enter, Prune, store
    <2>2. QED
      BY <1>3, <1>8, <1>9, <2>1
  <1>12. ASSUME NEW r \in Runners, SetManifest(r) PROVE View!ViewNext \/ UNCHANGED View!viewVars
    <2>1. phase[r] # "idle" /\ phase'[r] # "idle" /\ wt' = wt
          /\ (manifest' = manifest \/ manifest' = [manifest EXCEPT ![wt[r]] = units[r]])
      BY <1>1, <1>12 DEF SetManifest, Enter
    <2>2. Indexing' = Indexing /\ wt[r] \in Indexing
      BY <1>8, <1>9, <2>1
    <2>3. CASE manifest' = [manifest EXCEPT ![wt[r]] = units[r]]
      <3>1. View!Publish(wt[r])
        BY <1>1, <1>2, <2>2, <2>3 DEF View!Publish, Indexing
      <3>2. QED
        BY <1>1, <3>1 DEF View!ViewNext
    <2>4. QED
      BY <1>3, <2>1, <2>2, <2>3
  <1>13. ASSUME NEW r \in Runners, Finish(r) \/ Stop(r) PROVE View!ViewNext
    <2>1. PICK w \in Worktrees : w = wt[r]
      BY <1>1
    <2>2. phase[r] # "idle" /\ phase'[r] = "idle" /\ manifest' = manifest
      BY <1>1, <1>13 DEF Finish, Stop, Enter, store
    <2>3. Indexing' = Indexing \ {w} /\ w \in Indexing
      BY <1>8, <1>9, <2>1, <2>2
    <2>4. View!End(w)
      BY <1>1, <1>2, <2>2, <2>3 DEF View!End, Indexing
    <2>5. QED
      BY <2>4 DEF View!ViewNext
  <1>14. QED
    BY <1>5, <1>6, <1>7, <1>10, <1>11, <1>12, <1>13 DEF Next, RunStep

LEMMA ViewStart ==
  ASSUME Sequential, Init
  PROVE  View!ViewInit
  <1>1. [w \in Worktrees |-> Seen(w)] = manifest
    BY SeqInit, SeenIsManifest
  <1>2. manifest = [w \in Worktrees |-> [p \in Paths |-> NoVersion]] /\ Indexing = {}
    BY DEF Init, Nothing, Indexing
  <1>3. QED
    BY <1>1, <1>2 DEF View!ViewInit, Indexing

\* Under the same hypotheses a search scoped to a worktree sees a snapshot that
\* only a run of that worktree replaces, and replaces whole: storing, rolling back
\* and pruning the versions the worktrees share is never seen in a view
\* (store.go SetWorktreeFiles, PruneUnreferencedFiles).
THEOREM IndexImplementsView == Sequential /\ Spec => ImplementsView
  <1> SUFFICES ASSUME Sequential PROVE Spec => ImplementsView
    OBVIOUS
  <1>1. SeqInv /\ [Next]_vars => SeqInv'
    BY SeqNext
  <1>2. SeqInv /\ SeqInv' /\ [Next]_vars => [View!ViewNext]_View!viewVars
    BY ViewStep
  <1>3. Init => View!ViewInit
    BY ViewStart
  <1>4. QED
    BY SeqInit, <1>1, <1>2, <1>3, PTL DEF Spec, ImplementsView, View!Spec

------------------------------------------------------------------------------
(* The dependency edges *)

\* What a step on a file does to the edges of the others and to the run's errors.
LEMMA EdgesLocal ==
  ASSUME SeqInv, NEW r \in Runners, NEW p \in Paths, FileStep(r, p)
  PROVE  /\ \A q \in Paths : q # p => deps'[q] = deps[q]
         /\ task[r][p].st # "todo" => deps' = deps
         /\ failed[r] => failed'[r]
         /\ Fails(r, p) => failed'[r]
  <1>1. deps \in [Paths -> Versions \cup {NoVersion}] /\ failed \in [Runners -> BOOLEAN]
    BY DEF SeqInv, IndexInv, TypeOK
  <1>2. FileStep(r, p) /\ ~Unlist(r, p) /\ ~Sweep(r, p)
    BY AtWork
  <1>3. deps' = deps \/ (task[r][p].st = "todo" /\ \E v : deps' = [deps EXCEPT ![p] = v])
    BY <1>2, Zenon DEF FileStep, Open, OpenText, Check, Upsert, Clear, Insert, Stored, RemoveChunks, RemoveRow, store
  <1>4. failed' = failed \/ failed' = [failed EXCEPT ![r] = TRUE]
    BY Zenon DEF FileStep, Open, OpenText, Check, Upsert, Clear, Insert, Stored, RemoveChunks, RemoveRow, Unlist, Sweep,
       Fails, Keep, run
  <1>5. failed[r] => failed'[r]
    BY <1>1, <1>4
  <1>6. Fails(r, p) => failed'[r]
    BY <1>1 DEF Fails
  <1>7. QED
    BY <1>1, <1>3, <1>5, <1>6

LEMMA OpenEdges ==
  ASSUME SeqInv, NEW r \in Runners, NEW p \in Paths, Open(r, p), ~failed'[r], disk[wt[r]][p] \in Texts
  PROVE  EdgesFit(r, p)'
  <1>1. PICK c \in Texts : c = disk[wt[r]][p]
    OBVIOUS
  <1>2. FileStep(r, p) /\ disk' = disk /\ wt' = wt /\ deps \in [Paths -> Versions \cup {NoVersion}] /\ task \in TaskFun
    BY FileKeeps DEF FileStep, SeqInv, IndexInv, TypeOK, TaskFun
  <1>3. c # Sealed /\ c # Blank /\ c # Absent /\ ~Fails(r, p)
    BY <1>2, EdgesLocal, NamesAssumption DEF Versions
  <1>4. OpenText(r, p, c)
    BY <1>1, <1>3 DEF Open
  <1>5. deps'[p] = c
    BY <1>2, <1>4 DEF OpenText
  <1>6. task'[r][p].st = "check" /\ task'[r][p].ver = c
    <2> DEFINE t == [NoTask EXCEPT !.st = "check", !.ver = c]
    <2>1. t \in Tasks /\ t.st = "check" /\ t.ver = c
      BY NextTypes DEF Tasks, TaskSteps, Versions
    <2>2. task' = [task EXCEPT ![r][p] = t]
      BY <1>4 DEF OpenText
    <2> HIDE DEF t
    <2>3. Becomes(r, p, t)
      BY <1>2, <2>1, <2>2, SetTask
    <2>4. QED
      BY <2>1, <2>3 DEF Becomes
  <1>7. QED
    BY <1>1, <1>2, <1>5, <1>6 DEF EdgesFit

LEMMA InsertEdges ==
  ASSUME SeqInv, NEW r \in Runners, NEW p \in Paths, Insert(r, p), ~failed'[r], task[r][p].next = task[r][p].created + 1
  PROVE  /\ task'[r][p].st = "insert" /\ task'[r][p].ver = task[r][p].ver
         /\ task'[r][p].next = task'[r][p].created + 1
  <1>1. PICK t : t = task[r][p]
    OBVIOUS
  <1>2. /\ FileStep(r, p) /\ task \in TaskFun /\ t \in Tasks /\ t.st = "insert" /\ failed \in [Runners -> BOOLEAN]
        /\ Batch(t) # {} /\ t.next = t.created + 1
    BY <1>1, AtWork, Zenon DEF FileStep, Insert, SeqInv, IndexInv, TypeOK, TaskFun
  <1>3. PICK size : size = Cardinality(Batch(t))
    OBVIOUS
  <1>4. size \in Nat /\ t.next + size <= NChunks + 1
    BY <1>2, <1>3, BatchSizes, BatchSizeAssumption
  <1>5. failed' # [failed EXCEPT ![r] = TRUE]
    BY <1>2
  <1>6. task' = [task EXCEPT ![r][p].next = t.next + size, ![r][p].created = t.created + size]
    BY <1>1, <1>3, <1>5, Zenon DEF Insert
  <1>7. /\ t.next \in Nat /\ t.created \in Nat
        /\ t.next + size \in 1 .. (NChunks + BatchSize) /\ t.created + size \in 0 .. NChunks
        /\ t.next + size = (t.created + size) + 1
    BY <1>2, <1>4, NChunksAssumption, BatchSizeAssumption DEF Tasks
  <1> DEFINE u == [t EXCEPT !.next = t.next + size, !.created = t.created + size]
  <1>8. u \in Tasks /\ u.st = "insert" /\ u.ver = t.ver /\ u.next = t.next + size /\ u.created = t.created + size
    BY <1>2, <1>7 DEF Tasks
  <1>9. task' = [task EXCEPT ![r][p] = u]
    BY <1>1, <1>2, <1>6 DEF TaskFun
  <1> HIDE DEF u
  <1>10. Becomes(r, p, u)
    BY <1>2, <1>8, <1>9, SetTask
  <1>11. QED
    BY <1>1, <1>7, <1>8, <1>10 DEF Becomes

LEMMA OwnEdges ==
  ASSUME SeqInv, NEW r \in Runners, NEW p \in Paths, FileStep(r, p), EdgesFit(r, p), ~failed'[r]
  PROVE  EdgesFit(r, p)'
  <1>1. PICK c : c = disk[wt[r]][p]
    OBVIOUS
  <1>2. /\ disk' = disk /\ wt' = wt /\ task \in TaskFun /\ task[r][p] \in Tasks /\ ~Fails(r, p) /\ PathInv(r, p)
        /\ units \in [Runners -> [Paths -> Versions \cup {NoVersion}]]
        /\ task[r][p].st \in Working /\ ~Unlist(r, p) /\ ~Sweep(r, p)
    BY AtWork, FileKeeps, EdgesLocal DEF SeqInv, IndexInv, TypeOK, TaskFun
  <1>3. CASE c \notin Texts
    BY <1>1, <1>2, <1>3 DEF EdgesFit
  <1>4. CASE c \in Texts /\ task[r][p].st = "todo"
    <2>1. Open(r, p)
      BY <1>4, Zenon DEF FileStep, Check, Upsert, Clear, Insert, Stored, RemoveChunks, RemoveRow, Unlist, Sweep
    <2>2. QED
      BY <1>1, <1>4, <2>1, OpenEdges
  <1>5. CASE c \in Texts /\ task[r][p].st # "todo"
    <2>1. /\ task[r][p].st \in {"check", "upsert", "clear", "insert"} /\ task[r][p].ver = c /\ deps[p] = c
          /\ task[r][p].st = "insert" => task[r][p].next = task[r][p].created + 1
      BY <1>1, <1>2, <1>5 DEF EdgesFit, Working, Holding
    <2>2. deps'[p] = c /\ disk'[wt'[r]][p] = c
      BY <1>1, <1>2, <1>5, <2>1, EdgesLocal
    <2>3. CASE Keep(r, p)
      <3>1. task'[r][p].st = "done" /\ task'[r][p].ver = c
        BY <1>2, <2>1, <2>3, GotoOnly DEF Keep, TaskSteps
      <3>2. units'[r][p] = c
        BY <1>2, <2>1, <2>3 DEF Keep
      <3>3. QED
        BY <2>2, <3>1, <3>2 DEF EdgesFit
    <2>4. CASE Goto(r, p, "upsert")
      <3>1. task'[r][p].st = "upsert" /\ task'[r][p].ver = c
        BY <1>2, <2>1, <2>4, GotoOnly DEF TaskSteps
      <3>2. QED
        BY <2>2, <3>1 DEF EdgesFit
    <2>5. CASE Upsert(r, p)
      <3>1. task' = [task EXCEPT ![r][p].st = "clear", ![r][p].live = TRUE]
        BY <1>2, <2>5 DEF Upsert
      <3> DEFINE t == [task[r][p] EXCEPT !.st = "clear", !.live = TRUE]
      <3>2. t \in Tasks /\ t.st = "clear" /\ t.ver = c
        BY <1>2, <2>1 DEF Tasks, TaskSteps
      <3>3. task' = [task EXCEPT ![r][p] = t]
        BY <1>2, <3>1 DEF TaskFun
      <3> HIDE DEF t
      <3>4. Becomes(r, p, t)
        BY <1>2, <3>2, <3>3, SetTask
      <3>5. QED
        BY <2>2, <3>2, <3>4 DEF Becomes, EdgesFit
    <2>6. CASE Clear(r, p)
      <3>1. Goto(r, p, "insert") /\ task[r][p].next = 1 /\ task[r][p].created = 0
        BY <1>2, <2>6 DEF Clear, PathInv, TaskFits, Fresh
      <3>2. /\ task'[r][p].st = "insert" /\ task'[r][p].ver = c
            /\ task'[r][p].next = 1 /\ task'[r][p].created = 0
        BY <1>2, <2>1, <3>1, GotoOnly DEF TaskSteps
      <3>3. QED
        BY <2>2, <3>2 DEF EdgesFit
    <2>7. CASE Insert(r, p)
      <3>1. task[r][p].st = "insert"
        BY <2>7, Zenon DEF Insert
      <3>2. task'[r][p].st = "insert" /\ task'[r][p].ver = c /\ task'[r][p].next = task'[r][p].created + 1
        BY <2>1, <2>7, <3>1, InsertEdges
      <3>3. QED
        BY <2>2, <3>2 DEF EdgesFit
    <2>8. CASE Stored(r, p)
      <3>1. task[r][p].st = "insert" /\ Batch(task[r][p]) = {}
        BY <2>8, Zenon DEF Stored
      <3>2. task[r][p].next > NChunks
        BY <1>2, <3>1, BatchSizes
      <3>3. ~(task[r][p].created < NChunks)
        BY <1>2, <2>1, <3>1, <3>2, NChunksAssumption, BatchSizeAssumption DEF Tasks
      <3>4. Keep(r, p)
        BY <2>8, <3>3, Zenon DEF Stored
      <3>5. QED
        BY <2>3, <3>4
    <2>9. CASE Check(r, p)
      BY <2>3, <2>4, <2>9 DEF Check
    <2>10. QED
      <3>1. ~Open(r, p) /\ ~RemoveChunks(r, p) /\ ~RemoveRow(r, p)
        BY <1>5, <2>1, Zenon DEF Open, RemoveChunks, RemoveRow
      <3>2. QED
        BY <1>2, <2>5, <2>6, <2>7, <2>8, <2>9, <3>1 DEF FileStep
  <1>6. QED
    BY <1>3, <1>4, <1>5

\* The four parts of DepsInv, of the one runner there is.
UnlockShowsNothing(r) == phase[r] # "idle" /\ mode[r] = "unlock" => wt[r] \notin current
FilesFit(r) ==
  phase[r] \in {"files", "manifest"} /\ mode[r] # "unlock" /\ ~failed[r] /\ ~unseen[r]
    => \A p \in Paths : EdgesFit(r, p)
SettledFit(r) == phase[r] \in {"idle", "prune", "finish"} /\ stops = 0 /\ wt[r] \in current => EdgesRight(wt[r])
PublishedFit(r) ==
  phase[r] = "prune" /\ wt[r] \in current
    => \A p \in Paths : disk[wt[r]][p] \in Texts => manifest[wt[r]][p] = disk[wt[r]][p]

LEMMA DepsParts ==
  DepsInv <=> \A r \in Runners : UnlockShowsNothing(r) /\ FilesFit(r) /\ SettledFit(r) /\ PublishedFit(r)
  BY DEF DepsInv, UnlockShowsNothing, FilesFit, SettledFit, PublishedFit

LEMMA DepsFile ==
  ASSUME SeqInv, Sequential, DepsInv, NEW r \in Runners, NEW p \in Paths, FileStep(r, p)
  PROVE  UnlockShowsNothing(r)' /\ FilesFit(r)' /\ SettledFit(r)' /\ PublishedFit(r)'
  <1>1. /\ phase[r] = "files" /\ UNCHANGED <<disk, phase, mode, wt, unseen, current>>
        /\ UnlockShowsNothing(r) /\ FilesFit(r)
    BY AtWork, FileKeeps, DepsParts
  <1>2. UnlockShowsNothing(r)' /\ SettledFit(r)' /\ PublishedFit(r)'
    BY <1>1 DEF UnlockShowsNothing, SettledFit, PublishedFit
  <1>3. ASSUME mode[r] # "unlock", ~failed'[r], ~unseen[r], NEW q \in Paths PROVE EdgesFit(r, q)'
    <2>1. EdgesFit(r, q)
      BY <1>1, <1>3, EdgesLocal DEF FilesFit
    <2>2. CASE q = p
      BY <1>3, <2>1, <2>2, OwnEdges
    <2>3. CASE q # p
      <3>1. task'[r][q] = task[r][q] /\ units'[r][q] = units[r][q] /\ deps'[q] = deps[q]
        BY <2>3, FileLocal, EdgesLocal DEF Local
      <3>2. QED
        BY <1>1, <2>1, <3>1 DEF EdgesFit
    <2>4. QED
      BY <2>2, <2>3
  <1>4. FilesFit(r)'
    BY <1>1, <1>3 DEF FilesFit
  <1>5. QED
    BY <1>2, <1>4

LEMMA DepsStart ==
  ASSUME SeqInv, Sequential, DepsInv, NEW r \in Runners, NEW w \in Worktrees, StartIndex(r, w) \/ StartUnlock(r, w)
  PROVE  UnlockShowsNothing(r)' /\ FilesFit(r)' /\ SettledFit(r)' /\ PublishedFit(r)'
  <1>1. /\ task \in TaskFun /\ mode \in [Runners -> {"index", "force", "unlock"}] /\ wt \in [Runners -> Worktrees]
        /\ phase \in [Runners -> {"idle", "files", "manifest", "prune", "finish"}]
        /\ disk \in [Worktrees -> [Paths -> Contents]]
    BY DEF SeqInv, IndexInv, TypeOK, TaskFun
  <1>2. disk' = disk /\ wt'[r] = w /\ phase'[r] = "files"
    BY <1>1 DEF StartIndex, StartUnlock, Begin
  <1>3. SettledFit(r)' /\ PublishedFit(r)'
    BY <1>2 DEF SettledFit, PublishedFit
  <1>4. CASE StartIndex(r, w)
    <2>1. mode'[r] # "unlock" /\ Todo(r, Scan(w))
      BY <1>1, <1>4 DEF StartIndex, Begin
    <2>2. \A p \in Paths : task'[r][p].st = IF p \in Scan(w) THEN "todo" ELSE "done"
      BY <1>1, <2>1, TodoTasks
    <2>3. \A p \in Paths : p \notin Scan(w) => disk[w][p] \notin Texts
      BY NamesAssumption DEF Scan, Versions
    <2>4. \A p \in Paths : EdgesFit(r, p)'
      BY <1>2, <2>2, <2>3 DEF EdgesFit
    <2>5. QED
      BY <1>3, <2>1, <2>4 DEF UnlockShowsNothing, FilesFit
  <1>5. CASE StartUnlock(r, w)
    <2>1. mode'[r] = "unlock" /\ w \notin current'
      BY <1>1, <1>5 DEF StartUnlock, Begin
    <2>2. QED
      BY <1>2, <1>3, <2>1 DEF UnlockShowsNothing, FilesFit
  <1>6. QED
    BY <1>4, <1>5

LEMMA DepsEnd ==
  ASSUME SeqInv, Sequential, DepsInv, NEW r \in Runners,
         FilesDone(r) \/ SetManifest(r) \/ PruneVersions(r) \/ Finish(r) \/ Stop(r)
  PROVE  UnlockShowsNothing(r)' /\ FilesFit(r)' /\ SettledFit(r)' /\ PublishedFit(r)'
  <1> USE DEF Enter, store, run, history, bounds, UnlockShowsNothing, FilesFit, SettledFit, PublishedFit
  <1>1. /\ task \in TaskFun /\ wt[r] \in Worktrees /\ PhasesFit /\ stops \in Nat
        /\ phase \in [Runners -> {"idle", "files", "manifest", "prune", "finish"}]
        /\ manifest \in [Worktrees -> [Paths -> Versions \cup {NoVersion}]]
        /\ disk \in [Worktrees -> [Paths -> Contents]]
        /\ deps \in [Paths -> Versions \cup {NoVersion}]
        /\ \A p \in Paths : PathInv(r, p)
    BY BoundsAssumption DEF SeqInv, IndexInv, TypeOK, TaskFun
  <1>2. UnlockShowsNothing(r) /\ FilesFit(r) /\ SettledFit(r) /\ PublishedFit(r)
    BY DepsParts
  <1>3. CASE FilesDone(r)
    <2>1. /\ UNCHANGED <<disk, deps, task, wt, mode, units, failed, unseen, current>>
          /\ phase[r] = "files" /\ phase'[r] = IF mode[r] = "unlock" THEN "finish" ELSE "manifest"
      BY <1>1, <1>3 DEF FilesDone
    <2>2. \A p \in Paths : EdgesFit(r, p)' <=> EdgesFit(r, p)
      BY <2>1 DEF EdgesFit
    <2>3. QED
      BY <1>2, <2>1, <2>2
  <1>4. CASE SetManifest(r)
    <2>1. /\ UNCHANGED <<disk, deps, task, wt, mode, units, failed, unseen, stops>>
          /\ phase[r] = "manifest" /\ mode[r] # "unlock" /\ phase'[r] \in {"prune", "finish"}
      BY <1>1, <1>4 DEF SetManifest, PhasesFit
    <2>2. ASSUME wt[r] \in current'
          PROVE  ~failed[r] /\ ~unseen[r] /\ manifest' = [manifest EXCEPT ![wt[r]] = units[r]]
      BY <1>4, <2>2 DEF SetManifest
    <2>3. ASSUME wt[r] \in current', NEW p \in Paths, disk[wt[r]][p] \in Texts
          PROVE  deps[p] = disk[wt[r]][p] /\ units[r][p] = disk[wt[r]][p]
      <3>1. EdgesFit(r, p)
        BY <1>2, <2>1, <2>2, <2>3
      <3>2. task[r][p].st \notin Working
        BY <1>1, <2>1 DEF PhasesFit
      <3>3. QED
        BY <2>3, <3>1, <3>2 DEF EdgesFit, Working, Holding
    <2>4. wt[r] \in current' => EdgesRight(wt[r])'
      BY <2>1, <2>3 DEF EdgesRight
    <2>5. QED
      BY <1>1, <2>1, <2>2, <2>3, <2>4
  <1>5. CASE PruneVersions(r)
    <2>1. /\ UNCHANGED <<disk, wt, mode, stops, current, manifest>>
          /\ phase[r] = "prune" /\ phase'[r] = "finish" /\ mode[r] # "unlock"
      BY <1>1, <1>5 DEF PruneVersions, Prune, PhasesFit
    <2>2. ASSUME wt[r] \in current, stops = 0, NEW p \in Paths, disk[wt[r]][p] \in Texts
          PROVE  deps'[p] = disk[wt[r]][p]
      <3>1. deps[p] = disk[wt[r]][p] /\ manifest[wt[r]][p] = disk[wt[r]][p]
        BY <1>2, <2>1, <2>2 DEF EdgesRight
      <3>2. CASE deps' = deps
        BY <3>1, <3>2
      <3>3. CASE Prune(task)
        <4>1. PICK x \in Texts : x = disk[wt[r]][p]
          BY <2>2
        <4>2. x \in Versions /\ x # NoVersion
          BY NamesAssumption DEF Versions
        <4>3. Has(<<p, x>>)
          BY <1>1, <3>1, <4>1, <4>2 DEF PathInv
        <4>4. <<p, x>> \in files /\ <<p, x>> \in Referenced
          BY <1>1, <3>1, <4>1, <4>2, <4>3 DEF Has, Referenced, Rows
        <4>5. files' = files \cap Referenced
              /\ \A q \in Paths : deps'[q] = IF \E v \in files' : v[1] = q THEN deps[q] ELSE NoVersion
          BY <3>3, PruneTypes DEF SeqInv, IndexInv
        <4>6. \E v \in files' : v[1] = p
          BY <4>4, <4>5
        <4>7. QED
          BY <3>1, <4>5, <4>6
      <3>4. QED
        BY <1>5, <3>2, <3>3 DEF PruneVersions
    <2>3. wt[r] \in current /\ stops = 0 => EdgesRight(wt[r])'
      BY <2>1, <2>2 DEF EdgesRight
    <2>4. QED
      BY <2>1, <2>3
  <1>6. CASE Finish(r)
    <2>1. UNCHANGED <<disk, deps, wt, stops, current>> /\ phase[r] = "finish" /\ phase'[r] = "idle"
      BY <1>1, <1>6 DEF Finish
    <2>2. EdgesRight(wt[r]) => EdgesRight(wt[r])'
      BY <2>1 DEF EdgesRight
    <2>3. QED
      BY <1>2, <2>1, <2>2
  <1>7. CASE Stop(r)
    <2>1. phase'[r] = "idle" /\ stops' # 0
      BY <1>1, <1>7 DEF Stop
    <2>2. QED
      BY <2>1
  <1>8. QED
    BY <1>3, <1>4, <1>5, <1>6, <1>7

LEMMA DepsEdit ==
  ASSUME SeqInv, DepsInv, NEW r \in Runners, NEW w \in Worktrees, NEW p \in Paths, Edit(w, p)
  PROVE  UnlockShowsNothing(r)' /\ FilesFit(r)' /\ SettledFit(r)' /\ PublishedFit(r)'
  <1> USE DEF UnlockShowsNothing, FilesFit, SettledFit, PublishedFit
  <1>1. /\ UNCHANGED <<deps, manifest, task, phase, mode, wt, units, failed, stops>>
        /\ current' = current \ {w} /\ unseen'[r] = (unseen[r] \/ (phase[r] # "idle" /\ wt[r] = w))
    BY DEF Edit, store, run
  <1>2. UnlockShowsNothing(r) /\ FilesFit(r) /\ SettledFit(r) /\ PublishedFit(r)
    BY DepsParts
  <1>3. CASE wt[r] = w
    BY <1>1, <1>2, <1>3
  <1>4. CASE wt[r] # w
    <2>1. disk'[wt[r]] = disk[wt[r]]
      <3>1. \E f : disk' = [disk EXCEPT ![w] = f]
        BY DEF Edit
      <3>2. QED
        BY <1>4, <3>1 DEF SeqInv, IndexInv, TypeOK
    <2>2. \A q \in Paths : EdgesFit(r, q)' <=> EdgesFit(r, q)
      BY <1>1, <2>1 DEF EdgesFit
    <2>3. EdgesRight(wt[r])' <=> EdgesRight(wt[r])
      BY <1>1, <2>1 DEF EdgesRight
    <2>4. QED
      BY <1>1, <1>2, <2>1, <2>2, <2>3
  <1>5. QED
    BY <1>3, <1>4

LEMMA DepsNext == Sequential /\ SeqInv /\ DepsInv /\ [Next]_vars => DepsInv'
  <1> SUFFICES ASSUME Sequential, SeqInv, DepsInv, [Next]_vars PROVE DepsInv'
    OBVIOUS
  <1>1. CASE UNCHANGED vars
    BY <1>1 DEF vars, store, run, history, bounds, DepsInv, EdgesFit, EdgesRight
  <1>2. ASSUME NEW r \in Runners, Next PROVE UnlockShowsNothing(r)' /\ FilesFit(r)' /\ SettledFit(r)' /\ PublishedFit(r)'
    <2>1. \A s \in Runners : s = r
      BY DEF Sequential
    <2>2. QED
      BY <1>2, <2>1, DepsFile, DepsStart, DepsEnd, DepsEdit DEF Next, RunStep
  <1>3. CASE Next
    <2>1. (DepsInv <=> \A r \in Runners : UnlockShowsNothing(r) /\ FilesFit(r) /\ SettledFit(r) /\ PublishedFit(r))'
      BY DepsParts, PTL
    <2>2. QED
      BY <1>2, <1>3, <2>1
  <1>4. QED
    BY <1>1, <1>3

\* Under the same hypotheses, and as long as no run is cut short, the dependency
\* edges of a worktree that was indexed last, without an error and without an edit
\* since, are those of the texts it has checked out, also for files that were
\* skipped as up to date (indexer.go indexContent, InsertFileDependencies).
THEOREM EdgesFollow == Sequential /\ Spec => []DependenciesCurrent
  <1> SUFFICES ASSUME Sequential PROVE Spec => []DependenciesCurrent
    OBVIOUS
  <1>1. Init => DepsInv
    BY DEF Init, DepsInv
  <1>2. SeqInv /\ [Next]_vars => SeqInv'
    BY SeqNext
  <1>3. SeqInv /\ DepsInv /\ [Next]_vars => DepsInv'
    BY DepsNext
  <1>4. DepsInv => DependenciesCurrent
    <2>1. ASSUME DepsInv, NEW w \in current, AllIdle, stops = 0, \A r \in Runners : wt[r] = w, NEW p \in Paths,
                 Wanted(w, p) # NoVersion
          PROVE  deps[p] = Wanted(w, p)
      <3>1. PICK r \in Runners : wt[r] = w /\ phase[r] = "idle"
        BY <2>1 DEF AllIdle, Sequential
      <3>2. EdgesRight(w)
        BY <2>1, <3>1 DEF DepsInv
      <3>3. QED
        BY <2>1, <3>2 DEF EdgesRight, Wanted
    <2>2. QED
      BY <2>1 DEF DependenciesCurrent
  <1>5. QED
    BY SeqInit, <1>1, <1>2, <1>3, <1>4, PTL DEF Spec
===============================================================================
