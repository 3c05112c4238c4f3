-------------------------------- MODULE BatchPush --------------------------------
(***************************************************************************)
(* `semidx push` (cmd/semidx/push.go) and the batch jobs of the server     *)
(* (internal/server/files.go).  The client hashes its tree, asks which     *)
(* files differ, and sends them as one job per batch; it waits for each    *)
(* before it sends the next.  A worker deletes, then stores file after     *)
(* file: the new version first, then the older ones are pruned.            *)
(*                                                                         *)
(* A push project has no worktrees: a search finds every stored version,   *)
(* and the newest one of a path is what the diff compares.  The queue is   *)
(* that of IndexJobs, where the requeue at startup is examined.            *)
(***************************************************************************)
EXTENDS Naturals, Sequences, FiniteSets

CONSTANTS
  Paths,
  Docs,         \* paths whose text is extracted: their hash is the text's, not the file's
  Texts, Blank, Absent,
  NoPath, NoPush,
  Workers,
  EmbedModes,   \* --embed-locally: subset of BOOLEAN
  BatchSize,    \* --batch-size
  MaxPushes, MaxChanges, MaxFaults  \* bounds; faults: failing calls and crashes

ASSUME BatchSizeAssumption == BatchSize \in Nat \ {0}
ASSUME DocsAssumption == Docs \subseteq Paths
ASSUME ModesAssumption == EmbedModes \subseteq BOOLEAN

Contents == Texts \cup {Blank, Absent}
Trees == [Paths -> Contents]
\* The hash of a version: that of the pushed file, or of the text extracted from it.
Hashes == [text : Texts, raw : BOOLEAN]

ASSUME PushSpecialsAssumption ==
  /\ Blank \notin Texts /\ Absent \notin Texts
  /\ NoPush \notin Trees \cup [text : Contents, raw : BOOLEAN]

VARIABLES
  tree,       \* the client's files
  push,       \* the push that is under way
  reported,   \* the tree of the last push, once it has ended without an error
  jobs,       \* the batch jobs, oldest first
  task,       \* what each worker is doing
  rows,       \* the stored versions of each path, newest last (indexed_at)
  some,       \* versions with at least one chunk
  whole,      \* versions with all their chunks
  pushes, changes, faults,
  excused     \* history: paths the last diff or a failing call since makes no promise about

index == <<rows, some, whole>>
client == <<tree, push, reported, pushes, changes>>
vars == <<client, jobs, task, index, faults, excused>>

NotPushing == [st |-> "idle", embed |-> FALSE, tree |-> [p \in Paths |-> Absent],
               put |-> {}, del |-> {}, job |-> 0]
Idle == [st |-> "idle", job |-> 0, del |-> {}, todo |-> {}, path |-> NoPath,
         created |-> FALSE, live |-> FALSE]

FileSteps == {"check", "upsert", "clear", "insert", "rollback", "prune"}

TypeOK ==
  /\ tree \in Trees /\ reported \in Trees \cup {NoPush}
  /\ push \in [st : {"idle", "diff", "send", "wait"}, embed : BOOLEAN, tree : Trees,
               put : SUBSET Paths, del : SUBSET Paths, job : 0 .. Len(jobs)]
  /\ \A i \in 1 .. Len(jobs) :
       jobs[i] \in [st : {"queued", "running", "succeeded", "failed"}, embed : BOOLEAN,
                    tree : Trees, put : SUBSET Paths, del : SUBSET Paths]
  /\ task \in [Workers -> [st : {"idle", "delete", "files", "remove"} \cup FileSteps,
                           job : 0 .. Len(jobs), del : SUBSET Paths, todo : SUBSET Paths,
                           path : Paths \cup {NoPath}, created : BOOLEAN, live : BOOLEAN]]
  /\ rows \in [Paths -> Seq(Hashes)]
  /\ \A p \in Paths : \A i, k \in 1 .. Len(rows[p]) : rows[p][i] = rows[p][k] => i = k
  /\ whole \subseteq some
  /\ \A v \in some : \E i \in 1 .. Len(rows[v[1]]) : rows[v[1]][i] = v[2]
  /\ excused \subseteq Paths

Init ==
  /\ tree \in Trees
  /\ push = NotPushing /\ reported = NoPush
  /\ jobs = <<>> /\ task = [w \in Workers |-> Idle]
  /\ rows = [p \in Paths |-> <<>>] /\ some = {} /\ whole = {}
  /\ pushes = 0 /\ changes = 0 /\ faults = 0
  /\ excused = {}

------------------------------------------------------------------------------
(* The versions *)

\* The hash under which a worker stores c, and the one the client computes.
Stored(p, c, embed) == [text |-> c, raw |-> embed \/ p \notin Docs]
Hashed(c) == [text |-> c, raw |-> TRUE]

Has(p, h) == \E i \in 1 .. Len(rows[p]) : rows[p][i] = h

\* A path has one row per hash.
Without(s, h) ==
  IF \E i \in 1 .. Len(s) : s[i] = h
    THEN LET k == CHOOSE i \in 1 .. Len(s) : s[i] = h
         IN SubSeq(s, 1, k - 1) \o SubSeq(s, k + 1, Len(s))
    ELSE s

\* ListFileHashes
Newest(p) == IF rows[p] = <<>> THEN NoPush ELSE rows[p][Len(rows[p])]

Unfinished(i) == jobs[i].st \in {"queued", "running"}

------------------------------------------------------------------------------
(* The client *)

Edit(p, c) ==
  /\ changes < MaxChanges /\ c # tree[p]
  /\ tree' = [tree EXCEPT ![p] = c]
  /\ changes' = changes + 1
  /\ UNCHANGED <<push, reported, pushes, jobs, task, index, faults, excused>>

\* hashFiles
Hash(embed) ==
  /\ push.st = "idle" /\ pushes < MaxPushes
  /\ \E p \in Paths : tree[p] # Absent
  /\ push' = [NotPushing EXCEPT !.st = "diff", !.embed = embed, !.tree = tree]
  /\ pushes' = pushes + 1
  /\ reported' = NoPush
  /\ UNCHANGED <<tree, changes, jobs, task, index, faults, excused>>

Stale(p) == push.tree[p] # Absent /\ Newest(p) # Hashed(push.tree[p])

\* What the server should have of a file.
Matches(p, c) ==
  IF c \in Texts
    THEN rows[p] = <<Hashed(c)>> /\ <<p, Hashed(c)>> \in whole
    ELSE rows[p] = <<>>

\* handleFilesDiff; files embedded by the client are all sent.
Diff ==
  LET present == {p \in Paths : push.tree[p] # Absent}
      put == IF push.embed THEN present ELSE {p \in Paths : Stale(p)}
      del == {p \in Paths \ present : rows[p] # <<>>}
  IN
  /\ push.st = "diff"
  /\ IF put \cup del = {}
       THEN push' = NotPushing /\ reported' = push.tree
       ELSE push' = [push EXCEPT !.st = "send", !.put = put, !.del = del] /\ UNCHANGED reported
  /\ excused' = (UNION {jobs[i].put \cup jobs[i].del : i \in {i \in 1 .. Len(jobs) : Unfinished(i)}})
                  \cup {p \in present : Has(p, Hashed(push.tree[p])) /\ ~Matches(p, push.tree[p])}
  /\ UNCHANGED <<tree, pushes, changes, jobs, task, index, faults>>

\* splitBatch: the next files, in no particular order.
Batches == {B \in SUBSET push.put :
              Cardinality(B) = IF Cardinality(push.put) < BatchSize
                                 THEN Cardinality(push.put) ELSE BatchSize}

\* EnqueueBatchJob; the deletions go with the first batch.
Send ==
  /\ push.st = "send"
  /\ \E B \in Batches :
       /\ jobs' = Append(jobs, [st |-> "queued", embed |-> push.embed, tree |-> push.tree,
                                put |-> B, del |-> push.del])
       /\ push' = [push EXCEPT !.st = "wait", !.job = Len(jobs) + 1, !.put = @ \ B, !.del = {}]
  /\ UNCHANGED <<tree, reported, pushes, changes, task, index, faults, excused>>

\* Mutant of Answer: the push ends with its first batch.
AnswerFirst ==
  /\ push.st = "wait" /\ jobs[push.job].st \in {"succeeded", "failed"}
  /\ push' = NotPushing
  /\ reported' = IF jobs[push.job].st = "succeeded" THEN push.tree ELSE reported
  /\ UNCHANGED <<tree, pushes, changes, jobs, task, index, faults, excused>>

\* waitForJobWithProgress
Answer ==
  /\ push.st = "wait"
  /\ \/ jobs[push.job].st = "succeeded" /\ push.put # {}
        /\ push' = [push EXCEPT !.st = "send", !.job = 0] /\ UNCHANGED reported
     \/ jobs[push.job].st = "succeeded" /\ push.put = {}
        /\ push' = NotPushing /\ reported' = push.tree
     \/ jobs[push.job].st = "failed"
        /\ push' = NotPushing /\ UNCHANGED reported
  /\ UNCHANGED <<tree, pushes, changes, jobs, task, index, faults, excused>>

\* A request fails, or the client has waited for half an hour.
GiveUp ==
  /\ push.st # "idle"
  /\ push' = NotPushing
  /\ UNCHANGED <<tree, reported, pushes, changes, jobs, task, index, faults, excused>>

------------------------------------------------------------------------------
(* A batch job *)

Job(w) == jobs[task[w].job]
Content(w) == Job(w).tree[task[w].path]
Version(w) == Stored(task[w].path, Content(w), Job(w).embed)
At(w, step) == task[w].st = step

Set(w, step) == task' = [task EXCEPT ![w].st = step]

\* The file's turn is over, with or without an error.
AfterFile(w) == [task[w] EXCEPT !.st = "files", !.todo = @ \ {task[w].path}, !.path = NoPath,
                                 !.created = FALSE, !.live = FALSE]
Ends(w) == task' = [task EXCEPT ![w] = AfterFile(w)]

\* The path's versions become s and w's record t; removed rows are no longer held.
Becomes(p, s, w, t) ==
  LET left == {s[i] : i \in 1 .. Len(s)}
      Stay(V) == {v \in V : v[1] = p => v[2] \in left}
  IN
  /\ rows' = [rows EXCEPT ![p] = s]
  /\ some' = Stay(some) /\ whole' = Stay(whole)
  /\ task' = [u \in Workers |->
                IF u = w THEN t
                ELSE IF task[u].path = p /\ task[u].live /\ Version(u) \notin left
                       THEN [task[u] EXCEPT !.live = FALSE]
                ELSE task[u]]

Works == UNCHANGED <<faults, excused>>
Fails(P) ==
  /\ faults < MaxFaults
  /\ faults' = faults + 1
  /\ excused' = excused \cup P

Quietly == UNCHANGED <<client, jobs>>

Claim(w) ==
  LET queued == {i \in 1 .. Len(jobs) : jobs[i].st = "queued"} IN
  /\ At(w, "idle")
  /\ \E i \in queued :
       /\ \A k \in queued : i <= k
       /\ jobs' = [jobs EXCEPT ![i].st = "running"]
       /\ task' = [task EXCEPT ![w] = [Idle EXCEPT !.st = "delete", !.job = i,
                                                   !.del = jobs[i].del, !.todo = jobs[i].put]]
  /\ UNCHANGED <<client, index, faults, excused>>

\* The job's outcome is recorded.
Outcome(w, st) ==
  /\ jobs' = [jobs EXCEPT ![task[w].job].st = st]
  /\ task' = [task EXCEPT ![w] = Idle]
  /\ UNCHANGED <<client, index>>

\* prepareJobEmbedder: the model is not available.
Unprepared(w) ==
  /\ At(w, "delete") /\ task[w].del = Job(w).del
  /\ Fails({}) /\ Outcome(w, "failed")

\* DeleteFileByPath for a file that the client no longer has.
Delete(w) ==
  /\ At(w, "delete")
  /\ \E p \in task[w].del :
       LET t == [task[w] EXCEPT !.del = @ \ {p}] IN
       \/ Works /\ Becomes(p, <<>>, w, t)
       \/ Fails({p}) /\ task' = [task EXCEPT ![w] = t] /\ UNCHANGED index
  /\ Quietly

\* pushProjectFiles: if the inventory cannot be read, no file is indexed.
Inventory(w) ==
  /\ At(w, "delete") /\ task[w].del = {}
  /\ \/ Works /\ Set(w, "files")
     \/ Fails(task[w].todo) /\ task' = [task EXCEPT ![w].st = "files", ![w].todo = {}]
  /\ Quietly /\ UNCHANGED index

\* indexBatchFile
Begin(w) ==
  /\ At(w, "files")
  /\ \E p \in task[w].todo :
       task' = [task EXCEPT ![w].path = p,
                            ![w].st = IF Job(w).tree[p] = Blank THEN "remove" ELSE "check"]
  /\ Works /\ Quietly /\ UNCHANGED index

\* DeleteFileByPath for an empty file.
RemoveBlank(w) ==
  LET p == task[w].path IN
  /\ At(w, "remove")
  /\ \/ Works /\ Becomes(p, <<>>, w, AfterFile(w))
     \/ Fails({p}) /\ Ends(w) /\ UNCHANGED index
  /\ Quietly

UpToDate(p, h) == <<p, h>> \in some

\* InsertFileDependencies and FileUpToDate; only the server's indexer goes on if the
\* latter fails.
Check(w) ==
  LET p == task[w].path IN
  /\ At(w, "check")
  /\ \/ Works /\ UpToDate(p, Version(w)) /\ Ends(w)
     \/ Works /\ ~UpToDate(p, Version(w)) /\ Set(w, "upsert")
     \/ Fails({p}) /\ (Ends(w) \/ (~Job(w).embed /\ Set(w, "upsert")))
  /\ Quietly /\ UNCHANGED index

\* Mutant of Upsert: the new row takes the place of the older ones.
UpsertReplaces(w) ==
  LET p == task[w].path h == Version(w) IN
  /\ At(w, "upsert")
  /\ Works
  /\ Becomes(p, <<h>>, w, [task[w] EXCEPT !.st = "clear", !.live = TRUE])
  /\ Quietly

\* UpsertFile: a new row, or a present one with a new indexed_at.
Upsert(w) ==
  LET p == task[w].path h == Version(w) IN
  /\ At(w, "upsert")
  /\ \/ Works
        /\ rows' = [rows EXCEPT ![p] = Append(Without(@, h), h)]
        /\ task' = [task EXCEPT ![w].st = "clear", ![w].live = TRUE]
     \/ Fails({p}) /\ Ends(w) /\ UNCHANGED rows
  /\ Quietly /\ UNCHANGED <<some, whole>>

\* DeleteChunksForFile
Clear(w) ==
  LET v == <<task[w].path, Version(w)>> IN
  /\ At(w, "clear")
  /\ \/ /\ Works /\ Set(w, "insert")
        /\ some' = some \ (IF task[w].live THEN {v} ELSE {})
        /\ whole' = whole \ (IF task[w].live THEN {v} ELSE {})
     \/ Fails({task[w].path}) /\ Ends(w) /\ UNCHANGED <<some, whole>>
  /\ Quietly /\ UNCHANGED rows

\* InsertChunks: in one transaction if the client has embedded them, else embedded and
\* stored in several; the chunks of a row that is gone are refused.
Insert(w) ==
  LET p == task[w].path  v == <<p, Version(w)>> IN
  /\ At(w, "insert")
  /\ \/ Works /\ task[w].live
        /\ some' = some \cup {v} /\ whole' = whole \cup {v}
        /\ task' = [task EXCEPT ![w].st = "prune", ![w].created = TRUE]
     \/ Works /\ ~task[w].live /\ UNCHANGED <<some, whole>>
        /\ IF Job(w).embed THEN Ends(w) ELSE Set(w, "rollback")
     \/ ~Job(w).embed /\ task[w].live /\ Fails({p}) /\ UNCHANGED whole
        /\ \E part \in BOOLEAN :
             /\ some' = some \cup (IF part THEN {v} ELSE {})
             /\ task' = [task EXCEPT ![w].st = "rollback", ![w].created = part]
     \/ Job(w).embed /\ Fails({p}) /\ Ends(w) /\ UNCHANGED <<some, whole>>
  /\ Quietly /\ UNCHANGED rows

\* rollbackIncompleteUnit; chunks that had been stored count as created all the same.
RollBack(w) ==
  LET p == task[w].path  h == Version(w)
      t == IF task[w].created THEN [task[w] EXCEPT !.st = "prune", !.live = FALSE]
                              ELSE AfterFile(w)
      Stay(V) == IF task[w].live THEN V \ {<<p, h>>} ELSE V
  IN
  /\ At(w, "rollback")
  /\ \/ Works /\ Becomes(p, IF task[w].live THEN Without(rows[p], h) ELSE rows[p], w, t)
     \/ Fails({p})
        /\ task' = [task EXCEPT ![w] = t]
        /\ \/ UNCHANGED index
           \/ some' = Stay(some) /\ whole' = Stay(whole) /\ UNCHANGED rows
  /\ Quietly

Kept(p, h) == IF Has(p, h) THEN <<h>> ELSE <<>>

\* PruneFileVersions: all but the version with the pushed content's hash.
Prune(w) ==
  LET p == task[w].path IN
  /\ At(w, "prune")
  /\ \/ Works /\ Becomes(p, Kept(p, Hashed(Content(w))), w, AfterFile(w))
     \/ Fails({p}) /\ Ends(w) /\ UNCHANGED index
  /\ Quietly

\* Files that failed are counted in a job that succeeds.
Complete(w) ==
  /\ At(w, "files") /\ task[w].todo = {}
  /\ \/ Works /\ Outcome(w, "succeeded")
     \/ Fails({}) /\ Outcome(w, "failed")

\* The process ends, and the next one queues its jobs again.
Crash ==
  /\ faults < MaxFaults /\ task # [w \in Workers |-> Idle]
  /\ faults' = faults + 1
  /\ task' = [w \in Workers |-> Idle]
  /\ jobs' = [i \in 1 .. Len(jobs) |->
                IF jobs[i].st = "running" THEN [jobs[i] EXCEPT !.st = "queued"] ELSE jobs[i]]
  /\ excused' = excused \cup {task[w].path : w \in {w \in Workers : At(w, "prune")}}
  /\ UNCHANGED <<client, index>>

WorkerStep(w) ==
  \/ Claim(w) \/ Unprepared(w) \/ Delete(w) \/ Inventory(w) \/ Begin(w) \/ RemoveBlank(w)
  \/ Check(w) \/ Upsert(w) \/ Clear(w) \/ Insert(w) \/ RollBack(w) \/ Prune(w)
  \/ Complete(w)

Next ==
  \/ \E p \in Paths, c \in Contents : Edit(p, c)
  \/ \E e \in EmbedModes : Hash(e)
  \/ Diff \/ Send \/ Answer \/ GiveUp
  \/ \E w \in Workers : WorkerStep(w)
  \/ Crash

Spec == Init /\ [][Next]_vars

------------------------------------------------------------------------------
(* Properties *)

\* A push that ends without an error leaves the server with the pushed tree as soon as
\* no job is under way: of each file the pushed version, whole, and no other, and none of
\* a file that is empty or gone.  What earlier pushes left half done, a process that ended
\* in the middle of a job included, is picked up.  No promise is made about a file in a
\* job that was under way at the diff, about one whose call has failed since or whose
\* prune was cut off, and about one whose pushed version was already there, beside others
\* or without its chunks: diff and FileUpToDate take such a version for a current one.
InSync ==
  reported # NoPush /\ (\A i \in 1 .. Len(jobs) : ~Unfinished(i)) =>
    \A p \in Paths \ excused : Matches(p, reported[p])

Searchable(p) == \E v \in whole : v[1] = p

\* A file never disappears from the searches while a new version of it is stored: it
\* does only when it is deleted or pushed empty, or in one of the excused cases.
StaysSearchable ==
  [][\A p \in Paths : Searchable(p) /\ ~Searchable(p)' =>
       \/ p \in excused'
       \/ \E w \in Workers : \/ At(w, "delete") /\ p \in task[w].del
                             \/ At(w, "remove") /\ task[w].path = p]_vars
==============================================================================
