----------------------------- MODULE WorktreeIndex -----------------------------
(***************************************************************************)
(* The content-addressed index of one git project whose worktrees share it *)
(* (internal/indexing/indexer.go on the files, chunks and worktree_files   *)
(* tables of internal/store/store.go and internal/localstore).  A file     *)
(* version is a (path, hash) row with its chunks.  Each worktree has a     *)
(* manifest that says which version it has checked out; a run ends by      *)
(* replacing its worktree's manifest and pruning the versions that no      *)
(* manifest references.  `semidx unlock` indexes, outside such a run, the  *)
(* password-protected files earlier runs skipped.                          *)
(*                                                                         *)
(* One action is one call on the store, so everything that can happen      *)
(* between two calls does: the other file workers of the run, other runs,  *)
(* edits, failures and the end of the process.                             *)
(***************************************************************************)
EXTENDS Naturals, FiniteSets

CONSTANTS
  Worktrees,    \* checkouts of the project
  Paths,        \* file paths of the project
  Texts,        \* indexable contents
  Specials,     \* the other contents a file may take: subset of {Blank, Sealed, Absent}
  Blank,        \* only white space
  Sealed,       \* password-protected
  Plain,        \* the text of a sealed file, once decrypted
  Absent,       \* there is no such file
  NoVersion,    \* no entry
  Runners,      \* index and unlock processes that may run at the same time
  FileWorkers,  \* files a run works on at a time (SEMIDX_INDEX_WORKERS)
  NChunks,      \* chunks of a text
  BatchSize,    \* chunks embedded and inserted at a time (SEMIDX_EMBED_BATCH_SIZE)
  AllowRework,  \* may a version that is up to date be processed again, because of
                \* --force or because FileUpToDate fails?
  MaxEdits,     \* bound: changes to the checkouts
  MaxErrs,      \* bound: embedding or store calls that fail
  MaxStops      \* bound: runs that are cancelled or die

ASSUME NChunksAssumption == NChunks \in Nat \ {0}
ASSUME BatchSizeAssumption == BatchSize \in Nat \ {0}
ASSUME FileWorkersAssumption == FileWorkers \in Nat \ {0}
ASSUME BoundsAssumption == MaxEdits \in Nat /\ MaxErrs \in Nat /\ MaxStops \in Nat
ASSUME ReworkAssumption == AllowRework \in BOOLEAN
ASSUME SpecialsAssumption == Specials \subseteq {Blank, Sealed, Absent}

Versions == Texts \cup {Plain}

ASSUME NamesAssumption == {Blank, Sealed, Absent, NoVersion} \cap Versions = {}

Contents == Texts \cup Specials
Rows == Paths \X Versions
Index == 0 .. (NChunks - 1)

VARIABLES
  disk,       \* the content of each worktree's files
  files,      \* the (path, hash) rows of the files table
  chunks,     \* what each row's chunk_index holds: a chunk of its text, or 0
  deps,       \* the version each path's dependency edges were taken from
  manifest,   \* worktree_files: the version of each path a worktree references
  pend,       \* the pending registry: (worktree, path) pairs awaiting a password
  phase,      \* where each run is
  mode,       \* "index", "force" or "unlock"
  wt,         \* the worktree of the run
  task,       \* what the run is doing to each file
  units,      \* the manifest the run has collected so far
  edits, errs, stops,
  failed,     \* stats.Errors > 0
  unseen,     \* history: has the run's worktree been edited since the run began?
  current,    \* history: worktrees unchanged since a whole, error-free run of theirs
  skipped     \* history: sealed files skipped by the last run of their worktree

store == <<files, chunks, deps, manifest>>
run == <<phase, mode, wt, units, failed>>
history == <<unseen, current, skipped>>
bounds == <<edits, errs, stops>>
vars == <<disk, store, pend, run, task, bounds, history>>

TaskSteps == {"idle", "todo", "check", "upsert", "clear", "insert", "unchunk",
              "unfile", "unlist", "sweep", "done", "locked", "error"}
Ended == {"done", "locked", "error"}
\* live: the row the task obtained from UpsertFile still exists.
Tasks == [st : TaskSteps, ver : Versions \cup {NoVersion}, live : BOOLEAN,
          next : 1 .. (NChunks + BatchSize), created : 0 .. NChunks]
NoTask == [st |-> "idle", ver |-> NoVersion, live |-> FALSE, next |-> 1, created |-> 0]

TypeOK ==
  /\ disk \in [Worktrees -> [Paths -> Contents]]
  /\ files \subseteq Rows
  /\ chunks \in [Rows -> [Index -> 0 .. NChunks]]
  /\ deps \in [Paths -> Versions \cup {NoVersion}]
  /\ manifest \in [Worktrees -> [Paths -> Versions \cup {NoVersion}]]
  /\ pend \subseteq Worktrees \X Paths
  /\ phase \in [Runners -> {"idle", "files", "manifest", "prune", "finish"}]
  /\ mode \in [Runners -> {"index", "force", "unlock"}]
  /\ wt \in [Runners -> Worktrees]
  /\ task \in [Runners -> [Paths -> Tasks]]
  /\ units \in [Runners -> [Paths -> Versions \cup {NoVersion}]]
  /\ failed \in [Runners -> BOOLEAN]
  /\ edits \in 0 .. MaxEdits /\ errs \in 0 .. MaxErrs /\ stops \in 0 .. MaxStops
  /\ unseen \in [Runners -> BOOLEAN]
  /\ current \subseteq Worktrees
  /\ skipped \subseteq Worktrees \X Paths

Nothing == [p \in Paths |-> NoVersion]
NoChunks == [i \in Index |-> 0]

Init ==
  /\ disk \in [Worktrees -> [Paths -> Contents]]
  /\ files = {}
  /\ chunks = [v \in Rows |-> NoChunks]
  /\ deps = Nothing
  /\ manifest = [w \in Worktrees |-> Nothing]
  /\ pend = {}
  /\ phase = [r \in Runners |-> "idle"]
  /\ mode = [r \in Runners |-> "index"]
  /\ wt \in {[r \in Runners |-> w] : w \in Worktrees}
  /\ task = [r \in Runners |-> [p \in Paths |-> NoTask]]
  /\ units = [r \in Runners |-> Nothing]
  /\ failed = [r \in Runners |-> FALSE]
  /\ edits = 0 /\ errs = 0 /\ stops = 0
  /\ unseen = [r \in Runners |-> FALSE]
  /\ current = {} /\ skipped = {}

------------------------------------------------------------------------------
(* The store *)

\* Mutants of Referenced: only the worktrees being indexed count; a path that is
\* referenced keeps all its versions.
ReferencedByRun == {v \in Rows : \E r \in Runners : manifest[wt[r]][v[1]] = v[2]}
ReferencedByPath == {v \in Rows : \E w \in Worktrees : manifest[w][v[1]] # NoVersion}

Referenced == {v \in Rows : \E w \in Worktrees : manifest[w][v[1]] = v[2]}

\* The rows go, their chunks with them (ON DELETE CASCADE), and a task that had
\* obtained one of them now holds the id of a row that does not exist.
DropRows(gone) ==
  /\ files' = files \ gone
  /\ chunks' = [v \in Rows |-> IF v \in gone THEN NoChunks ELSE chunks[v]]

Orphan(gone, t) ==
  [r \in Runners |-> [p \in Paths |->
     IF <<p, t[r][p].ver>> \in gone THEN [t[r][p] EXCEPT !.live = FALSE] ELSE t[r][p]]]

\* PruneUnreferencedFiles: its second statement removes the dependency edges of
\* paths that have no row left.
Prune(t) ==
  LET gone == files \ Referenced IN
  /\ DropRows(gone)
  /\ deps' = [p \in Paths |->
                IF \E v \in files \ gone : v[1] = p THEN deps[p] ELSE NoVersion]
  /\ task' = Orphan(gone, t)
  /\ UNCHANGED manifest

\* Mutant of UpToDate: the row alone is enough.
RowExists(v) == v \in files

\* FileUpToDate: the row exists and has at least one chunk.
UpToDate(v) == v \in files /\ \E i \in Index : chunks[v][i] # 0

\* The next sub-batch of embedAndInsert.
Batch(t) == {c \in 1 .. NChunks : t.next <= c /\ c < t.next + BatchSize}

\* InsertChunks numbers the chunks of the batch it is given from 0 and overwrites
\* an index that is taken.
Inserted(row, t) ==
  [i \in Index |-> IF t.next + i \in Batch(t) THEN t.next + i ELSE row[i]]

\* An embedding or store call fails and has no effect.
CallFails == errs < MaxErrs /\ errs' = errs + 1

------------------------------------------------------------------------------
(* The working trees *)

Edit(w, p) ==
  /\ edits < MaxEdits
  /\ edits' = edits + 1
  /\ \E c \in Contents \ {disk[w][p]} : disk' = [disk EXCEPT ![w][p] = c]
  /\ unseen' = [r \in Runners |-> unseen[r] \/ (phase[r] # "idle" /\ wt[r] = w)]
  /\ current' = current \ {w}
  /\ skipped' = skipped \ {<<w, p>>}
  /\ UNCHANGED <<store, pend, run, task, errs, stops>>

------------------------------------------------------------------------------
(* Runs *)

Begin(r, w, m) ==
  /\ phase[r] = "idle"
  /\ phase' = [phase EXCEPT ![r] = "files"]
  /\ mode' = [mode EXCEPT ![r] = m]
  /\ wt' = [wt EXCEPT ![r] = w]
  /\ units' = [units EXCEPT ![r] = Nothing]
  /\ failed' = [failed EXCEPT ![r] = FALSE]
  /\ unseen' = [unseen EXCEPT ![r] = FALSE]
  /\ UNCHANGED <<disk, store, pend, bounds, skipped>>

Todo(r, P) ==
  task' = [task EXCEPT ![r] =
             [p \in Paths |-> IF p \in P THEN [NoTask EXCEPT !.st = "todo"]
                                         ELSE [NoTask EXCEPT !.st = "done"]]]

\* resolveIndexFiles: with a worktree every pass walks the whole tree.
Scan(w) == {p \in Paths : disk[w][p] # Absent}

\* IndexProject
StartIndex(r, w) ==
  /\ \E m \in IF AllowRework THEN {"index", "force"} ELSE {"index"} : Begin(r, w, m)
  /\ Todo(r, Scan(w))
  /\ UNCHANGED current

\* runUnlock: the files of the pending list, as they are found in this worktree.
StartUnlock(r, w) ==
  /\ \E p \in Paths : <<w, p>> \in pend
  /\ Begin(r, w, "unlock")
  /\ Todo(r, {p \in Paths : <<w, p>> \in pend})
  /\ current' = current \ {w}

\* A cancelled context ends the run where it is; so does the end of the process.
Stop(r) ==
  /\ phase[r] # "idle" /\ stops < MaxStops
  /\ stops' = stops + 1
  /\ phase' = [phase EXCEPT ![r] = "idle"]
  /\ task' = [task EXCEPT ![r] = [p \in Paths |-> NoTask]]
  /\ UNCHANGED <<disk, store, pend, mode, wt, units, failed, edits, errs, history>>

------------------------------------------------------------------------------
(* One file of a run: indexContent and what it calls *)

Goto(r, p, step) == task' = [task EXCEPT ![r][p].st = step]

\* accumulate, for a file that ended in an error.
Fails(r, p) ==
  /\ Goto(r, p, "error")
  /\ failed' = [failed EXCEPT ![r] = TRUE]
  /\ UNCHANGED <<phase, mode, wt, units>>

\* accumulate, for a file whose version goes into the manifest.
Keep(r, p) ==
  /\ Goto(r, p, "done")
  /\ units' = [units EXCEPT ![r][p] = task[r][p].ver]
  /\ UNCHANGED <<phase, mode, wt, failed>>

Busy(r) == {p \in Paths : task[r][p].st \notin Ended \cup {"idle", "todo"}}

\* Mutant of OpenText: the edges of a version that is up to date are not replaced.
OpenTextAfterCheck(r, p, v) ==
  /\ deps' = IF UpToDate(<<p, v>>) THEN deps ELSE [deps EXCEPT ![p] = v]
  /\ task' = [task EXCEPT ![r][p] = [NoTask EXCEPT !.st = "check", !.ver = v]]
  /\ UNCHANGED <<run, errs>>

\* InsertFileDependencies, the first thing done with a text.
OpenText(r, p, v) ==
  /\ deps' = [deps EXCEPT ![p] = v]
  /\ task' = [task EXCEPT ![r][p] = [NoTask EXCEPT !.st = "check", !.ver = v]]
  /\ UNCHANGED <<run, errs>>

\* The file is read.  A sealed one is left for unlock, which may have the password.
Open(r, p) ==
  LET c == disk[wt[r]][p] IN
  /\ task[r][p].st = "todo" /\ Cardinality(Busy(r)) < FileWorkers
  /\ \/ c \in Texts /\ OpenText(r, p, c)
     \/ c = Sealed /\ mode[r] = "unlock" /\ OpenText(r, p, Plain)
     \/ c = Sealed /\ Goto(r, p, "locked") /\ UNCHANGED <<deps, run, errs>>
     \/ c = Blank /\ mode[r] # "unlock" /\ Goto(r, p, "unlist") /\ UNCHANGED <<deps, run, errs>>
     \/ c = Blank /\ mode[r] = "unlock" /\ Fails(r, p) /\ UNCHANGED <<deps, errs>>
     \/ c = Absent /\ Fails(r, p) /\ UNCHANGED <<deps, errs>>
     \/ CallFails /\ Fails(r, p) /\ UNCHANGED deps
  /\ UNCHANGED <<disk, files, chunks, manifest, pend, edits, stops, history>>

\* FileUpToDate; --force does not ask, and an error counts as no.
Check(r, p) ==
  /\ task[r][p].st = "check"
  /\ \/ /\ mode[r] # "force" /\ UpToDate(<<p, task[r][p].ver>>)
        /\ Keep(r, p)
        /\ UNCHANGED errs
     \/ /\ mode[r] = "force" \/ ~UpToDate(<<p, task[r][p].ver>>)
        /\ Goto(r, p, "upsert")
        /\ UNCHANGED <<run, errs>>
     \/ /\ mode[r] # "force" /\ AllowRework /\ CallFails
        /\ Goto(r, p, "upsert")
        /\ UNCHANGED run
  /\ UNCHANGED <<disk, store, pend, edits, stops, history>>

\* UpsertFile
Upsert(r, p) ==
  /\ task[r][p].st = "upsert"
  /\ \/ /\ files' = files \cup {<<p, task[r][p].ver>>}
        /\ task' = [task EXCEPT ![r][p].st = "clear", ![r][p].live = TRUE]
        /\ UNCHANGED <<run, errs>>
     \/ CallFails /\ Fails(r, p) /\ UNCHANGED files
  /\ UNCHANGED <<disk, chunks, deps, manifest, pend, edits, stops, history>>

\* DeleteChunksForFile, before the new chunks are stored.
Clear(r, p) ==
  LET t == task[r][p] IN
  /\ t.st = "clear"
  /\ \/ /\ chunks' = IF t.live THEN [chunks EXCEPT ![<<p, t.ver>>] = NoChunks] ELSE chunks
        /\ Goto(r, p, "insert")
        /\ UNCHANGED <<run, errs>>
     \/ CallFails /\ Fails(r, p) /\ UNCHANGED chunks
  /\ UNCHANGED <<disk, files, deps, manifest, pend, edits, stops, history>>

\* One turn of embedAndInsert's loop.  A failed batch is counted and passed over;
\* an insert for a row that is gone fails on its foreign key.
Insert(r, p) ==
  LET t == task[r][p]
      size == Cardinality(Batch(t)) IN
  /\ t.st = "insert" /\ Batch(t) # {}
  /\ \/ /\ t.live
        /\ chunks' = [chunks EXCEPT ![<<p, t.ver>>] = Inserted(@, t)]
        /\ task' = [task EXCEPT ![r][p].next = t.next + size,
                                ![r][p].created = t.created + size]
        /\ UNCHANGED <<failed, errs>>
     \/ /\ IF t.live THEN CallFails ELSE UNCHANGED errs
        /\ task' = [task EXCEPT ![r][p].next = t.next + size]
        /\ failed' = [failed EXCEPT ![r] = TRUE]
        /\ UNCHANGED chunks
  /\ UNCHANGED <<disk, files, deps, manifest, pend, phase, mode, wt, units, edits, stops,
                 history>>

\* The end of indexUnit: the version is whole, or it is rolled back.
Stored(r, p) ==
  LET t == task[r][p] IN
  /\ t.st = "insert" /\ Batch(t) = {}
  /\ IF t.created < NChunks
       THEN Goto(r, p, "unchunk") /\ UNCHANGED run
       ELSE Keep(r, p)
  /\ UNCHANGED <<disk, store, pend, bounds, history>>

\* rollbackIncompleteUnit: the chunks, then the row.  Failures are only logged.
RemoveChunks(r, p) ==
  LET t == task[r][p] IN
  /\ t.st = "unchunk"
  /\ \/ /\ chunks' = IF t.live THEN [chunks EXCEPT ![<<p, t.ver>>] = NoChunks] ELSE chunks
        /\ UNCHANGED errs
     \/ CallFails /\ UNCHANGED chunks
  /\ Goto(r, p, "unfile")
  /\ UNCHANGED <<disk, files, deps, manifest, pend, run, edits, stops, history>>

RemoveRow(r, p) ==
  LET t == task[r][p]
      gone == IF t.live THEN {<<p, t.ver>>} ELSE {} IN
  /\ t.st = "unfile"
  /\ \/ /\ DropRows(gone)
        /\ task' = Orphan(gone, [task EXCEPT ![r][p].st = "done"])
        /\ UNCHANGED errs
     \/ CallFails /\ Goto(r, p, "done") /\ UNCHANGED <<files, chunks>>
  /\ UNCHANGED <<disk, deps, manifest, pend, run, edits, stops, history>>

\* removeFile, for a file without text: RemoveWorktreeFile, then the prune.
Unlist(r, p) ==
  /\ task[r][p].st = "unlist"
  /\ \/ /\ manifest' = [manifest EXCEPT ![wt[r]][p] = NoVersion]
        /\ Goto(r, p, "sweep")
        /\ UNCHANGED <<run, errs>>
     \/ CallFails /\ Fails(r, p) /\ UNCHANGED manifest
  /\ UNCHANGED <<disk, files, chunks, deps, pend, edits, stops, history>>

Sweep(r, p) ==
  /\ task[r][p].st = "sweep"
  /\ \/ /\ Prune([task EXCEPT ![r][p].st = "done"])
        /\ UNCHANGED <<run, errs>>
     \/ CallFails /\ Fails(r, p) /\ UNCHANGED store
  /\ UNCHANGED <<disk, pend, edits, stops, history>>

FileStep(r, p) ==
  \/ Open(r, p) \/ Check(r, p) \/ Upsert(r, p) \/ Clear(r, p) \/ Insert(r, p)
  \/ Stored(r, p) \/ RemoveChunks(r, p) \/ RemoveRow(r, p) \/ Unlist(r, p) \/ Sweep(r, p)

------------------------------------------------------------------------------
(* The end of a run *)

Enter(r, step) == phase' = [phase EXCEPT ![r] = step] /\ UNCHANGED <<mode, wt, units, failed>>

\* g.Wait returns.
FilesDone(r) ==
  /\ phase[r] = "files"
  /\ \A p \in Paths : task[r][p].st \in Ended
  /\ Enter(r, IF mode[r] = "unlock" THEN "finish" ELSE "manifest")
  /\ UNCHANGED <<disk, store, pend, task, bounds, history>>

\* recordWorktree: SetWorktreeFiles; its error skips the prune and is only logged.
SetManifest(r) ==
  LET w == wt[r] IN
  /\ phase[r] = "manifest"
  /\ \/ /\ manifest' = [manifest EXCEPT ![w] = units[r]]
        /\ current' = IF failed[r] \/ unseen[r] THEN current \ {w} ELSE current \cup {w}
        /\ Enter(r, "prune")
        /\ UNCHANGED errs
     \/ /\ CallFails
        /\ current' = current \ {w}
        /\ Enter(r, "finish")
        /\ UNCHANGED manifest
  /\ UNCHANGED <<disk, files, chunks, deps, pend, task, edits, stops, unseen, skipped>>

PruneVersions(r) ==
  /\ phase[r] = "prune"
  /\ \/ Prune(task) /\ UNCHANGED errs
     \/ CallFails /\ UNCHANGED <<store, task>>
  /\ Enter(r, "finish")
  /\ UNCHANGED <<disk, pend, edits, stops, history>>

With(r, step) == {<<wt[r], p>> : p \in {q \in Paths : task[r][q].st = step}}
Of(w) == {w} \X Paths

Unlocked(r) == IF mode[r] = "unlock" THEN With(r, "done") \cap pend ELSE {}

\* Mutant of Pending: what is still locked is forgotten too.
PendingForgotten(r) == IF mode[r] = "unlock" THEN {} ELSE With(r, "locked")

\* recordEncryptedPending replaces the list unless the run met no sealed file;
\* runUnlock takes off it the files a password opened.
Pending(r) ==
  IF mode[r] = "unlock" \/ With(r, "locked") = {} THEN pend \ Unlocked(r) ELSE With(r, "locked")

Finish(r) ==
  /\ phase[r] = "finish"
  /\ pend' = Pending(r)
  /\ skipped' = IF mode[r] = "unlock" THEN skipped \ Unlocked(r)
                                      ELSE (skipped \ Of(wt[r])) \cup With(r, "locked")
  /\ task' = [task EXCEPT ![r] = [p \in Paths |-> NoTask]]
  /\ Enter(r, "idle")
  /\ UNCHANGED <<disk, store, bounds, unseen, current>>

RunStep(r) ==
  \/ FilesDone(r) \/ SetManifest(r) \/ PruneVersions(r) \/ Finish(r)
  \/ \E p \in Paths : FileStep(r, p)

Next ==
  \/ \E w \in Worktrees, p \in Paths : Edit(w, p)
  \/ \E r \in Runners, w \in Worktrees : StartIndex(r, w) \/ StartUnlock(r, w)
  \/ \E r \in Runners : RunStep(r) \/ Stop(r)

Spec == Init /\ [][Next]_vars

------------------------------------------------------------------------------
(* Properties *)

Whole(v) == v \in files /\ \A c \in 1 .. NChunks : \E i \in Index : chunks[v][i] = c
AllIdle == \A r \in Runners : phase[r] = "idle"

\* Every version a worktree references is stored with all its chunks: what a
\* worktree can search is never a row that was pruned, rolled back or cut short,
\* at no point of a run and after none that failed or died.
ManifestComplete ==
  \A w \in Worktrees, p \in Paths :
    manifest[w][p] # NoVersion => Whole(<<p, manifest[w][p]>>)

\* ... at least when no run is going on ("records that worktree's manifest and
\* prunes file versions no worktree references", the comment on SetWorktree).
SettledManifestComplete == AllIdle => ManifestComplete

\* What a file's manifest entry should be.
Wanted(w, p) == IF disk[w][p] \in Texts THEN disk[w][p] ELSE NoVersion

\* After a run without an error, and until the next edit, a worktree's manifest is
\* its checkout: nothing stale, nothing missing, nothing left of deleted files.
ManifestCurrent ==
  \A w \in current, p \in Paths :
    (\A r \in Runners : wt[r] = w => task[r][p].st # "sweep")
      => manifest[w][p] = Wanted(w, p)

\* As long as nothing fails, only referenced versions stay stored when the runs are
\* over: the index does not grow with the history of the checkouts.
NothingLeaks ==
  (AllIdle /\ errs = 0 /\ stops = 0 /\ \A r \in Runners : mode[r] # "unlock")
    => \A v \in files : \E w \in Worktrees : manifest[w][v[1]] = v[2]

\* The dependency edges of the files of the worktree indexed last are those of the
\* content it has checked out, also for files that were skipped as up to date; as
\* long as no run is cut short between two files.
DependenciesCurrent ==
  \A w \in current :
    (AllIdle /\ stops = 0 /\ \A r \in Runners : wt[r] = w)
      => \A p \in Paths : Wanted(w, p) # NoVersion => deps[p] = Wanted(w, p)

\* While nothing fails, a file with text never leaves its worktree's manifest, also
\* when its text changes in the middle of a run.
NoFileVanishes ==
  [][\A w \in Worktrees, p \in Paths :
       manifest[w][p] # NoVersion /\ disk[w][p] \in Texts /\ errs' = 0
         => manifest'[w][p] # NoVersion]_vars

\* The chunks counted as created are stored ("created is how many were actually
\* stored", storeChunks): a version that went into a manifest entry is whole.
CreatedIsStored ==
  \A r \in Runners, p \in Paths :
    LET t == task[r][p] IN
    t.st = "insert" /\ t.live /\ Batch(t) = {} /\ t.created = NChunks
      => Whole(<<p, t.ver>>)

\* The pending list holds every file that the last run of its worktree skipped for
\* want of a password and that has not been unlocked since (package pending).
PendingKnowsSkipped == AllIdle => skipped \subseteq pend

------------------------------------------------------------------------------
(* Refinement *)

Seen(w) ==
  [p \in Paths |-> IF Whole(<<p, manifest[w][p]>>) THEN manifest[w][p] ELSE NoVersion]

View == INSTANCE WorktreeView WITH
          view <- [w \in Worktrees |-> Seen(w)],
          indexing <- {wt[r] : r \in {s \in Runners : phase[s] # "idle"}}

\* A search scoped to a worktree sees a snapshot that only its own runs replace:
\* storing, rolling back and pruning the shared versions never shows in the view
\* of a worktree.
ImplementsView == View!Spec
==============================================================================
