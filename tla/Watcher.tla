--------------------------------- MODULE Watcher ---------------------------------
(***************************************************************************)
(* `semidx index --watch` (internal/indexing/watcher.go): after the first  *)
(* index of a tree one goroutine handles the file system's events in turn. *)
(* A created file is indexed and a removed one deleted there and then; a   *)
(* write arms the file's timer anew, and a timer that fires indexes the    *)
(* file in a goroutine of its own, beside the event loop and the others.   *)
(*                                                                         *)
(* Indexing a file is reading it and then storing what was read, with all  *)
(* the store calls of WorktreeIndex as one: here the steps of several      *)
(* files meet, there those of one.                                         *)
(***************************************************************************)
EXTENDS Naturals, Sequences

CONSTANTS
  RootPaths,   \* files in directories that are there from the start
  SubPaths,    \* files of a directory that is made later
  Bodies,      \* contents with text
  Blank,       \* content without text
  Absent,      \* there is no such file
  NoVersion,   \* no manifest entry
  Callbacks,   \* bound: timer callbacks that run at a time
  MaxChanges   \* bound: changes to the tree

Paths == RootPaths \cup SubPaths
Contents == Bodies \cup {Blank}
Loop == "loop"
Tasks == Callbacks \cup {Loop}
SubDir == "sub"

ASSUME ChangesAssumption == MaxChanges \in Nat
ASSUME PathsAssumption == RootPaths \cap SubPaths = {} /\ SubDir \notin Paths
ASSUME ContentsAssumption == Blank \notin Bodies /\ Absent \notin Contents

VARIABLES
  inWorktree,  \* the project is a git worktree, with a manifest
  disk,        \* the content of each file
  made,        \* has the later directory been made?
  watchRoot, watchSub,  \* the directories fsnotify reports on
  events,      \* what it has reported and the loop has not handled
  armed,       \* files whose debounce timer runs
  task,        \* what the loop and the callbacks are doing
  rows,        \* the stored versions
  manifest,    \* the version of each file in worktree_files
  changes,
  missed,      \* history: files whose last change was not reported
  raced        \* history: files whose last re-index or removal overlapped another one

tree == <<disk, made, watchRoot, watchSub, changes, missed>>
index == <<rows, manifest>>
watchVars == <<inWorktree, tree, events, armed, task, index, raced>>

Steps == {"idle", "fired", "open", "store", "drop", "sweep"}
\* latest: the timer that fired is still the one in debounceTimers.
Idle == [st |-> "idle", path |-> SubDir, text |-> Blank, latest |-> FALSE]

WatchTypeOK ==
  /\ inWorktree \in BOOLEAN /\ made \in BOOLEAN
  /\ watchRoot \in BOOLEAN /\ watchSub \in BOOLEAN
  /\ disk \in [Paths -> Contents \cup {Absent}]
  /\ events \in Seq([op : {"create", "write", "remove"}, path : Paths \cup {SubDir}])
  /\ armed \subseteq Paths
  /\ task \in [Tasks -> [st : Steps, path : Paths \cup {SubDir}, text : Contents,
                         latest : BOOLEAN]]
  /\ rows \subseteq Paths \X Bodies
  /\ manifest \in [Paths -> Bodies \cup {NoVersion}]
  /\ changes \in 0 .. MaxChanges
  /\ missed \subseteq Paths /\ raced \subseteq Paths

\* IndexProject has just returned, without an error.
WatchInit ==
  /\ inWorktree \in BOOLEAN
  /\ disk \in {d \in [Paths -> Contents \cup {Absent}] : \A p \in SubPaths : d[p] = Absent}
  /\ made = FALSE /\ watchRoot = FALSE /\ watchSub = FALSE
  /\ events = <<>> /\ armed = {}
  /\ task = [t \in Tasks |-> Idle]
  /\ rows = {v \in Paths \X Bodies : disk[v[1]] = v[2]}
  /\ manifest = [p \in Paths |->
                   IF inWorktree /\ disk[p] \in Bodies THEN disk[p] ELSE NoVersion]
  /\ changes = 0 /\ missed = {} /\ raced = {}

------------------------------------------------------------------------------
(* The tree, and fsnotify *)

Watched(p) == IF p \in SubPaths THEN watchSub ELSE watchRoot

Report(o, p) == Append(events, [op |-> o, path |-> p])

\* A file that is there is written to, or replaced by another one renamed onto it.
Notices(p, c) ==
  CASE c = Absent -> {"remove"}
    [] disk[p] = Absent -> {"create"}
    [] OTHER -> {"write", "create"}

Change(p, c) ==
  /\ changes < MaxChanges
  /\ changes' = changes + 1
  /\ c # disk[p] /\ (p \in SubPaths => made)
  /\ disk' = [disk EXCEPT ![p] = c]
  /\ IF Watched(p)
       THEN /\ \E o \in Notices(p, c) : events' = Report(o, p)
            /\ missed' = missed \ {p}
       ELSE missed' = missed \cup {p} /\ UNCHANGED events
  /\ UNCHANGED <<inWorktree, made, watchRoot, watchSub, armed, task, index, raced>>

MakeDir ==
  /\ SubPaths # {} /\ ~made
  /\ made' = TRUE
  /\ events' = IF watchRoot THEN Report("create", SubDir) ELSE events
  /\ UNCHANGED <<inWorktree, disk, watchRoot, watchSub, changes, missed, armed, task, index,
                 raced>>

\* addDirs: the directories that are there when Watch starts.
Watch ==
  /\ ~watchRoot
  /\ watchRoot' = TRUE /\ watchSub' = made
  /\ UNCHANGED <<inWorktree, disk, made, changes, missed, events, armed, task, index, raced>>

\* History: t starts on p, alone or while another task is at it.
Marked(t, p) ==
  IF \E u \in Tasks \ {t} : task[u].path = p /\ task[u].st \in {"store", "drop"}
    THEN raced \cup {p} ELSE raced \ {p}

------------------------------------------------------------------------------
(* The event loop *)

Takes(t, step, p) == task' = [task EXCEPT ![t] = [Idle EXCEPT !.st = step, !.path = p]]

\* Callbacks of p that have fired and not yet taken the mutex are superseded.
Supersede(p) ==
  [t \in Tasks |-> IF task[t].st = "fired" /\ task[t].path = p
                     THEN [task[t] EXCEPT !.latest = FALSE] ELSE task[t]]

\* Mutant of Debounce: a write is dropped while the file is being re-indexed.
DebounceUnlessBusy(p) ==
  /\ armed' = IF \E t \in Callbacks : task[t].st # "idle" /\ task[t].path = p
                THEN armed ELSE armed \cup {p}
  /\ task' = Supersede(p)

\* debounce: the timer of an earlier write is stopped, or finds itself superseded.
Debounce(p) ==
  /\ armed' = armed \cup {p}
  /\ task' = Supersede(p)

\* handleEvent
HandleEvent ==
  LET e == Head(events) IN
  /\ task[Loop].st = "idle" /\ events # <<>>
  /\ events' = Tail(events)
  /\ \/ e.op = "create" /\ e.path = SubDir /\ watchSub' = TRUE
        /\ UNCHANGED <<armed, task, raced>>
     \/ e.op = "create" /\ e.path # SubDir /\ Takes(Loop, "open", e.path)
        /\ UNCHANGED <<watchSub, armed, raced>>
     \/ e.op = "write" /\ Debounce(e.path)
        /\ UNCHANGED <<watchSub, raced>>
     \/ e.op = "remove" /\ Takes(Loop, "drop", e.path) /\ raced' = Marked(Loop, e.path)
        /\ UNCHANGED <<watchSub, armed>>
  /\ UNCHANGED <<inWorktree, disk, made, watchRoot, changes, missed, index>>

------------------------------------------------------------------------------
(* The timers *)

\* The debounce window ends.
Fire(k, p) ==
  /\ p \in armed /\ task[k].st = "idle"
  /\ armed' = armed \ {p}
  /\ task' = [task EXCEPT ![k] = [Idle EXCEPT !.st = "fired", !.path = p, !.latest = TRUE]]
  /\ UNCHANGED <<inWorktree, tree, events, index, raced>>

\* Mutant of Lock: a superseded callback returns without releasing the mutex.
LockKept(k) ==
  /\ task[k].st = "fired" /\ task[k].latest
  /\ Takes(k, "open", task[k].path)
  /\ UNCHANGED <<inWorktree, tree, events, armed, index, raced>>

\* The callback has the mutex: it goes on only if no later timer has replaced its own.
Lock(k) ==
  /\ task[k].st = "fired"
  /\ \/ task[k].latest /\ Takes(k, "open", task[k].path)
     \/ ~task[k].latest /\ task' = [task EXCEPT ![k] = Idle]
  /\ UNCHANGED <<inWorktree, tree, events, armed, index, raced>>

------------------------------------------------------------------------------
(* Indexing one file, in the loop or in a callback *)

Finishes(t) == task' = [task EXCEPT ![t] = Idle]

\* handleCreate, indexFile: read the file; a missing one is an error that is logged.
Open(t) ==
  LET p == task[t].path IN
  /\ task[t].st = "open"
  /\ \/ disk[p] \in Bodies
        /\ task' = [task EXCEPT ![t].st = "store", ![t].text = disk[p]]
     \/ disk[p] = Blank /\ Takes(t, "drop", p)
     \/ disk[p] = Absent /\ Finishes(t)
  /\ raced' = IF disk[p] = Absent THEN raced ELSE Marked(t, p)
  /\ UNCHANGED <<inWorktree, tree, events, armed, index>>

\* indexUnit; handleCreate drops the units indexFile returns.
Store(t) ==
  /\ task[t].st = "store"
  /\ rows' = rows \cup {<<task[t].path, task[t].text>>}
  /\ Finishes(t)
  /\ UNCHANGED <<inWorktree, tree, events, armed, manifest, raced>>

VersionsOf(p) == {v \in rows : v[1] = p}

\* removeFile: DeleteFileByPath, or RemoveWorktreeFile.
DropFile(t) ==
  LET p == task[t].path IN
  /\ task[t].st = "drop"
  /\ IF inWorktree
       THEN /\ manifest' = [manifest EXCEPT ![p] = NoVersion]
            /\ Takes(t, "sweep", p)
            /\ UNCHANGED rows
       ELSE /\ rows' = rows \ VersionsOf(p)
            /\ Finishes(t)
            /\ UNCHANGED manifest
  /\ UNCHANGED <<inWorktree, tree, events, armed, raced>>

Unreferenced(p) == {v \in rows : manifest[v[1]] # v[2]}

\* removeFile in a worktree, its second half: PruneUnreferencedFiles.
Sweep(t) ==
  /\ task[t].st = "sweep"
  /\ rows' = rows \ Unreferenced(task[t].path)
  /\ Finishes(t)
  /\ UNCHANGED <<inWorktree, tree, events, armed, manifest, raced>>

TaskStep(t) == Open(t) \/ Store(t) \/ DropFile(t) \/ Sweep(t)

WatchNext ==
  \/ \E p \in Paths, c \in Contents \cup {Absent} : Change(p, c)
  \/ MakeDir \/ Watch \/ HandleEvent
  \/ \E k \in Callbacks, p \in Paths : Fire(k, p)
  \/ \E k \in Callbacks : Lock(k)
  \/ \E t \in Tasks : TaskStep(t)

WatchSpec == WatchInit /\ [][WatchNext]_watchVars

\* Goroutines run, timers fire and calls return.
WatchFairness ==
  /\ WF_watchVars(Watch) /\ WF_watchVars(HandleEvent)
  /\ \A p \in Paths : WF_watchVars(\E k \in Callbacks : Fire(k, p))
  /\ \A k \in Callbacks : WF_watchVars(Lock(k))
  /\ \A t \in Tasks : WF_watchVars(TaskStep(t))

FairWatch == WatchSpec /\ WatchFairness

------------------------------------------------------------------------------
(* Properties *)

\* Everything reported has been handled.
Quiet ==
  watchRoot /\ events = <<>> /\ armed = {} /\ \A t \in Tasks : task[t].st = "idle"

\* In a folder without a worktree no reported change is lost: once all is quiet,
\* every file with text has its present version stored and a file that was removed
\* or emptied has none, however its writes, timers, removals and re-creations
\* overtook each other, unless two tasks were at the file at once and the one that
\* had read the older content came last.
NoChangeLost ==
  ~inWorktree /\ Quiet =>
    \A p \in Paths \ (missed \cup raced) :
      IF disk[p] \in Bodies THEN <<p, disk[p]>> \in rows ELSE VersionsOf(p) = {}

\* In a worktree, what the manifest references is never pruned, whatever is removed.
ManifestKept ==
  inWorktree => \A p \in Paths : manifest[p] # NoVersion => <<p, manifest[p]>> \in rows

\* The watcher catches up: after every change it comes to rest again.
CatchesUp == []<>Quiet

\* In a worktree, once all is quiet, its manifest has the present version of every
\* file ("Watcher watches a project directory tree for file changes and re-indexes
\* them"): a search in the worktree finds what was written.
FoundInWorktree ==
  inWorktree /\ Quiet => \A p \in Paths \ missed : disk[p] \in Bodies => manifest[p] = disk[p]
==============================================================================
