\* A file of a git worktree is changed while it is watched.
SPECIFICATION WatchSpec
CONSTANTS
  t1 = t1
  t2 = t2
  Blank = Blank
  Absent = Absent
  NoVersion = NoVersion
  a = a
  b = b
  RootPaths = {a}
  SubPaths = {b}
  Bodies = {t1, t2}
  Callbacks = {k}
  MaxChanges = 2
INVARIANTS FoundInWorktree
CHECK_DEADLOCK FALSE
