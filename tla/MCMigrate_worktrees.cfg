\* The index of a project with worktrees is migrated.
SPECIFICATION MigrateSpec
CONSTANTS
  doc = doc
  Files = {doc}
  Revisions = {1, 2}
  Chunks <- TwoEach
  Sensitive = {}
  Beside = TRUE
  MaxMoves = 3
INVARIANTS CopiedAsIs
CHECK_DEADLOCK FALSE
