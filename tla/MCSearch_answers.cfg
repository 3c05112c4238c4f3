\* A project of two worktrees, its index runs beside the search; two projects at once; the project of a question.
SPECIFICATION MCSpec
CONSTANTS
  fa = fa
  fb = fb
  fc = fc
  Paths = {fa, fb, fc}
  Trees = {t1, t2}
  Main = t1
  NoTree = NoTree
  Hashes = {h1, h2}
  Absent = Absent
  NoHop = NoHop
  MaxLevel = 2
  MaxDepth = 2
  MaxPaths = 1
  Tracked = {fa, fb}
  Edited = {fa}
  Graphs <- Chains
  TopK = 2
  Modes = {"hybrid", "vector", "keyword", "routed"}
  Models = {"project", "other"}
  Inferred = "other"
  OtherTable = FALSE
  MaxEdits = 1
  MaxErrs = 1
  g1 = g1
  g2 = g2
  Labels = {p, q}
  Chunks <- TwoFiles
  Scores = {1, 2}
  Wanted = 2
  PerFile = 1
  PerProject = 0
  MaxScopes = 2
  MaxList = 2
  Dirs <- World
  Repos <- Origins
  NoOrigin = NoOrigin
  Order <- ListOrder
  Folded <- LowerCase
  OnBranch <- DevBranch
  Catalogs <- UpToTwo
  StartDirs <- Starts
  ServerDir <- Server
  Explicit = {{"ask", "git", "graph"}}
  Refs <- Asked
  Groups <- Pairs
  Defaults <- Preset
INVARIANTS   ExpansionExact HereIsHere NamedIsMeant
PROPERTIES EverythingEnds
CHECK_DEADLOCK FALSE
