\* The words stand for themselves; the sizes are those of the code, scaled down; two
\* providers, the second one local, and two callers.
SPECIFICATION PipelineSpec
CONSTANTS
  Texts <- ChunkedTexts
  Outlines <- FoundOutlines
  MaxChars = 8
  Overlap = 2
  Prefix = 3
  MaxToken = 13
  MaxPerFile = 3
  Files <- SomeFiles
  Archives <- SomeArchives
  Limit <- EntryLimits
  EntryCap <- EntryCaps
  TotalCap = 12
  MaxDepth = 2
  MaxTries = 2
  Codebases <- AnalyzedProjects
  Queries <- AskedOf
  Remainder <- NameRests
  SourceRoots = {"src", "lib"}
  StdModules = {"os"}
  ImpactDepth = 2
  ImpactCap = 3
  PathDepth = 3
  PathCap = 4
  WalkDepth = 2
  WalkCap = 3
  MaxVisits = 5
  MaxEdges = 5
  NProviders = 2
  Locals = {2}
  Callers = {a, b}
  Threshold = 2
  MaxRetries = 1
  AllowLostProbes = FALSE
  MaxFlips = 2
  Blank = Blank
  Absent = Absent
  NoVersion = NoVersion
  RootPaths = {pathA}
  SubPaths = {pathB}
  Bodies = {t1, t2}
  Callbacks = {k, l}
  MaxChanges = 3
INVARIANTS NoChangeLost  ChunksFaithful UnitsFaithful GraphTrue
PROPERTIES  CatchesUp
CHECK_DEADLOCK FALSE
