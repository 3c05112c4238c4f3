\* One repository, two workers and two edits at a time, one crash; two processes with the index.
SPECIFICATION GitStoreSpec
CONSTANTS
  u1 = u1
  host = host
  proj = proj
  Workers = {w1, w2}
  Admins = {a1, a2}
  Names = {proj}
  Urls = {u1}
  Hosts = {host}
  HostOf <- OneHost
  UrlOf <- FirstUrl
  MasterKeys = {k1}
  NoKey = NoKey
  None = None
  AllowReuse = FALSE
  AllowReplicas = FALSE
  MaxJobs = 2
  MaxPushes = 2
  MaxEdits = 3
  MaxCrashes = 1
  f1 = f1
  f2 = f2
  x = x
  y = y
  c1 = c1
  c2 = c2
  c3 = c3
  p1 = p1
  p2 = p2
  Clients = {c1, c2, c3}
  Procs = {p1, p2}
  Of <- TwoProcesses
  Versions = {f1, f2}
  LastChunk = 1
  VectorOf <- SharedVector
  NoVector = NoVector
  Score <- Closeness
  Words <- Tokens
  Substrings <- Parts
  TopK = 2
  NoClient = NoClient
  Ops = {"index", "search", "keywords", "delete", "manifest", "sweep", "gc"}
  MaxOps = 3
  MaxErrs = 1
INVARIANTS  KeysSwept DictionaryCovers NobodyStuck
SYMMETRY Symmetry
CHECK_DEADLOCK FALSE
