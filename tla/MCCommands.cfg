\* Pushes in batches of one file by either mode; two commands, installs or upgrades at a time.
SPECIFICATION CommandsSpec
CONSTANTS
  Blank = Blank
  Absent = Absent
  NoPath = NoPath
  NoPush = NoPush
  Paths = {p1, p2}
  Docs = {}
  Texts = {t1, t2}
  Workers = {w1, w2}
  EmbedModes = {FALSE, TRUE}
  BatchSize = 1
  MaxPushes = 2
  MaxChanges = 1
  MaxFaults = 1
  Commands = {w1, w2}
  name1 = name1
  Names = {name1, name2}
  Owners = {proj}
  Answers = {few, many}
  Damaged = Damaged
  MaxRuns = 3
  MaxFlips = 1
  Installers = {w1, w2}
  Servers = {semidx, other}
  Values = {plain, pinned}
  Skills = {guide}
  MaxClock = 1
  MaxEdits = 3
  Tags <- Released
  Drafts <- Unpublished
  Running <- v12
  MaxTries = 2
  Unset = "unset"
  Default = "default"
  Given = "given"
  docA = docA
  docB = docB
  Files = {docA, docB}
  Revisions = {1, 2}
  Chunks <- Lengths
  Sensitive <- Secret
  Beside = FALSE
  MaxMoves = 5
INVARIANTS  ListsHonest EntriesKept BinaryKept ReportIsTrue CopiedAsIs
 
SYMMETRY Shared
CHECK_DEADLOCK FALSE
