SPECIFICATION Spec
CONSTANTS
  A = A
  B = B
  p = p
  q = q
  t1 = t1
  t2 = t2
  r1 = r1
  Blank = Blank
  Sealed = Sealed
  Plain = Plain
  Absent = Absent
  NoVersion = NoVersion
  Worktrees = {A, B}
  Paths = {p, q}
  Texts = {t1, t2}
  Specials = {}
  Runners = {r1}
  FileWorkers = 2
  NChunks = 2
  BatchSize = 2
  AllowRework = FALSE
  MaxEdits = 1
  MaxErrs = 1
  MaxStops = 1
SYMMETRY NameSymmetry
INVARIANTS  DependenciesCurrent
PROPERTIES ImplementsView
