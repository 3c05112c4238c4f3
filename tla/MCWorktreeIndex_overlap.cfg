SPECIFICATION Spec
CONSTANTS
  A = A
  p = p
  t1 = t1
  t2 = t2
  r1 = r1
  r2 = r2
  Blank = Blank
  Sealed = Sealed
  Plain = Plain
  Absent = Absent
  NoVersion = NoVersion
  Worktrees = {A}
  Paths = {p}
  Texts = {t1, t2}
  Specials = {Blank, Sealed, Absent}
  Runners = {r1, r2}
  FileWorkers = 2
  NChunks = 1
  BatchSize = 1
  AllowRework = TRUE
  MaxEdits = 1
  MaxErrs = 2
  MaxStops = 0
SYMMETRY NameSymmetry
INVARIANTS NothingLeaks  
