SPECIFICATION Spec
CONSTANTS
  p = p
  q = q
  Projects = {p, q}
  All = All
  NoRef = NoRef
  None = None
  Plans <- FewPlans
  Kinds <- FewKinds
  MaxSteps = 3
  LoopWindow = 10
  MaxRepeats = 2
  Capacity = 1
  MaxTurns <- FewTurns
  KeepTurns = 1
  MaxSwitches <- FewSwitches
  MaxFailures = 1
INVARIANTS  MemoryWhole
PROPERTIES TurnsEnd
CHECK_DEADLOCK FALSE
