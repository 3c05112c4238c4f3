\* The documented precedence, against what a command really opens.
SPECIFICATION BackendSpec
CONSTANTS
  Unset = "unset"
  Default = "default"
  Given = "given"
INVARIANTS AsConfigured
CHECK_DEADLOCK FALSE
