\* One server process at a time, two workers, a crash or a shutdown with its
\* restart, a failing statement; notifications may stop.
SPECIFICATION FairSpec
CONSTANTS
  Servers = {s1}
  Slots = {a, b}
  Projects = {p}
  MaxJobs = 2
  MaxCrashes = 1
  MaxStoreErrs = 1
  AllowReplicas = FALSE
INVARIANTS OneRunner
PROPERTIES ImplementsLedger 
