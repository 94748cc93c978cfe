\* Leaves are child processes; the worker may crash and leave them as orphans.
SPECIFICATION Spec
CONSTANTS
  Runs = {r1}
  Sessions = {s1, s2, s3}
  NoSession = NoSession
  Leaves = {l1, l2}
  NoLeaf = NoLeaf
  Spawn = TRUE
  SessionsSurvive = TRUE
  ShareSessions = FALSE
  MaxParkLoops = 2
  Concurrency = 1
  MaxCrashes = 1
  MaxFaults = 1
SYMMETRY Symmetry
CHECK_DEADLOCK FALSE
INVARIANTS
  TypeOK
  CompletionWasNotified
PROPERTIES
  ImplementsLifecycle
