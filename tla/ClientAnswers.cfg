\* A client that wakes what getStatus says is parked, and sometimes too early on a notification.
SPECIFICATION FairClientSpec
CONSTANTS
  Runs = {r1}
  Sessions = {s1, s2}
  NoSession = NoSession
  Leaves = {l1}
  NoLeaf = NoLeaf
  Spawn = TRUE
  SessionsSurvive = TRUE
  ShareSessions = FALSE
  MaxParkLoops = 1
  Concurrency = 1
  MaxCrashes = 1
  MaxFaults = 1
  WakeOn = {"status", "notice"}
CHECK_DEADLOCK FALSE
INVARIANTS
  WaitTellsTheTruth
PROPERTIES
  AnsweredRunsEnd
