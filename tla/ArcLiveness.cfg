\* Two runs, perhaps on one session, compete for the only slot of the worker; fairness.
SPECIFICATION FairSpec
CONSTANTS
  Runs = {r1, r2}
  Sessions = {s1, s2}
  NoSession = NoSession
  Leaves = {l1}
  NoLeaf = NoLeaf
  Spawn = FALSE
  SessionsSurvive = TRUE
  ShareSessions = TRUE
  MaxParkLoops = 1
  Concurrency = 1
  MaxCrashes = 0
  MaxFaults = 1
CHECK_DEADLOCK FALSE
PROPERTIES
  RunsComeToRest
  WakesAreServed
