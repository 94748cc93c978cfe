\* Leaves run in the worker process; the worker may crash, the store may fail.
SPECIFICATION Spec
CONSTANTS
  Runs = {r1, r2}
  Sessions = {s1, s2, s3}
  NoSession = NoSession
  Leaves = {l1, l2}
  NoLeaf = NoLeaf
  Spawn = FALSE
  SessionsSurvive = TRUE
  ShareSessions = FALSE
  MaxParkLoops = 1
  Concurrency = 2
  MaxCrashes = 1
  MaxFaults = 1
SYMMETRY Symmetry
CHECK_DEADLOCK FALSE
INVARIANTS
  SessionContinuity
  ParkedJoinIsResumable
  SettledIsRecorded
  OneLeafPerSession
  ParkLoopCap
  OneNotePerStep
