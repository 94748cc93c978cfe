\* Two recipes, perhaps on one run id, with three engage calls and an interrupt.
SPECIFICATION LiveSpec
CONSTANTS
  Presences = {p1, p2}
  Calls = {c1, c2, c3}
  Aborts = {i1}
  RunIds = {k1}
  NoCall = NoCall
  NoPresence = NoPresence
  NoRunId = NoRunId
  EarlyPrompt = TRUE
  EmitsIdle = {TRUE, FALSE}
SYMMETRY Symmetry
CHECK_DEADLOCK FALSE
INVARIANTS
  LiveTypeOK
  OneEngagement
  RegisteredIsLive
PROPERTIES
  NoTurnAfterDispose
