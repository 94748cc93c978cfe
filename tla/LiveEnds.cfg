\* One recipe and its owner, three engage calls and an interrupt; fairness.
SPECIFICATION FairLiveSpec
CONSTANTS
  Presences = {p1}
  Calls = {c1, c2, c3}
  Aborts = {i1}
  RunIds = {k1}
  NoCall = NoCall
  NoPresence = NoPresence
  NoRunId = NoRunId
  EarlyPrompt = TRUE
  EmitsIdle = {TRUE, FALSE}
CHECK_DEADLOCK FALSE
PROPERTIES
  EngagementsEnd
