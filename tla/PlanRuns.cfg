\* Plans of three nodes, cyclic and dangling ones too; a crash or
\* a spawn error and a cancel at any point; leaves in-process or spawned.
SPECIFICATION FairSpec
CONSTANTS
  i1 = i1
  i2 = i2
  i3 = i3
  s1 = s1
  NoSession = NoSession
  Ids <- MCIds
  Sessions = {s1}
  Contested = {s1}
  Plans <- MCPlans
  SpawnModes = {TRUE, FALSE}
  MaxMishaps = 1
CHECK_DEADLOCK FALSE
INVARIANTS
  TypeOK
  CompletedIsSettled
  BegunOncePerExecution
PROPERTIES
  ImplementsDag
  RecordedIsFinal
  PlanEnds
