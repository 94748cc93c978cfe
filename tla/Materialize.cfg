\* Two of three calls at a time, with an edit of the definition and a publish.
SPECIFICATION Spec
CONSTANTS
  Calls = {c1, c2}
  s1 = s1
  s2 = s2
  r1 = r1
  r2 = r2
  Sessions = {s1, s2}
  Runs = {r1, r2}
  Ids = {"x", "y"}
  Kinds = {"pi", "prime"}
  DefaultEngine = "pi"
  Fragile = {"prime"}
  Sources = {"internal", "explicit"}
  Nil = Nil
  Definitions <- MCDefinitions
  FsLayouts <- MCFsLayouts
  Artifacts <- MCArtifacts
  Requests <- MCRequests
  Persistence = {TRUE, FALSE}
  MaxCalls = 3
  MaxEdits = 1
  MaxPublishes = 1
  MaxLoads = 3
SYMMETRY Symmetry
CHECK_DEADLOCK FALSE
INVARIANTS
  TypeOK
  SnapshotReentersAddNothing
  OpenedAsDefined
  LoadsAreSharedAndRetried
