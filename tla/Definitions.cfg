\* One load at a time over an agent, three families and a root, with one edit.
SPECIFICATION Spec
CONSTANTS
  a = a
  f1 = f1
  f2 = f2
  f3 = f3
  Nil = Nil
  Missing = Missing
  Broken = Broken
  Agent = a
  Files <- MCFiles
  Refs <- MCRefs
  FileOf <- MCFileOf
  Contents <- MCContents
  Requests <- MCRequests
  MaxLayerDepth = 2
  MaxEdits = 1
CHECK_DEADLOCK FALSE
INVARIANTS
  TypeOK
  OneEditIsSeenWhole
