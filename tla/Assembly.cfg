SPECIFICATION FairSpec
CONSTANTS
  Calls = {c1, c2}
  Parts = {1, 2}
  Intact = {c1}
  MaxFaults = 2
  Null = Null
CHECK_DEADLOCK FALSE
INVARIANTS
  AssemblyInv
  ObjectIsWhole
  NoUploadLeft
PROPERTIES
  StoreSpec
  AssemblyEnds
