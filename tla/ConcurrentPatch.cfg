SPECIFICATION Spec
CONSTANTS
  Bytes = {"a", "b"}
  MaxSize = 2
  MaxChunk = 2
  Declarations <- MCDeclarations
  Patches <- FixedChunks
  Requests = {r1, r2}
  SessionIds = {s1}
  MaxConcurrent = 1
  Ops = {"initiate", "chunk"}
  FaultKinds = {}
  MaxFaults = 0
  Expiry = FALSE
  Null = Null
CHECK_DEADLOCK FALSE
PROPERTIES
  OffsetMonotonic
