SPECIFICATION Spec
CONSTANTS
  Bytes = {"a", "b"}
  MaxSize = 2
  MaxChunk = 2
  Declarations <- MCDeclarations
  Patches <- FixedChunks
  Requests = {r1}
  SessionIds = {s1, s2}
  MaxConcurrent = 2
  Ops = {"initiate", "chunk", "head", "abort", "complete"}
  FaultKinds = {}
  MaxFaults = 0
  Expiry = FALSE
  Null = Null
CHECK_DEADLOCK FALSE
INVARIANTS
  CounterReleased
