SPECIFICATION CompletingSpec
CONSTANTS
  Bytes = {"a", "b"}
  MaxSize = 2
  MaxChunk = 2
  Declarations <- MCDeclarations
  Patches <- AnyChunks
  Requests = {r1}
  SessionIds = {s1, s2}
  MaxConcurrent = 2
  Ops = {"initiate", "chunk", "head", "abort", "complete"}
  FaultKinds = {"error", "crash"}
  MaxFaults = 2
  Expiry = FALSE
  Null = Null
CHECK_DEADLOCK FALSE
INVARIANTS
  CounterCoversActive
  AcknowledgedIsKept
  CounterAccounts
  OneFilePerContent
PROPERTIES
  LifecycleSpec
  CompletionEnds
