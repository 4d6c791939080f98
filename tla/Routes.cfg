SPECIFICATION FairRoutesSpec
CONSTANTS
  Bytes = {"a", "b"}
  MaxSize = 2
  MaxChunk = 2
  Declarations <- MCDeclarations
  Patches <- AnyChunks
  Requests = {r1}
  SessionIds = {s1}
  MaxConcurrent = 1
  Ops = {"initiate", "chunk", "head", "abort", "complete"}
  FaultKinds = {"error", "crash"}
  MaxFaults = 2
  Expiry = TRUE
  Null = Null
CHECK_DEADLOCK FALSE
INVARIANTS
  RoutesInv
PROPERTIES
  GoneStaysGone
  ErrorsChangeNothing
  NotFoundAnswerTrue
  EveryCallAnswered
