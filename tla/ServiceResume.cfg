SPECIFICATION ResumeSpec
CONSTANTS
  Bytes = {"a", "b"}
  MaxSize = 2
  MaxChunk = 2
  Declarations <- MCDeclarations
  Patches <- FixedChunks
  Requests = {r1, r2}
  SessionIds = {s1}
  MaxConcurrent = 1
  Ops = {"initiate", "chunk", "abort", "complete"}
  FaultKinds = {"error", "lost", "crash"}
  MaxFaults = 1
  Expiry = TRUE
  Null = Null
CHECK_DEADLOCK FALSE
INVARIANTS
  PublishedFileIntact
  ChunksMatchManifest
PROPERTIES
  RequestsEnd
  UploadConverges
