SPECIFICATION MCSpec
CONSTANTS
  Callers = {c1, c2, c3}
  MaxConcurrent = 2
  FaultKinds = {"error", "lost", "crash"}
  Depth = 4
INVARIANTS
  OvershootBounded
  CommittedBounded
