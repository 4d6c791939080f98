SPECIFICATION FairSpec
CONSTANTS
  Calls = {c1, c2}
  FileOf <- SameFile
  MaxAttempts = 3
CHECK_DEADLOCK FALSE
INVARIANTS
  PublisherInv
  DuplicatesBounded
  BackoffBounded
PROPERTIES
  EndsAccounted
  DeliverySpec
  PublishEnds
