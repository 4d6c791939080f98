SPECIFICATION FairSpec
CONSTANTS
  Keys = {k1, k2, k3}
  MaxFaults = 2
  Torn = Torn
  Null = Null
  Clients = {c1}
  MaxTime = 2
  Lifetime = 2
  MaxShared = 2
  MaxFit = 1
CHECK_DEADLOCK FALSE
INVARIANTS
  AuthInv
  ServedPairMatches
  ConfiguredKeyIsServed
  RefusalJustified
  AdmittedInTime
PROPERTIES
  StubRecovers
