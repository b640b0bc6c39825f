SPECIFICATION FairSpec

CONSTANTS
  Requests = {r1, r2}
  Threshold = 5
  MaxRetries429 = 3
  MaxRetries5xx = 1

INVARIANTS
  TypeOK
  OpenAtThreshold
  LateBounded

PROPERTIES
  Recovers
  RequestsReturn
