SPECIFICATION LookupFairSpec
CONSTANTS
  MaxLen = 3
  n1 = n1
  n2 = n2
  n3 = n3
  n4 = n4
  None = None
  Idx <- MCIdx
  Keys <- MCKeys
  Timestamps = {1}
INVARIANTS LongestMatch LookupMatchesRoutes
PROPERTIES LookupReturns CallReturns
CHECK_DEADLOCK FALSE
