SPECIFICATION Spec
CONSTANTS
  v4 = v4
  v6 = v6
  r1 = r1
  r2 = r2
  Versions = {v4, v6}
  Routes = {r1, r2}
  Messages <- MCMessages
  Seed <- MCSeed
  Capacity = 2
  MaxLog = 3
  Conns = {c1}
  MaxChunk = 2
  MaxRequests = 2
  Lagged = Lagged
INVARIANT UpToDate
CHECK_DEADLOCK FALSE
