SPECIFICATION FairSession
CONSTANTS
  v4 = v4
  v6 = v6
  r1 = r1
  r2 = r2
  Versions = {v4, v6}
  Routes = {r1, r2}
  Messages <- MCMessages
  Seed <- MCSeed
  Capacity = 1
  MaxLog = 2
  Conns = {c1}
  MaxChunk = 2
  MaxRequests = 2
  Lagged = Lagged
  Asked = v4
  MaxLives = 2
INVARIANTS InSync ClientInSync
PROPERTIES Converges RequestsRead SnapshotComes
CHECK_DEADLOCK FALSE
