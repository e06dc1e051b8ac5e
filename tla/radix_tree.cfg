SPECIFICATION HistorySpec
CONSTANTS
  MaxLen = 3
  n1 = n1
  n2 = n2
  n3 = n3
  n4 = n4
  n5 = n5
  None = None
  Idx <- MCIdx
  Keys <- MCKeys
  Timestamps = {1, 2}
SYMMETRY MCSymmetry
INVARIANTS TypeOK TrieOK NoLeak CountExact SweptClean InsertAnswer EveryChangeReported MaxToRootInOrder
PROPERTY ImplementsRouteMap
CHECK_DEADLOCK FALSE
