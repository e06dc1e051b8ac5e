SPECIFICATION FairSpec
CONSTANTS
  Capacity = 2
  MaxMessages = 4
  MaxInFlight = 3
  Files <- MCFiles
  Noise = Noise
  CloseFrame = CloseFrame
  ReadError = ReadError
INVARIANTS InOrder NothingLost StopsDrained
PROPERTIES KeepsReconnecting ShutdownEnds
CHECK_DEADLOCK FALSE
