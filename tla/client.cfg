SPECIFICATION FairSpec
CONSTANTS
  Nodes = {a, b}
  Free = Free
  Zeroed = Zeroed
  GpuSlots = 2
  SweepEvery = 1
  MaxFrame = 2
INVARIANTS MirrorOK FramesShowTree QueueInSlab CallbackOwned
PROPERTIES QueueDrains
CHECK_DEADLOCK FALSE
