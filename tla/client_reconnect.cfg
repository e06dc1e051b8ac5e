SPECIFICATION Spec
CONSTANTS
  Nodes = {a, b}
  Free = Free
  Zeroed = Zeroed
  GpuSlots = 2
  SweepEvery = 1
  MaxFrame = 2
INVARIANTS DrawingTakesOver
CHECK_DEADLOCK FALSE
