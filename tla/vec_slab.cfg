SPECIFICATION Spec
CONSTANTS
  Capacity = 4
  Values = {d, x}
  Default = d
INVARIANTS FreeListSound LenExact IteratesHeld
PROPERTY ImplementsSlab
