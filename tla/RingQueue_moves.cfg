CONSTANTS
  Objects = {a, b}
  Values = {x, y}
  Default = x
  MaxItems = 3
SPECIFICATION Spec
INVARIANTS
  RingSound
PROPERTIES
  ImplementsFifo
