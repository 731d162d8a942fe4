CONSTANTS
  a = a
  b = b
  Value <- MCValue
  Capacity = 4
  MaxSpan = 4
  SizeMod = 16
SPECIFICATION Spec
INVARIANTS TypeOK StaysInStorage Coherent
PROPERTY RefinesFifo
