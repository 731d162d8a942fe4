CONSTANTS
  a = a
  b = b
  Value <- MCValue
  Capacity = 2
  MaxSpan = 5
  SizeMod = 16
SPECIFICATION Spec
INVARIANT StaysInStorage
CHECK_DEADLOCK FALSE
