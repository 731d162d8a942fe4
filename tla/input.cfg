CONSTANTS
  a = a
  b = b
  Char <- MCChar
  InputCap = 4
SPECIFICATION Spec
INVARIANTS TypeOK NoOverrun
PROPERTY RefinesLineEdit
