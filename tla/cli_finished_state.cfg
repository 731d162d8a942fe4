CONSTANTS
  Char <- Characters
  Keyboards <- Browsing
  InputCap = 2
  HistCap = 5
  Stale <- Zeroed
SPECIFICATION Spec
PROPERTY NothingToHandle
