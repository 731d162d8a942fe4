CONSTANTS
  Char <- Characters
  Keyboards <- AllKeyboards
  InputCap = 3
  HistCap = 4
  Stale <- Unassigned
SPECIFICATION Spec
INVARIANT TypeOK
PROPERTIES ScreenInSync RecallShowsEntry EnteredLineKept
