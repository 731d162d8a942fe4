CONSTANTS
  t1 = t1
  t2 = t2
  None = None
  Task <- MCTask
  Size = 5
  Threshold = 2
  Bodies <- MCBodies
  Level <- MCLevel
  MaxLog = 3
  MaxSet = 2
SYMMETRY MCSymmetry
SPECIFICATION Spec
INVARIANTS TypeOK OneWriter
PROPERTIES CutOnlyByBurst SettingKept RefinesLogStream
