CONSTANTS
  t1 = t1
  t2 = t2
  Task <- MCTask
  max_open_files = 2
  Flags <- MCFlags
SYMMETRY MCSymmetry
SPECIFICATION Spec
INVARIANTS TypeOK DescriptorsUnique SlotsAccounted LfsFilesUsable
PROPERTIES HeldReachesLfs FullWhenRefused
