CONSTANTS
  t1 = t1
  t2 = t2
  None = None
  Abandoned = Abandoned
  Task <- MCTask
  Direction <- ReadWrite
  CanTimeOut = TRUE
  AbortsOnDeinit = TRUE
SPECIFICATION FairSpec
INVARIANTS TypeOK LockHeld DrainNeverBlocks EarlySignalIsLate
PROPERTY LockReleased
