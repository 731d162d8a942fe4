CONSTANTS
  t1 = t1
  t2 = t2
  Nobody = Nobody
  Task <- MCTask
  Op <- Duplex
  CanTimeOut = TRUE
  MayFail = TRUE
SPECIFICATION TimedSpec
INVARIANTS TypeOK LockHeld ReadyAtStart
PROPERTIES QuietStartIsHonest LockReleased
