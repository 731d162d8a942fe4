CONSTANTS
  t1 = t1
  t2 = t2
  Nobody = Nobody
  Task <- MCTask
  Op <- Reads
  CanTimeOut = FALSE
  MayFail = FALSE
SPECIFICATION UntimedSpec
PROPERTY ReadReturns
CHECK_DEADLOCK FALSE
