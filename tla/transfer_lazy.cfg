SPECIFICATION Spec
CONSTANTS
  Subflows = {s1, s2}
  StreamLen = 3
  MaxWrite = 3
  SegSize = 1
  SndBuf = 3
  AdvWnd = 2
  RcvBuf = 2
  DataCap = 1
  AckCap = 1
  DataRetries = 1
  EagerReader = FALSE
INVARIANTS
  NoByteLost
CHECK_DEADLOCK FALSE
