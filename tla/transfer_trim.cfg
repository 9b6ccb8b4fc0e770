SPECIFICATION Spec
CONSTANTS
  Subflows = {s1}
  StreamLen = 7
  MaxWrite = 7
  SegSize = 3
  SndBuf = 7
  AdvWnd = 4
  RcvBuf = 4
  DataCap = 2
  AckCap = 2
  DataRetries = 1
  EagerReader = TRUE
INVARIANTS
  UnackedIsMapped
CHECK_DEADLOCK FALSE
