SPECIFICATION FairSpec
CONSTANTS
  Subflows = {s1}
  StreamLen = 2
  MaxWrite = 2
  SegSize = 1
  SndBuf = 2
  AdvWnd = 1
  RcvBuf = 2
  DataCap = 1
  AckCap = 3
  DataRetries = 1
  EagerReader = TRUE
PROPERTIES
  WrittenIsDelivered
CHECK_DEADLOCK FALSE
