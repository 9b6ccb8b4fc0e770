SPECIFICATION FairSpec
CONSTANTS
  Subflows = {s1, s2}
  StreamLen = 2
  MaxWrite = 2
  SegSize = 1
  SndBuf = 2
  AdvWnd = 2
  RcvBuf = 2
  DataCap = 2
  AckCap = 3
  DataRetries = 2
  EagerReader = FALSE
PROPERTIES
  MappedIsDelivered
CHECK_DEADLOCK FALSE
