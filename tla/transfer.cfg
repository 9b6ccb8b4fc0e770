SPECIFICATION Spec
CONSTANTS
  Subflows = {s1, s2}
  StreamLen = 4
  MaxWrite = 2
  SegSize = 2
  SndBuf = 4
  AdvWnd = 2
  RcvBuf = 2
  DataCap = 2
  AckCap = 1
  DataRetries = 1
  EagerReader = TRUE
SYMMETRY Symmetry
INVARIANTS
  TypeOK
  FreedWasReceived
  UnackedIsMapped
  MappingCoversPacket
  MappedOnce
  NoByteLost
  WindowOvershoot
  SegmentTakenWhole
PROPERTIES
  StreamSpec
CHECK_DEADLOCK FALSE
