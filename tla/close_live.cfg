SPECIFICATION FairSpec
CONSTANTS
  a = a
  b = b
  Hosts = {a, b}
  OfA = 1
  OfB = 0
  CapA = 1
  CapB = 1
  DataRetries = 1
  Limit <- MCLimit
  LinkCap <- MCLinkCap
CHECK_DEADLOCK FALSE
PROPERTY FinArrives
