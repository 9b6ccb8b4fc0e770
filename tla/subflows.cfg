SPECIFICATION FairSpec
CONSTANTS
  Joins = {j1, j2}
  MaxSyn = 2
  MaxData = 2
  MaxFaults = 2
INVARIANTS
  TypeOK
  ActiveOnce
  PeerAgrees
  JoinNeverRefused
  GaveUpForReason
PROPERTIES
  SetupSpec
  HandshakeEnds
CHECK_DEADLOCK FALSE
