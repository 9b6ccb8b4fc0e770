SPECIFICATION Spec
CONSTANTS
  Joins = {j1, j2}
  MaxSyn = 2
  MaxData = 1
  MaxFaults = 1
INVARIANT
  GetActiveSubflowEstablished
CHECK_DEADLOCK FALSE
