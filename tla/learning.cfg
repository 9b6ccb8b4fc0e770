SPECIFICATION FairSpec
CONSTANTS
  Schedulers = {0, 1}
  MaxEpisode = 2
  SwitchInterval = 1
  MemorySize = 3
  LearnAfter = 0
  LearnEvery = 1
  MaxRecords = 4
  MaxAcked = 1
CHECK_DEADLOCK FALSE
INVARIANTS
  TypeOK
  RecordsIntact
  SchedulerRecorded
  TransitionsTrue
  LearnsFromStored
  EpisodesAgree
  NobodyStranded
PROPERTIES
  LoopSpec
  Finishes
