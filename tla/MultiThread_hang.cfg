CONSTANTS
  ChunkSize = 2
  ChunkAmount = 2
  FileSize = 5
  Faults = {}
SPECIFICATION FairSpec
PROPERTY BothThreadsJoin
CHECK_DEADLOCK FALSE
