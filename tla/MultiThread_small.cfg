CONSTANTS
  ChunkSize = 2
  ChunkAmount = 3
  FileSize = 5
  Faults = {"reader", "writer"}
SPECIFICATION FairSpec
INVARIANT SmallFileKeepsPrefix
PROPERTY BothThreadsJoin
