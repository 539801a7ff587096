CONSTANTS
  ChunkSize = 2
  FileSize = 7
  SemaphoreMax = 3
  Faults = {"server", "client", "memory"}
SPECIFICATION FairSpec
INVARIANTS
  TypeOK
  MappedAlone
  DamageIsOneChunk
  OnlyLastChunkLost
PROPERTIES
  StepsOfAPair
  ServerIsServed
  ClientFollowsServer
CHECK_DEADLOCK FALSE
