CONSTANTS
  ChunkSize = 2
  FileSize = 3
  SemaphoreMax = 3
  Faults = {}
SPECIFICATION Spec
INVARIANTS
  AllBytesArrive
