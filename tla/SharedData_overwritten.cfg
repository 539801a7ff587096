CONSTANTS
  ChunkSize = 2
  FileSize = 5
  SemaphoreMax = 3
  Faults = {}
SPECIFICATION Spec
INVARIANTS
  BytesInPlace
