CONSTANTS
  ChunkSize = 2
  ChunkAmount = 2
  FileSize = 3
  Faults = {}
SPECIFICATION Spec
INVARIANT DestinationIsSource

