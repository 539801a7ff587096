CONSTANTS
  ChunkSize = 3
  ChunkAmount = 2
  FileSize = 13
  Faults = {"reader", "writer"}
SPECIFICATION FairSpec
INVARIANTS
  TypeOK
  NoSlotRace
  RingInv
  DeliveredInOrder
  PauseCostsAByte
PROPERTIES
  ImplementsChannel
  StopEndsWriter
CHECK_DEADLOCK FALSE
