CONSTANTS
  Clients = {k1}
  Files = 2
  Chunks = 2
  Faults = {"source", "name", "encrypt", "reader", "sigint", "destination", "reset", "accept", "stop"}
SPECIFICATION FairSpec
INVARIANTS
  TypeOK
  NoNullWriter
  ChunksInOrder
  WholeFiles
  ServerEndsForAReason
PROPERTIES
  ConnectionsAreClosed
  DeafServerReturns
CHECK_DEADLOCK FALSE
