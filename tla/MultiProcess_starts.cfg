CONSTANTS
  Procs = {p1, p2}
  NoProc = NoProc
  Chunks = 2
  SemaphoreMax = 2
  Faults = {"options", "open", "source", "destination", "mutex", "reader", "writer", "wait"}
  Interruptible = {p1}
SPECIFICATION Spec
INVARIANTS
  TypeOK
  RoleOfTheLiving
  NothingIsLeft
  OnlySemaphoresAreLeft
  PairIsConnected
  PairKeepsFile
CHECK_DEADLOCK FALSE
