CONSTANTS
  Procs = {p1, p2, p3}
  NoProc = NoProc
  Chunks = 1
  SemaphoreMax = 1
  Faults = {"source"}
  Interruptible = {}
SPECIFICATION Spec
INVARIANT
  ServerHasClient
CHECK_DEADLOCK FALSE
