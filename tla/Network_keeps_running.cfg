CONSTANTS
  Clients = {k1, k2}
  Files = 1
  Chunks = 2
  Faults = {}
SPECIFICATION Spec
INVARIANT ServerKeepsRunning
CHECK_DEADLOCK FALSE
