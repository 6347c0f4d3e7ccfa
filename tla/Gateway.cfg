SPECIFICATION Spec
CONSTANTS
  Traces <- MCTraces
  WorkerCounts = {0, 1, 2, 3, 4}
  MaxWorkers = 3
  MaxQueue = 3
INVARIANTS
  NoSendOnClosed
PROPERTIES
  KeepsContract
  NoGoroutineLeak
CHECK_DEADLOCK FALSE
