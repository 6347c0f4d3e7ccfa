SPECIFICATION Spec
CONSTANTS
  Groups <- MCGroups
  capacity_blocks = 4
  Requests <- MCRequests
  Keys <- MCKeys
  RequestIds <- MCRequestIds
  Policies = {"fifo", "lru", "segmented", "generated", "duplicate", "unknown", "arbitrary"}
  MaxRequests = 3
INVARIANTS
  CacheValid
  OwnersAreRunning
  RaisesOnlyWhenTooBig
PROPERTIES
  LiveBlocksStay
