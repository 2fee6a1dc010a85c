SPECIFICATION Spec
CONSTANTS
  MAX_HEAP = 192
  INT_SPAN = 65536
  CHUNKSIZE = 80
  Requests <- MCRequests
  Values <- MCValues
  MaxCalls = 9
INVARIANTS
  HeapTiled
  NoFreeNeighbours
  HeldBlocks
PROPERTIES
  PromiseUnlessMisled
CHECK_DEADLOCK FALSE
