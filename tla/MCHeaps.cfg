SPECIFICATION HeapsSpec
CONSTANTS
  MAX_HEAP = 224
  INT_SPAN = 65536
  CHUNKSIZE = 64
  Requests <- MCRequests
  Values <- MCValues
  MaxCalls = 7
  PAGE_SIZE = 32
  SIZE_SPAN = 65536
  BumpRequests <- MCBumpRequests
  MaxBlocks = 6
INVARIANTS
  HeapTiled
  NoFreeNeighbours
  HeldBlocks
  TypeOK
  ApartUntilSecondGrowth
  CountOffByAbandoned
PROPERTIES
  KeepsPromise
  RefusedOnlyIfFull
CHECK_DEADLOCK FALSE
