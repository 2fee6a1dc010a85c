SPECIFICATION BumpSpec
CONSTANTS
  MAX_HEAP = 320
  INT_SPAN = 4096
  PAGE_SIZE = 64
  SIZE_SPAN = 65536
  BumpRequests = {0, 8, 24, 100, 200}
  MaxBlocks = 6
INVARIANTS
  BlocksInsideHeap
CHECK_DEADLOCK FALSE
