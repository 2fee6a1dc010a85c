SPECIFICATION Spec
CONSTANTS
  MAX_HEAP = 368
  INT_SPAN = 65536
  CHUNKSIZE = 160
  Requests <- MCRequests
  Fills = TRUE
  MaxCalls = 5
PROPERTIES
  FreedAtHead
CHECK_DEADLOCK FALSE
