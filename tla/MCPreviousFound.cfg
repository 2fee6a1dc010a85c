SPECIFICATION Spec
CONSTANTS
  MAX_HEAP = 192
  INT_SPAN = 65536
  CHUNKSIZE = 80
  Requests <- MCRequests
  Values = {}
  MaxCalls = 4
INVARIANTS
  PreviousFound
CHECK_DEADLOCK FALSE
