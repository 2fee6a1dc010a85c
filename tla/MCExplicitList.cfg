SPECIFICATION Spec
CONSTANTS
  MAX_HEAP = 368
  INT_SPAN = 65536
  CHUNKSIZE = 160
  Requests <- MCRequests
  Fills = TRUE
  MaxCalls = 7
INVARIANTS
  HeapTiled
  HeldBlocks
  LinkedToThemselves
  SmallRequestsServed
PROPERTIES
  PromiseUnlessAstray
  FreeSoundUnlessLinkIsData
CHECK_DEADLOCK FALSE
