SPECIFICATION TaskSpec
CONSTANTS
  MaxPkts = 3
  DecodeCap = 1
  DecodedCap = 1
  Window = 2
  PendMax = 1
  BufMax = 1
  MaxDisp = 2
  MaxFaults = 1
INVARIANTS
  DecodedInOrder
  PacketsAccounted

  
CHECK_DEADLOCK FALSE
