SPECIFICATION VSpec
CONSTANTS
  TOTAL_PAGES = 12
  RESERVED = 2
  MaxRun = 2
  WORD = 13
  CODE = 2
  DATA = 1
  BSS = 1
  NPages = 3
  NKstack = 4
  NHeap = 2
  MaxBrk = 2
  NotPresent = notPresent
INVARIANTS
  NoPageTwice
  UsedIsMapped
  RegionsInv
  FaultsByImageEnd
