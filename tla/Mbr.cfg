SPECIFICATION Spec
CONSTANTS
  SECTOR = 2
  WORD = 64
  Size = {0, 1, 8, 9}
  MaxRuns = 6
INVARIANTS
  TableInv
PROPERTIES
  AppendsOnly
CHECK_DEADLOCK FALSE
