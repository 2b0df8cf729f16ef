SPECIFICATION FairSpec
CONSTANTS
  TOTAL_PAGES = 8
  RESERVED = 2
  MaxRun = 3
  WORD = 16
INVARIANTS
  BitmapInv
  PanicJustified
  BootInOrder
  IInv
PROPERTIES
  Implements
  CallReturns
