SPECIFICATION FairSpec
CONSTANTS
  Line = {0, 1, 2, 8}
  Noisy = {1}
  NIBBLE = 2
  TEXT = 21
  STUB = 2
  Tss = 230
  TssSize = 13
INVARIANTS
  PicInv
  ReachesOwnHandler
  MaskAsAsked
PROPERTIES
  EndsItsOwn
  Served
CHECK_DEADLOCK FALSE
