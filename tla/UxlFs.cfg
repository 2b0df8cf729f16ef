SPECIFICATION Spec
CONSTANTS
  TOTAL_INODES = 5
  TOTAL_DATA = 14
  NDIRECT = 1
  BINS = 2
  EPB = 2
  Names = {"a", "b"}
  MaxDepth = 2
  FileBlocks = {1, 7, 8}
  WriteAfterAbort = FALSE
INVARIANTS
  ImageInv
  NoOrphans
  IndexFaultsAtEnd
  NdirectHoldsAddresses
PROPERTIES
  Implements
