SPECIFICATION Spec
CONSTANTS
  TOTAL_INODES = 5
  TOTAL_DATA = 9
  NDIRECT = 1
  BINS = 2
  EPB = 2
  Names = {"a", "b"}
  MaxDepth = 2
  FileBlocks = {1, 5}
  WriteAfterAbort = TRUE
INVARIANT NdirectHoldsAddresses
