SPECIFICATION FairSpec
CONSTANTS
  PAGE = 6
  MaxPages = 4
  Requests = {1, 17, 40, 50, 60}
  Garbage = garbage
  OrderedFree = TRUE
INVARIANTS
  ChunksInv
  LiveInv
  Coalesced
  FaultsAtPageEdge
PROPERTIES
  GrowsWhenFull
  CallReturns
