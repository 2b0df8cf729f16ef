SPECIFICATION FairSpec
CONSTANTS
  NTASKS <- MCTasks
  DEPTH <- MCDepth
  LowMemState <- MCLowMemState
INVARIANTS
  RunqInv
  OwnContext
  TssInv
  IInv
PROPERTIES
  Implements
  NoStarvation
