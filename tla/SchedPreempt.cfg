SPECIFICATION PSpec
CONSTANTS
  NTASKS = 4
  DEPTH = 3
  LowMemState = "interrupt vector"
  CallersDisable = FALSE
INVARIANTS
  QueueIsRing
