SPECIFICATION PSpec
CONSTANTS
  NTASKS = 4
  DEPTH = 2
  LowMemState = "interrupt vector"
  CallersDisable = TRUE
INVARIANTS
  NoTaskLost
  OwnContextAtRest
