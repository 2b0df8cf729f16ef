SPECIFICATION Spec
CONSTANTS
  PAGE = 6
  MaxPages = 2
  Requests = {8}
  Garbage = garbage
  OrderedFree = FALSE
INVARIANTS
  FreesItsOwn
