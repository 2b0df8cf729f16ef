SPECIFICATION Spec
CONSTANTS
  Nodes = {n1, n2, n3, n4}
  Anchor = head
  Garbage = garbage
  MemSize = 5
  Char = {0, 1, 9, 15}
  Passed = {0, 1, 7, 9, 16, 17}
  LONG = 4096
  SHORT = 256
  CHAR = 16
  PtrDigits = 3
  Width = {0, 3, 6}
  Precision = {0, 2, 5}
  Number = {0, 10, 16, 255, 2047, 2048, 4095}
  Worker = {w1, w2}
  MaxLen = 2
INVARIANTS
  ListIsOrder
  AsInC
  FormatsAsMeant
  PrintsItsLine
