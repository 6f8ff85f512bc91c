SPECIFICATION Spec
CONSTANTS
  a = a
  b = b
  c = c
  Symbols <- AB
  BoolSymbols = {}
  Groups <- OneGroup
  Eras <- One
  Exported <- WithoutA
  Address <- Swapped
INVARIANT
  UnreadSymbolIsMarked
CHECK_DEADLOCK FALSE
