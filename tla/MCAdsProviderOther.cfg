SPECIFICATION Spec
CONSTANTS
  a = a
  b = b
  c = c
  Symbols <- AB
  BoolSymbols <- AB
  Groups <- OneGroup
  Eras <- One
  Exported <- WithoutA
  Address <- Swapped
INVARIANT
  NoOtherSymbolsData
CHECK_DEADLOCK FALSE
