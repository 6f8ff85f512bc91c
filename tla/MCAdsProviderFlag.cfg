SPECIFICATION Spec
CONSTANTS
  a = a
  b = b
  c = c
  Symbols <- AB
  BoolSymbols <- AB
  Groups <- OneGroup
  Eras <- One
  Exported <- AllExported
  Address <- Swapped
INVARIANT
  FlagTellsLastAttempt
CHECK_DEADLOCK FALSE
