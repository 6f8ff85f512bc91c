SPECIFICATION Spec
CONSTANTS
  a = a
  b = b
  c = c
  Symbols <- AB
  BoolSymbols <- AB
  Groups <- OneGroup
  Eras <- One
  Exported <- AllExported
  Address <- Swapped
PROPERTY
  MetricTellsLastRead
CHECK_DEADLOCK FALSE
