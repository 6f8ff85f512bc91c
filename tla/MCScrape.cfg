SPECIFICATION Spec
CONSTANTS
  a = a
  b = b
  c = c
  Symbols <- ABC
  Groups <- TwoGroups
  Metrics <- Page
  Shown <- TwoKinds
  MaxTime = 3
INVARIANTS
  TypeOK
  ValueHasItsTime
  GroupIsNotAhead
  NumberIsNotAhead
PROPERTIES
  TimesNeverGoBack
CHECK_DEADLOCK FALSE
