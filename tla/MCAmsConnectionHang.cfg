SPECIFICATION FairSpec
CONSTANTS
  Callers = {c1, c2}
  Ports = {p1, p2}
  NoCaller = NoCaller
  MaxId = 2
PROPERTIES
  EveryCallReturns
CHECK_DEADLOCK FALSE
