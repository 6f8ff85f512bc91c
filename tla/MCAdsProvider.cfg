SPECIFICATION FairSpec
CONSTANTS
  a = a
  b = b
  c = c
  Symbols <- ABC
  BoolSymbols <- AB
  Groups <- TwoGroups
  Eras <- Two
  Exported <- GainsA
  Address <- Swapped
INVARIANTS
  TypeOK
  OutageIsVisible
  NoAddressSurvivesOutage
  GoodReadIsAttributed
PROPERTIES
  Recovery
  LossIsPublished
CHECK_DEADLOCK FALSE
