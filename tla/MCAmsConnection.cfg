SPECIFICATION FairSpec
CONSTANTS
  Callers = {c1, c2}
  Ports = {p1, p2}
  NoCaller = NoCaller
  MaxId = 3
INVARIANTS
  TypeOK
  SlotHasOneOwner
  ReceiverUsesLiveRequest
PROPERTIES
  ImplementsAdsCall
  CallsReturnUnlessCut
CHECK_DEADLOCK FALSE
