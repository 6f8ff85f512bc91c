SPECIFICATION FairSpec
CONSTANTS
  ScrapingTime <- ThreeTimes
  Period = 8
  MaxRead = 2
  MaxCheck = 1
  Waits <- SomeWaits
INVARIANTS
  TypeOK
  ReadInTime
PROPERTIES
  CatchesUp
