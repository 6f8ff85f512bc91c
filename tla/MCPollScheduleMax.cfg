SPECIFICATION Spec
CONSTANTS
  ScrapingTime <- ThreeTimes
  Period = 8
  MaxRead = 2
  MaxCheck = 1
  Waits <- SomeWaits
INVARIANTS
  DeviatesByPeriod
