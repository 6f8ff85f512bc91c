SPECIFICATION StartupFairSpec
CONSTANTS
  a = a
  b = b
  c = c
  Symbols <- AllNames
  Times <- Milliseconds
  GroupLimit = 2
  Files <- AllFiles
  Nameless = Nameless
INVARIANTS
  TypeOK
  StartupTypeOK
  Partition
  TightGroups
  OnlyValidFilesRun
  PublishedSymbolsAreRead
  PollsWithDevice
  InformationIsPrefix
PROPERTIES
  RegistrationIsGuarded
  StartupEnds
CHECK_DEADLOCK FALSE
