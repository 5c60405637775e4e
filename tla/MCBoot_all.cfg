CONSTANTS
  UpdatesPerReport = 4
  MaximumRetry = 5
SPECIFICATION BootSpec
INVARIANTS
  BootTypeOK
  DependenciesHeld
  NeverIdle
PROPERTIES
  StopsOnInterrupt
  Alternates
  BootEnds
CHECK_DEADLOCK FALSE
