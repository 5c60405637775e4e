CONSTANTS
  l1 = l1
  l2 = l2
  v1 = v1
  v2 = v2
  Default = Default
  Loops <- const_Loops
  Values <- const_Values
  Retries = 2
  MaxWrites = 2
  MaxEdits = 1
  MaxFaults = 2
SPECIFICATION FairSpec
CHECK_DEADLOCK FALSE
INVARIANTS
  TypeOK
  OneBackoff
PROPERTIES
  KeepsReading
