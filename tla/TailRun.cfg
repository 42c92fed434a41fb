SPECIFICATION FairSpec
CONSTANTS
  MaxFiles = 3
  MaxLines = 3
  MaxChanges = 3
  MaxFaults = 1
INVARIANTS
  TypeOK
  InOrderOnce
PROPERTIES
  LostOnlyInWindows
  Converges
