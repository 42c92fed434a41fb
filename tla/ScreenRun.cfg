SPECIFICATION FairSpec
CONSTANTS
  PageSize = 2
  MaxAlerts = 3
  MaxFetches = 2
  MaxClicks = 2
  MaxFaults = 1
INVARIANTS
  TypeOK
  NoTwice
  OwnView
PROPERTIES
  
  Converges
