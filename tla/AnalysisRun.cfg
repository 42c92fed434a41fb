SPECIFICATION Spec
CONSTANTS
  Addresses = {a1, a2}
  NoAddress = NoAddress
  a1 = a1
  a2 = a2
  Window = 1
  Threshold = 2
  MaxPerIp = 2
  MaxGlobal = 3
  RuleWeight = 3
  StatWeight = 4
  IsoWeight = 3
  IsoScores = {0, 5000, 10000}
  MaxLogs = 3
  MaxFaults = 1
SYMMETRY Symmetry
INVARIANTS
  TypeOK
  WindowsExact
  
  
CHECK_DEADLOCK FALSE
