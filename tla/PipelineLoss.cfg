SPECIFICATION Spec
CONSTANTS
  l1 = l1
  l2 = l2
  Logs <- MCLogs
  NoMsg = NoMsg
  MaxRetries = 2
  MaxDepth = 1
  MaxCrashes = 1
  MaxFaults = 1
CHECK_DEADLOCK FALSE
SYMMETRY LogSymmetry
INVARIANT NoLogLost
