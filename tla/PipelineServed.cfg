SPECIFICATION FairSpec
CONSTANTS
  l1 = l1
  l2 = l2
  Logs <- MCLogs
  NoMsg = NoMsg
  MaxRetries = 1
  MaxDepth = 1
  MaxCrashes = 1
  MaxFaults = 1
CHECK_DEADLOCK FALSE
PROPERTIES
  LogServed
