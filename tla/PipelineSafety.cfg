SPECIFICATION Spec
CONSTANTS
  l1 = l1
  l2 = l2
  Logs <- MCLogs
  NoMsg = NoMsg
  MaxRetries = 2
  MaxDepth = 1
  MaxCrashes = 2
  MaxFaults = 1
CHECK_DEADLOCK FALSE
SYMMETRY LogSymmetry
INVARIANT TypeOK
INVARIANT NoSilentLoss
INVARIANT DeadLetterEarned
INVARIANT ToldTrue
PROPERTY DeliveryRefined
