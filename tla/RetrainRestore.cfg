SPECIFICATION Spec
CONSTANTS
  ip1 = ip1
  ip2 = ip2
  Ips <- MCIps
  NoIp = NoIp
  NoModel = NoModel
  BufferMax = 4
  PerIp = 2
  Interval = 2
  Pairs = 12
  Scores <- MCScores
  MaxRestarts = 1
  MaxFaults = 0
CHECK_DEADLOCK FALSE
PROPERTY RestoredOnStart
