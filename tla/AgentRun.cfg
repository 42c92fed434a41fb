SPECIFICATION FairSpec
CONSTANTS
  MaxLines = 5
  MaxPoll = 2
  QueueSize = 2
  BatchSize = 3
  Rate = 3
  MaxFaults = 2
  Impossible = {5}
INVARIANTS
  TypeOK
  NoGap
PROPERTIES
  ShippingRefined
  EveryLineSettled
  AgentEnds
CHECK_DEADLOCK FALSE
