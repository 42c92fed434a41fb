SPECIFICATION FairSpec
CONSTANTS
  Callers = {loop, c1, c2}
  loop = loop
  c1 = c1
  c2 = c2
  Loop = loop
  NoAnswer = NoAnswer
  TTL = 2
  MaxAlerts = 2
  MaxFaults = 1
INVARIANTS
  TypeOK
PROPERTIES
  Fresh
  ScansSpaced
  Settles
CHECK_DEADLOCK FALSE
