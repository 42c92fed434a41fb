SPECIFICATION FairSpec
CONSTANTS
  Clients = {c1, c2}
  Casters = {bridge, metrics}
  QueueSize = 1
  MaxEvents = 3
  MaxFaults = 1
  NoClient = NoClient
INVARIANTS
  TypeOK
  RegisteredServed
  GapFree
PROPERTIES
  LostDropped
  BroadcastEnds
  ShutdownEnds
CHECK_DEADLOCK FALSE
