CONSTANTS
  Clients <- TwoClients
  Loop = loop
  Nobody = nobody
SPECIFICATION FairSpec
CHECK_DEADLOCK FALSE
INVARIANT
  TypeOK
PROPERTIES
  WakeIsServed
  ShutdownEnds
