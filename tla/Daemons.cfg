\* Two daemons race for one path, one is stopped or killed; a client dispatches twice.
SPECIFICATION FairSpec
CONSTANTS
  Daemons = {d1, d2}
  NoSocket = NoSocket
  Stale = Stale
  NoDaemon = NoDaemon
  MaxSlow = 1
  MaxStops = 1
  Clients = {c1}
  Keyed = TRUE
  MaxTries = 2
  MaxRecords = 2
CHECK_DEADLOCK FALSE
INVARIANTS
  TypeOK
  ServingHasThePath
  OneRunPerRequest
  SubscriberMissesNothing
PROPERTIES
  StartsAreReached
