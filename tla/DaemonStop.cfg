\* Two daemons, one of them told to stop; the client dispatches nothing.
SPECIFICATION Spec
CONSTANTS
  Daemons = {d1, d2}
  NoSocket = NoSocket
  Stale = Stale
  NoDaemon = NoDaemon
  MaxSlow = 1
  MaxStops = 1
  Clients = {c1}
  Keyed = TRUE
  MaxTries = 0
  MaxRecords = 0
CHECK_DEADLOCK FALSE
INVARIANTS
  StopMeansStop
