SPECIFICATION Spec
CONSTANTS
  c1 = c1
  c2 = c2
  None = None
  Clients <- MCOneClient
  Events <- MCEvents
  Capacities = {1, 2}
  Limits = {1, 2}
  Persistent = TRUE
  MaxEvents = 4
  MaxStreams = 2

INVARIANT
  BootstrapMissesNothing
