SPECIFICATION Spec
CONSTANTS
  h1 = h1
  h2 = h2
  None = None
  NoMeta = NoMeta
  Sources = {cam}
  Types = {rgb}
  Devices = {}
  Metas = {m1}
  Threads <- MCThreads
  Kinds = {"heartbeat", "frame", "retire", "forget"}
  Reports <- MCReports
  Failures = {}
  Readers = {"bootstrap"}
  Capacity = 12
  MaxRequests = 3
CHECK_DEADLOCK FALSE
SYMMETRY Symmetry
INVARIANTS
  BootstrapCursorIsSafe
  ReadinessIsCurrentWhenQuiet
