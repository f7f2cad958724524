SPECIFICATION Spec
CONSTANTS
  h1 = h1
  h2 = h2
  None = None
  NoMeta = NoMeta
  Sources = {cam}
  Types = {rgb}
  Devices = {d1}
  Metas = {m1}
  Threads <- MCThreads
  Kinds = {"heartbeat", "frame", "packet", "retire", "restore", "patch"}
  Reports <- MCOneReport
  Failures = {"write", "frame", "crash"}
  Readers = {"consistency"}
  Capacity = 12
  MaxRequests = 2
CHECK_DEADLOCK FALSE
SYMMETRY Symmetry
INVARIANTS
  JournalNeverAhead
  EventsAreNotBackdated
  RegisteredIsReported
