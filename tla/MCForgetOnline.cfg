SPECIFICATION Spec
CONSTANTS
  h1 = h1
  h2 = h2
  None = None
  NoMeta = NoMeta
  Sources = {cam}
  Types = {rgb}
  Devices = {d1}
  Metas = {m1}
  Threads <- MCThreads
  Kinds = {"heartbeat", "retire", "forget"}
  Reports <- MCOneReport
  Failures = {}
  Readers = {}
  Capacity = 12
  MaxRequests = 3
CHECK_DEADLOCK FALSE
SYMMETRY Symmetry
PROPERTY
  ForgetOnlyOffline
