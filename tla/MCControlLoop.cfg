SPECIFICATION Spec
CONSTANTS
  None = None
  NoMeta = NoMeta
  Sources = {cam}
  Source = cam
  Types = {rgb}
  Type = rgb
  Devices = {}
  Metas = {}
  Producers <- MCProducers
  Watched = {"desktop"}
  MaxRevision = 4
  MaxFaults = 2
  MaxLate = 1
CHECK_DEADLOCK FALSE
INVARIANTS
  TypeOK
  SwitchedOffMeansClosed
  FreeSlotMeansClosed
PROPERTIES
  CatalogVerdictIsCurrent
  ConvergesWhileUp
  CancelledRunEnds
