SPECIFICATION Spec
CONSTANTS
  s1 = s1
  s2 = s2
  None = None
  NoMeta = NoMeta
  Sources <- MCSources
  Types = {rgb}
  Devices = {d1}
  Metas = {m1}
  Persistent = TRUE
  Quotes = "bootstrap"
  MaxRevision = 3
SYMMETRY Symmetry
INVARIANTS
  TypeOK
  MemoryIsDurable
  RetiredIsDisabled
  RevisionNamesState
  GuardedWriteIsNotBlind
  SwitchIsRevisionParity
PROPERTY
  FlipAdvancesControl
  AtomicSpec
