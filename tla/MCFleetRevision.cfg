SPECIFICATION Spec
CONSTANTS
  s1 = s1
  s2 = s2
  None = None
  NoMeta = NoMeta
  Sources <- MCOneSource
  Types = {rgb}
  Devices = {d1}
  Metas = {m1}
  Persistent = TRUE
  Quotes = "fleet"
  MaxRevision = 3
INVARIANT
  GuardedWriteIsNotBlind
