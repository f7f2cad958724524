SPECIFICATION Spec
CONSTANTS
  ann = ann
  bob = bob
  old = old
  new = new
  release = release
  None = None
  Operators <- MCOperators
  Commits <- MCCommits
  Parents <- MCParents
  Version <- MCVersion
  VersionOnly = {release}
  MaxReceipts = 2
  MaxStarts = 5
  MaxEdits = 1
SYMMETRY MCSymmetry
CHECK_DEADLOCK FALSE
INVARIANTS
  TypeOK
  FinalizationIsEarned
  StatusSpeaksOfOneRelease
