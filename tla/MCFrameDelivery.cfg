SPECIFICATION FairSpec
CONSTANTS
  None = None
  Native = TRUE
  MaxFrames = 4
  MaxLives = 1
INVARIANTS
  TypeOK
  FramesAreAccountedFor
  SequenceIsNeverReused
  AcceptedInCaptureOrder
  NothingIsClearedUnseen
PROPERTIES
  LedgerSpec
  ResolvedUnlessReused
