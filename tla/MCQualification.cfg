SPECIFICATION Spec
CONSTANTS
  cam = cam
  blank = blank
  near = near
  d1 = d1
  None = None
  Sources <- MCSources
  Cam = cam
  DirectThreads = {d1}
  DirectSources <- MCSources
  Scenes <- MCScenes
  Blank = blank
  Capacity = 1
  Receipts = 1
  Failures <- AllFailures
  MaxEvents = 3
  MaxDirect = 1
  MaxFaults = 1
CHECK_DEADLOCK FALSE
INVARIANTS
  TypeOK
  AdmittedIsJournalled
  PassIsFreshEvidence
