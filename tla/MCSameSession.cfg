SPECIFICATION FairSpec
CONSTANTS
  None = None
  Native = TRUE
  MaxFrames = 2
  MaxLives = 0
PROPERTY InFlightIsResolved
