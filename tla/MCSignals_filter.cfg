SPECIFICATION PartSpec
CONSTANTS
  Freqs <- MCFreqs
  Window = 3
  GapTolerance = 2
  Maturity <- MCMaturity
  MinDuration = 2
  MinStableFrames = 2
  MaxID = 3
  MaxHits = 3
INVARIANT FilterFollows
CHECK_DEADLOCK FALSE
