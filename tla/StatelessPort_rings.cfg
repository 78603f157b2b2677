SPECIFICATION FairSpec
CONSTANTS
  Cores = {c1}
  c1 = c1
  NoCore = NoCore
  Streams = {"continuous", "burst"}
  Kind <- KindOf
  RingSize = 2
  Optimized = TRUE
  MaxRuns = 2
  MaxInFlight = 3
INVARIANTS
  PortInv
  EndReportedOnce
  PauseResumeInOrder
  StoppedPortIsQuiet
PROPERTIES
  RunEndsForCause
  RunEventuallyEnds
