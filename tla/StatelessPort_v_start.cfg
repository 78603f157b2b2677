SPECIFICATION Spec
CONSTANTS
  Cores = {c1}
  c1 = c1
  NoCore = NoCore
  Streams = {"burst"}
  Kind <- KindOf
  RingSize = 4
  Optimized = TRUE
  MaxRuns = 3
  MaxInFlight = 2
INVARIANTS
  StartFindsPortIdle
