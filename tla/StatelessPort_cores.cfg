SPECIFICATION Spec
CONSTANTS
  Cores = {c1, c2}
  c1 = c1
  c2 = c2
  NoCore = NoCore
  Streams = {"burst", "dangling"}
  Kind <- KindOf
  RingSize = 4
  Optimized = FALSE
  MaxRuns = 2
  MaxInFlight = 1
SYMMETRY CoreSymmetry
INVARIANTS
  PendingIsExact
  StartFindsIdleUnlessOvertaken
  TableMatchesState
