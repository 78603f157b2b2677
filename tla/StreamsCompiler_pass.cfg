SPECIFICATION FairSpec
CONSTANTS
  Tables <- SmallTables
  DpCores = 3
  Bursts = {4}
INVARIANTS
  PositionsInv
  AcceptsExactlyWellFormed
  BurstIsShared
PROPERTIES
  Terminates
