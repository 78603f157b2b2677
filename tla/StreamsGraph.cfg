SPECIFICATION FairSpec
CONSTANTS
  Tables <- SmallTables
  Second = 6
  IntMax = 11
  Garbage <- SomeGarbage
  Horizon = 16
INVARIANTS
  GraphInv
  MaxIsHighestRate
  DurationIsLastEnd
PROPERTIES
  GraphEnds
