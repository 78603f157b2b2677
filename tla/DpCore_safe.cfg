SPECIFICATION Spec
CONSTANTS
  Ports = {p1, p2}
  p1 = p1
  p2 = p2
  Programs <- SafePrograms
  Durations = {3}
  Factors = {2}
  Width = 2
  SyncTime = 2
  ExitTime = 1
  MaxStarts <- Uneven
INVARIANTS
  QueueInv
  ActiveCountIsExact
  BurstSendsItsPackets
  AssertionsHold
