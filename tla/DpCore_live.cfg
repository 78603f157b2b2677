SPECIFICATION FairSpec
CONSTANTS
  Ports = {p1, p2}
  p1 = p1
  p2 = p2
  Programs <- LivePrograms
  Durations = {0, 3}
  Factors = {1}
  Width = 2
  SyncTime = 2
  ExitTime = 1
  MaxStarts <- Uneven
PROPERTIES
  MessagesAreRead
  QuitEndsTheThread
  PortKeepsItsPromise
