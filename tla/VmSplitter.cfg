SPECIFICATION Spec
CONSTANTS
  DpCores = 3
  FlowVars <- AllFlowVars
  ClientVars <- ClientVarsAll
  Longs = 16
  Ints = 8
  Ports = 4
  UnlimitedMin = 2
  MaxPackets = 10
INVARIANTS
  ValuesInv
  SplitIsPartition
CHECK_DEADLOCK FALSE
