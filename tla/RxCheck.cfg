SPECIFICATION Spec
CONSTANTS
    f1 = f1
    f2 = f2
    Flow <- MCFlow
    Packets <- MCPackets
    MinAging = 1
    AgeEvery = 2
    MaxCopies = 2
    MaxRx = 4
    MaxTime = 3
INVARIANTS
    TableInv
    NoFalseAlarm
PROPERTIES
    CleanFlowWasDelivered
    AgesExactlyTheSilent
    PassEnds
CHECK_DEADLOCK FALSE
