SPECIFICATION Spec
CONSTANTS
    Flows <- MCFlows
    Mappings = {1, 2}
    MaxNatInfo = 2
    RingSize = 1
    MaxFull = 2
    Copies <- MCCopies
INVARIANTS
    WaitingInv
PROPERTIES
    AnswersAreTranslated
    LearnedOnce
    WaitingEnds
    BatchIsSent
CHECK_DEADLOCK FALSE
