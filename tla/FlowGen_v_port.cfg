SPECIFICATION Spec
CONSTANTS
    MinPort = 1
    MaxPort = 6
    Tries = 3
    Pools <- MCPools
    Templates <- MCTemplates
    NodeNum = 6
    DeferNum = 3
INVARIANT
    NoPortAssertFails
CHECK_DEADLOCK FALSE
