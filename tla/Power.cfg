SPECIFICATION FairPowerSpec
CONSTANTS
    Idle = 2
    WebIdle = 1
    TurnTime = 1
    NoLine = NoLine
    MaxStarts = 2
INVARIANTS
    PowerInvariant
    ProxyIsThere
    GateGoesWithDeploy
PROPERTIES
    InUseStaysUp
    IdleIsStopped
CHECK_DEADLOCK FALSE
