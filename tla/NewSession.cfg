SPECIFICATION PowerSpec
CONSTANTS
    Idle = 2
    WebIdle = 1
    TurnTime = 1
    NoLine = NoLine
    MaxStarts = 2
PROPERTY NewSessionSurvives
CHECK_DEADLOCK FALSE
