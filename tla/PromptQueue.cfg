SPECIFICATION FairPromptSpec
CONSTANTS
    p1 = p1
    p2 = p2
    p3 = p3
    p4 = p4
    NoPrompt = NoPrompt
    Prompts <- FourPrompts
    MayVanish <- FourPrompts
    MaxCrashes = 1
CHECK_DEADLOCK FALSE
INVARIANTS
    QueueInvariant
    AnswersAreTrue
PROPERTIES
    RunsInArrivalOrder
    ImplementsLatestWins
