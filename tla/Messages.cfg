SPECIFICATION FairSpec
CONSTANTS
    NoPrompt = NoPrompt
    Prompts <- ThreeMessages
    MayVanish <- ThreeMessages
    MaxCrashes = 1
    MaxDeaths = 1
CHECK_DEADLOCK FALSE
INVARIANT MessagesInvariant
PROPERTY EveryMessageEnds
