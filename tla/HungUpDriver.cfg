SPECIFICATION FairPromptSpec
CONSTANTS
    p1 = p1
    p2 = p2
    p3 = p3
    p4 = p4
    NoPrompt = NoPrompt
    Prompts <- ThreePrompts
    MayVanish <- OneVanishes
    MaxCrashes = 0
CHECK_DEADLOCK FALSE
PROPERTY
    EveryPromptEnds
