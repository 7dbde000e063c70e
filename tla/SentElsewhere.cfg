SPECIFICATION FairSpec
CONSTANTS
    p1 = p1
    p2 = p2
    alpha = alpha
    default = default
    a1 = a1
    NoPrompt = NoPrompt
    NoProject = NoProject
    Default <- default
    Prompts <- OnePrompt
    Projects <- TwoProjects
    Admins <- OneAdmin
    MayVanish <- NoneVanish
    MaxCrashes = 0
CHECK_DEADLOCK FALSE
PROPERTY RunsWhereItWasSent
