SPECIFICATION FairSpec
CONSTANTS
    p1 = p1
    p2 = p2
    alpha = alpha
    default = default
    a1 = a1
    NoPrompt = NoPrompt
    NoProject = NoProject
    Default <- default
    Prompts <- TwoPrompts
    Projects <- TwoProjects
    Admins <- OneAdmin
    MayVanish <- NoneVanish
    MaxCrashes = 1
CHECK_DEADLOCK FALSE
INVARIANTS
    HistoryStaysInProject
    ForgottenStaysForgotten
    FinishedIsRemembered
    TurnsAreTracked
    ProjectsHaveDirectories
    WrapperInvariant
PROPERTIES
    BackLeadsBack
    ImplementsPromptQueue
