SPECIFICATION FairGateSpec
CONSTANTS
    url = url
    push = push
    deploy = deploy
    stop = stop
    x = x
    a1 = a1
    a2 = a2
    Pruner = Pruner
    NoThread = NoThread
    NoRequest = NoRequest
    Domains <- OneDomain
    Seeds <- NoSeeds
    Threads <- TwoAdmins
    Durations <- ForEverOnly
    MayFail = FALSE
    MaxTime = 0
    MaxRestarts = 1
    Requests <- EverySort
    Kind <- TheirKinds
    Domain <- AllForX
    MaxAttempts = 2
    MaxCalls = 1
CHECK_DEADLOCK FALSE
INVARIANTS
    GateInvariant
    NothingWithoutApproval
    AtMostOnce
    NothingWasDone
    SuccessIsReal
    ApprovedUrlIsListed
PROPERTY EveryCallEnds
