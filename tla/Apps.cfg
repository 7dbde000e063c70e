SPECIFICATION AppsSpec
CONSTANTS
    Repos = {chess, wiki, todo}
    NoRepo = NoRepo
    Primary = chess
    FirstPort = 1
    LastPort = 2
    RootPort = 1
    Threads = {t1, t2}
    NoThread = NoThread
    Main = Main
    MaxRequests = 3
    MaxRestarts = 1
    MaxDaemonRestarts = 1
INVARIANTS
    AppsTypeOK
    PortsHaveOneOwner
    DeployedIsWhatRuns
    RoutesFollow
PROPERTIES
    OthersAreLeftAlone
SYMMETRY Symmetry
CHECK_DEADLOCK FALSE
