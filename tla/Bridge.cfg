SPECIFICATION FairBridgeSpec
CONSTANTS
    Messages = {m1}
    Notices = {n1}
    Main = Main
    Nothing = Nothing
    MaxLosses = 2
INVARIANTS
    BridgeInvariant
    SentIsSent
PROPERTIES
    NobodyWaitsInVain
    MessagesAreHandled
CHECK_DEADLOCK FALSE
