SPECIFICATION BridgeSpec
CONSTANTS
    Messages = {m1}
    Notices = {n1}
    Main = Main
    Nothing = Nothing
    MaxLosses = 1
INVARIANT EveryLineIsDispatched
CHECK_DEADLOCK FALSE
