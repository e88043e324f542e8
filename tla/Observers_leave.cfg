SPECIFICATION ObserverSpec
CONSTANTS
    Addr = {"a1"}
    MaxConn = 1
    MaxPackets = 4
    Races = {}
CHECK_DEADLOCK FALSE
PROPERTY LeaveLoggedAsLeave
