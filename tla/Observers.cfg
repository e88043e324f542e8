SPECIFICATION ObserverSpec
CONSTANTS
    Addr = {"a1", "a2"}
    MaxConn = 3
    MaxPackets = 6
    Races = {}
CHECK_DEADLOCK FALSE
INVARIANTS ConnectedMapped EndedIsDead  StartTracksConnections
PROPERTIES  DropLoggedAsDrop
