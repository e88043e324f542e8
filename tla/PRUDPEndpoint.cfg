SPECIFICATION FairSpec
CONSTANTS
    Addr = {"a1"}
    MaxConn = 2
    MaxPackets = 5
    Races = {"rehandshake", "late_lock", "late_callback"}
CHECK_DEADLOCK FALSE
INVARIANTS ConnectedWatched
PROPERTIES SilentIsCleaned
