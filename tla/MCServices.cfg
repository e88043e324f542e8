SPECIFICATION ServicesSpec
CONSTANTS
    Pid = {"p1", "p2"}
    Patched = {"p2"}
    Password = {"w1", "w2"}
    Seeded = {"p1"}
    Faults = {"open_fails", "load_fails", "save_unknown", "same_pid"}
    MaxRequests = 3
    MaxStarts = 3
    Games = {"ffe", "mk7"}
    OtherGames = {"acnl"}
    Users = {"u1", "u2"}
    Upstreams <- MCUpstreams
    MaxACs = 2
    Consoles = {3, 4}
    GameCount = 2
    Place <- MCPlace
    Local = {4}
    MaxChanges = 4
    MaxPasses = 2
    UInt = 1000
    MaxKernel = 4
    MaxSamples = 3
    GatheringIDs = {1, 2, 3}
    AskedFor = {2, 4}
    MaxRows = 4
    MaxRoomChanges = 3
    Servers = {"ffe", "fl", "mk7"}
    LinkPairs = {"pq", "pr"}
CHECK_DEADLOCK FALSE
INVARIANTS
    RegisteredCanLogin
    ConnectedCanLogin
    
    
    AskedOnce
    RatesTrue
    ListFits
    BrowseStable
    LinksHavePool
