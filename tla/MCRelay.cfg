SPECIFICATION FairSpec
CONSTANTS
    Pid = {1, 2, 3}
    Hosts <- OneGathering
    Pool = 2
    MaxLinks = 2
    MaxFaults = 1
CHECK_DEADLOCK FALSE
INVARIANTS RelayedToPeer BothEndsAgree
PROPERTY PeersConnect
