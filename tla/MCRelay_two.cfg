SPECIFICATION Spec
CONSTANTS
    Pid = {1, 2, 3, 4, 5}
    Hosts <- TwoGatherings
    Pool = 2
    MaxLinks = 3
    MaxFaults = 0
CHECK_DEADLOCK FALSE
INVARIANT DistinctHosts
