SPECIFICATION FairSpec
CONSTANTS
    SeqMod = 16
    MaxPacketRetransmissions = 2
    RTTRetransmit = 2
    Races = {"late_connect", "late_send", "late_ack"}
    MaxPackets = 3
    MaxWindows = 3
    MaxSessions = 2
CHECK_DEADLOCK FALSE
INVARIANTS NothingLost
PROPERTIES  WaitingEnds
