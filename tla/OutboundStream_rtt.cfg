SPECIFICATION Spec
CONSTANTS
    SeqMod = 16
    MaxPacketRetransmissions = 3
    RTTRetransmit = 2
    Races = {}
    MaxPackets = 1
    MaxWindows = 1
    MaxSessions = 1
CHECK_DEADLOCK FALSE
INVARIANT SampleNotResent
