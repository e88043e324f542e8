SPECIFICATION ProtocolSpec
CONSTANTS
    Byte = 8
    Types <- UsedTypes
    Samples <- MCSamples
    Requests <- MCRequests
    Outgoing <- MCOutgoing
    Endpoints = {1}
    AccessKeySum = 500
    Texts <- MCTexts
    Edits <- MCEdits
    MaxFields = 4
    MaxEdits = 2
    Goroutines = {g1, g2}
    Lengths = {0, 4, 5, 8}
    FragmentSize = 2
    FragmentIDs = 4
    SubstreamIDs = 4
    MaxMessages = 3
    KeyValues = 4
    SessionID = 1
    ClientSequenceIDs = {1, 6}
    MaxServerPackets = 2
    Latencies = {1, 7, 8, 100, 940, 3000}
    MaxPacketRetransmissions = 20
    RTTRetransmit = 2
    InitialRTT = 750
    MaxTimed = 3
    MaxPings = 2
    CheckValues = 2
    Second = 2
    TimeLimit = 4
    MaxTime = 7
    MaxLogins = 2
INVARIANTS
    
    
    
    CallAnswered
    DatagramRead
    SignatureAgrees
    JoinerReads
    
    MessagesArrive
    
    GivenUpUnheard
    JoinedAgrees
PROPERTY HostKeepsURL
CHECK_DEADLOCK FALSE
