SPECIFICATION FairSpec
CONSTANTS
    SeqMod = 6
    Kinds = {"fragment", "last", "ping"}
    Window = 3
    Lifetime = 4
    LateConnect = FALSE
    MaxPackets = 4
    MaxSessions = 2
INVARIANTS AckedNotLost MessagesOrdered
PROPERTIES ImplementsOrderedStream DataDispatched
CHECK_DEADLOCK FALSE
