SPECIFICATION Spec
CONSTANTS
    SeqMod = 8
    Kinds = {"fragment", "last"}
    Window = 1
    Lifetime = 1
    LateConnect = FALSE
    MaxPackets = 2
    MaxSessions = 2
INVARIANTS MessagesWhole
CHECK_DEADLOCK FALSE
