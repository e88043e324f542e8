SPECIFICATION Spec
CONSTANTS
    SeqMod = 8
    Kinds = {"last"}
    Window = 1
    Lifetime = 1
    LateConnect = TRUE
    MaxPackets = 2
    MaxSessions = 1
INVARIANTS WaitsForNext
CHECK_DEADLOCK FALSE
