CONSTANTS
    Keys = {"k"}
    Registered = {"k"}
    max_tail_bytes = 1
    idle_timeout = None
    sweep_interval = 1
    FrameFlags <- MCFrameFlags
    MaxFrames = 4
    MaxReady = 2
    MaxPlain = 1
    None = None
SPECIFICATION Spec
CHECK_DEADLOCK FALSE
INVARIANTS
    TypeOK
    CountersSum
    DesyncedHoldsNothing
    DesyncCountedOnce
    PlaintextAccounted
PROPERTIES
    DirectionsIndependent
