CONSTANTS
    Keys = {"k", "m"}
    Registered = {"k"}
    max_tail_bytes = 1
    idle_timeout = 2
    sweep_interval = 2
    FrameFlags <- MCFrameFlags
    MaxFrames = 4
    MaxReady = 0
    MaxPlain = 1
    None = None
SPECIFICATION Spec
CHECK_DEADLOCK FALSE
INVARIANTS
    EvictionsAccounted
PROPERTIES
    LiveIsKept
    SweepIsPrompt
