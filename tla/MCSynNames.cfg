CONSTANTS
    Keys = {"k"}
    Registered = {"k"}
    max_tail_bytes = 1
    idle_timeout = None
    sweep_interval = 1
    FrameFlags = {}
    MaxFrames = 14
    MaxReady = 1
    MaxPlain = 1
    MaxLives = 2
    None = None
SPECIFICATION TeardownSpec
CHECK_DEADLOCK FALSE
INVARIANT SynNamesClient
