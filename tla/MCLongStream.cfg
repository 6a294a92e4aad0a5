SPECIFICATION LongStreamSpec
CONSTANTS
    SeqSpace = 8
    StreamLen = 12
    MaxPayload = 3
    Isn = 5
    max_bytes = 5
    max_packets = 3
    max_age = 1
    None = None
INVARIANT NoSilentLoss
CHECK_DEADLOCK FALSE
