SPECIFICATION Spec
CONSTANTS
    SeqSpace = 8
    StreamLen = 6
    MaxPayload = 3
    Isn = 5
    max_bytes = 5
    max_packets = 3
    max_age = 1
    None = None
INVARIANTS TypeOK DeliversExactStream NoSilentLoss GapIsReal WithinLimits ClockRunsWithGap
PROPERTIES LossIsReported ImplementsLosslessStream
CHECK_DEADLOCK FALSE
