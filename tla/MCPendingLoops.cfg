SPECIFICATION LoopSpec
CONSTANTS
    SeqSpace = 8
    MaxPayload = 3
    max_bytes = 5
    max_packets = 3
    MaxKey = 5
    MaxFrom = 4
    Content <- Tens
    StreamLen = 0
    Isn = 5
    max_age = 1
    None = None
INVARIANTS DrainComputesRun EvictKeepsTop
PROPERTY LoopsTerminate
CHECK_DEADLOCK FALSE
