CONSTANTS
    Modes <- MCModes
    MaxMessages = 6
    MaxSeconds = 3
    MaxRestarts = 1
    None = None
SPECIFICATION Spec
CHECK_DEADLOCK FALSE
INVARIANTS
    ChunksConcatenate
    ChunksAreFull
    OnlyOpenIsIncomplete
PROPERTIES
    FinishedIsFinal
